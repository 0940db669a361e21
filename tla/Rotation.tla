------------------------------ MODULE Rotation ------------------------------
(***************************************************************************)
(* The agent's identity: enrollment, and the certificate rotation main()   *)
(* runs at start-up when the certificate nears its end.  The data          *)
(* directory holds the active identity, at most one rollback copy, one     *)
(* failed copy and staging directories; directory renames are the steps.   *)
(* The process may die between any two of them, file system calls may      *)
(* fail, and Control Plane calls may lose their request or their answer.   *)
(***************************************************************************)
EXTENDS Integers, FiniteSets

CONSTANTS
  None,            \* no such directory, no certificate
  MaxCerts,        \* bound on the certificates the Control Plane issues
  FsMayFail,       \* whether renames and removals may fail
  RetireOnConfirm  \* whether confirming B ends the Control Plane's trust in A

Certs == 1 .. MaxCerts

ASSUME RotationAssumption ==
  /\ MaxCerts \in Nat \ {0}
  /\ None \notin Certs
  /\ FsMayFail \in BOOLEAN
  /\ RetireOnConfirm \in BOOLEAN

VARIABLES
  active,    \* the certificate in identity/
  rollback,  \* the one in identity-rollback/
  failed,    \* the one in identity-rotation-failed/
  stages,    \* complete identity-rotation-<id>/ directories
  partial,   \* incomplete ones
  issued,    \* the Control Plane's view of every certificate
  token,     \* an unused enrollment token is configured
  pc,        \* where main() is
  current,   \* the certificate of the api client
  next,      \* the certificate being enrolled or rotated in
  enrolled   \* history: the agent has had an identity

disk == <<active, rollback, failed, stages, partial>>
vars == <<disk, issued, token, pc, current, next, enrolled>>

PCs == {"down", "save", "loaded", "stage", "staging", "activate", "activate2",
        "discard", "unstage", "reload", "confirm", "commit", "undo", "undo2",
        "undo3", "abandon", "resume", "online"}

Init ==
  /\ active = None /\ rollback = None /\ failed = None
  /\ stages = {} /\ partial = {}
  /\ issued = [c \in Certs |-> "unissued"]
  /\ token = TRUE
  /\ pc = "down"
  /\ current = None /\ next = None
  /\ enrolled = FALSE

Fresh == {c \in Certs : issued[c] = "unissued" /\ \A d \in 1 .. c - 1 : issued[d] # "unissued"}

\* os.Exit, or the process dies: memory is gone.
Dies == pc' = "down" /\ current' = None /\ next' = None

-----------------------------------------------------------------------------
(* Start-up and enrollment.                                                 *)

\* identity.Load's answer used without looking for nil.
BootUnchecked ==
  /\ pc = "down"
  /\ current' = active
  /\ pc' = "loaded"
  /\ UNCHANGED <<disk, issued, token, next, enrolled>>

\* identity.Load finds an identity.
Boot ==
  /\ pc = "down"
  /\ active # None
  /\ current' = active
  /\ pc' = "loaded"
  /\ UNCHANGED <<disk, issued, token, next, enrolled>>

\* Load finds no directory and Ensure enrolls with the token, which the Control
\* Plane consumes; the answer may be lost.
Enroll ==
  /\ pc = "down"
  /\ active = None
  /\ token
  /\ token' = FALSE
  /\ \E c \in Fresh :
       /\ issued' = [issued EXCEPT ![c] = "active"]
       /\ \/ next' = c /\ pc' = "save" /\ UNCHANGED current
          \/ Dies
  /\ UNCHANGED <<disk, enrolled>>

\* Without identity and without token the agent cannot start.
CannotStart ==
  /\ pc = "down"
  /\ active = None /\ ~token
  /\ UNCHANGED vars

\* SaveEnrollment installs the identity with one rename.
SaveEnrollment ==
  /\ pc = "save"
  /\ active' = next
  /\ current' = next
  /\ next' = None
  /\ enrolled' = TRUE
  /\ pc' = "loaded"
  /\ UNCHANGED <<rollback, failed, stages, partial, issued, token>>

\* The certificate is not due, or the rotation is over: capabilities and the
\* initial heartbeat are accepted ...
GoOnline ==
  /\ pc \in {"loaded", "resume"}
  /\ issued[current] = "active"
  /\ pc' = "online"
  /\ UNCHANGED <<disk, issued, token, current, next, enrolled>>

-----------------------------------------------------------------------------
(* Rotation.                                                                *)

\* RotateIdentity: the Control Plane issues a pending certificate to an agent
\* it trusts.  A lost answer makes main() exit.
RequestRotation ==
  /\ pc = "loaded"
  /\ issued[current] = "active"
  /\ \E c \in Fresh :
       /\ issued' = [issued EXCEPT ![c] = "pending"]
       /\ \/ next' = c /\ pc' = "stage" /\ UNCHANGED current
          \/ Dies
  /\ UNCHANGED <<disk, token, enrolled>>

\* StageRotation makes the staging directory ...
StageBegins ==
  /\ pc = "stage"
  /\ partial' = partial \cup {next}
  /\ pc' = "staging"
  /\ UNCHANGED <<active, rollback, failed, stages, issued, token, current, next, enrolled>>

\* ... and writes and syncs every file of it.
StageEnds ==
  /\ pc = "staging"
  /\ partial' = partial \ {next}
  /\ stages' = stages \cup {next}
  /\ pc' = "activate"
  /\ UNCHANGED <<active, rollback, failed, issued, token, current, next, enrolled>>

\* Where a failed StageRotation leads: stage = "" skips the activation.
OnStageFailureGoesOn == "activate"
OnStageFailure == "abandon"

\* Validation, the directory or a write fails; RemoveAll may leave the remains.
StageFails ==
  /\ pc \in {"stage", "staging"}
  /\ partial' \in {partial \ {next}} \cup (IF FsMayFail THEN {partial} ELSE {})
  /\ pc' = OnStageFailure
  /\ UNCHANGED <<active, rollback, failed, stages, issued, token, current, next, enrolled>>

\* What ActivateRotation keeps of the active identity.
NoCopyKept == None
CopyKept == active

\* ActivateRotation: the first rename ...
ActivateMovesActive ==
  /\ pc = "activate"
  /\ rollback = None
  /\ rollback' = CopyKept
  /\ active' = None
  /\ pc' = "activate2"
  /\ UNCHANGED <<failed, stages, partial, issued, token, current, next, enrolled>>

\* ... does not happen: an earlier rollback copy is in the way, or it fails.
ActivateRefused ==
  /\ pc = "activate"
  /\ rollback # None \/ FsMayFail
  /\ pc' = "discard"
  /\ UNCHANGED <<disk, issued, token, current, next, enrolled>>

\* The second rename.
ActivateMovesStage ==
  /\ pc = "activate2"
  /\ active' = next
  /\ stages' = stages \ {next}
  /\ pc' = "reload"
  /\ UNCHANGED <<rollback, failed, partial, issued, token, current, next, enrolled>>

\* The second rename fails and the first is undone, unless that fails as well.
ActivateUndone ==
  /\ pc = "activate2" /\ FsMayFail
  /\ \/ active' = rollback /\ rollback' = None
     \/ UNCHANGED <<active, rollback>>
  /\ pc' = "discard"
  /\ UNCHANGED <<failed, stages, partial, issued, token, current, next, enrolled>>

\* The new identity is loaded and a client made from it, or one of them fails.
Reload ==
  /\ pc = "reload"
  /\ pc' \in {"confirm", "undo"}
  /\ UNCHANGED <<disk, issued, token, current, next, enrolled>>

Confirmed ==
  [issued EXCEPT ![next] = "active",
                 ![current] = IF RetireOnConfirm THEN "revoked" ELSE @]

\* ConfirmIdentityRotation with certificate B is answered.
Confirm ==
  /\ pc = "confirm"
  /\ issued' = Confirmed
  /\ current' = next
  /\ pc' = "commit"
  /\ UNCHANGED <<disk, token, next, enrolled>>

\* Where a failed confirmation leads: back to A.
OnConfirmFailureCommits == "commit"
OnConfirmFailure == "undo"

\* The confirmation fails, or happens and its answer is lost.
ConfirmUnanswered ==
  /\ pc = "confirm"
  /\ issued' \in {issued, Confirmed}
  /\ pc' = OnConfirmFailure
  /\ UNCHANGED <<disk, token, current, next, enrolled>>

\* CommitRotation removes the rollback copy; a failure is only logged.
Commit ==
  /\ pc = "commit"
  /\ rollback' \in {None} \cup (IF FsMayFail THEN {rollback} ELSE {})
  /\ pc' = "resume"
  /\ UNCHANGED <<active, failed, stages, partial, issued, token, current, next, enrolled>>

\* RollbackRotation: B is moved aside ...
UndoMovesActive ==
  /\ pc = "undo"
  /\ failed = None
  /\ failed' = active
  /\ active' = None
  /\ pc' = "undo2"
  /\ UNCHANGED <<rollback, stages, partial, issued, token, current, next, enrolled>>

\* ... unless the rename fails, as it must onto a directory left from before.
\* main() ignores the error.
UndoRefused ==
  /\ pc = "undo"
  /\ failed # None \/ FsMayFail
  /\ pc' = "abandon"
  /\ UNCHANGED <<disk, issued, token, current, next, enrolled>>

\* A is moved back ...
UndoRestores ==
  /\ pc = "undo2"
  /\ active' = rollback
  /\ rollback' = None
  /\ pc' = "undo3"
  /\ UNCHANGED <<failed, stages, partial, issued, token, current, next, enrolled>>

\* ... or that fails, and B returns unless this rename fails too.
UndoUndone ==
  /\ pc = "undo2" /\ FsMayFail
  /\ \/ active' = failed /\ failed' = None
     \/ UNCHANGED <<active, failed>>
  /\ pc' = "abandon"
  /\ UNCHANGED <<rollback, stages, partial, issued, token, current, next, enrolled>>

\* B's directory is removed.
UndoRemoves ==
  /\ pc = "undo3"
  /\ failed' \in {None} \cup (IF FsMayFail THEN {failed} ELSE {})
  /\ pc' = "abandon"
  /\ UNCHANGED <<active, rollback, stages, partial, issued, token, current, next, enrolled>>

\* RollbackIdentityRotation with certificate A revokes B; errors are ignored.
Abandon ==
  /\ pc \in {"abandon", "discard"}
  /\ \/ UNCHANGED issued
     \/ issued[current] = "active" /\ issued' = [issued EXCEPT ![next] = "revoked"]
  /\ pc' = IF pc = "discard" THEN "unstage" ELSE "resume"
  /\ UNCHANGED <<disk, token, current, next, enrolled>>

\* os.RemoveAll(stage) after a failed activation.
Unstage ==
  /\ pc = "unstage"
  /\ stages' \in {stages \ {next}} \cup (IF FsMayFail THEN {stages} ELSE {})
  /\ pc' = "resume"
  /\ UNCHANGED <<active, rollback, failed, partial, issued, token, current, next, enrolled>>

\* The process dies or exits at any point, by a refusal of the Control Plane too.
Crash ==
  /\ pc # "down"
  /\ Dies
  /\ UNCHANGED <<disk, issued, token, enrolled>>

Next ==
  \/ Boot \/ Enroll \/ CannotStart \/ SaveEnrollment \/ GoOnline
  \/ RequestRotation \/ StageBegins \/ StageEnds \/ StageFails
  \/ ActivateMovesActive \/ ActivateRefused \/ ActivateMovesStage \/ ActivateUndone
  \/ Reload \/ Confirm \/ ConfirmUnanswered \/ Commit
  \/ UndoMovesActive \/ UndoRefused \/ UndoRestores \/ UndoUndone \/ UndoRemoves
  \/ Abandon \/ Unstage \/ Crash

Spec == Init /\ [][Next]_vars

-----------------------------------------------------------------------------
(* Properties.                                                              *)

\* Every variable keeps its type, and a process that got past its start has the
\* certificate its calls are made with.
TypeOK ==
  /\ active \in Certs \cup {None}
  /\ rollback \in Certs \cup {None}
  /\ failed \in Certs \cup {None}
  /\ stages \subseteq Certs /\ partial \subseteq Certs
  /\ issued \in [Certs -> {"unissued", "pending", "active", "revoked"}]
  /\ token \in BOOLEAN
  /\ pc \in PCs
  /\ current \in Certs \cup {None}
  /\ next \in Certs \cup {None}
  /\ enrolled \in BOOLEAN
  /\ pc \notin {"down", "save"} => current # None

\* "A partial or invalid staged identity never replaces the active identity":
\* neither the active nor the rollback copy is a directory StageRotation did
\* not finish.
OnlyCompleteActivated == active \notin partial /\ rollback \notin partial

\* "prior identity preserved": the identity the running process calls the Control
\* Plane with is on disk, active or as the rollback copy, through every refused,
\* half done or undone rotation and through the leftovers of earlier ones; a
\* process that lost it could not be started as the same agent again.
CurrentOnDisk == pc \notin {"down", "save"} => current \in {active, rollback}

\* An enrolled agent always has a copy on disk, active or rollback, that the
\* Control Plane still trusts, whatever crashed, failed or was lost between the
\* renames and the confirmation, provided the confirmation of B does not by
\* itself end its trust in A.
TrustedIdentityKept ==
  enrolled => \E c \in {active, rollback} \ {None} : issued[c] = "active"

\* "atomically renames the active directory": at every start of an enrolled
\* agent the active identity is there.
ActiveIdentityAtStart == enrolled /\ pc = "down" => active # None
=============================================================================
