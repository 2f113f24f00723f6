-------------------------- MODULE PersonnelTaskBase --------------------------
(***************************************************************************)
(* Vocabulary shared by the models of the personnel-task sender            *)
(* (src/server/operation_personnel_task_service.mjs): statuses, the        *)
(* checkpoint that marks the irreversible boundary, the rules that rebuild *)
(* a status after a restart and the rule that decides which record of the  *)
(* operation console proves an attempt.  Constant-level operators only.    *)
(***************************************************************************)
EXTENDS Integers, Sequences, FiniteSets

CONSTANTS
    Contents,  \* the task-sheet contents the operators can enter (fingerprints)
    None,      \* "" : no content has been sent yet
    External   \* "external:<hash>" : a send recognised in the console, content unknown

ASSUME ContentsAssumption ==
    /\ None \notin Contents
    /\ External \notin Contents
    /\ None # External

Fingerprints == Contents \cup {None, External}

Kinds == {"initial", "resend"}
ActiveStatuses == {"queued", "running"}
RecoveryStatuses == {"result_unknown", "failed_resumable"}
AttemptStatuses == ActiveStatuses \cup RecoveryStatuses \cup {"none", "sent"}
TaskStatuses ==
    {"ready", "changes_pending", "applying_config", "sent"} \cup RecoveryStatuses

(* Progress of the one checkpoint that cannot be undone, submit_send, and    *)
(* the evidence saved with it: how many console records were visible before  *)
(* the click (beforeSendRecords) and the instant of the click (startedAt),   *)
(* as a position in the console's ledger.                                    *)
SubmitStates == {"none", "running", "completed"}
Checkpoints == [submit : SubmitStates, before : Nat, started : Nat]
NoCheckpoints == [submit |-> "none", before |-> 0, started |-> 0]

irreversibleBoundaryReached(ckpt) == ckpt.submit # "none"

(* Mutation of FailureStatus: the boundary forgotten.                        *)
FailureStatusForgetful(ckpt) == "failed_resumable"

(* Status an attempt gets when it failed, or when its runner disappeared.    *)
FailureStatus(ckpt) ==
    IF irreversibleBoundaryReached(ckpt) THEN "result_unknown" ELSE "failed_resumable"

(* recoverOrphanedAttempt: an active attempt nobody in this process runs.    *)
recoveredAttemptStatus(attemptStatus, alive, ckpt) ==
    IF attemptStatus \in ActiveStatuses /\ ~alive
    THEN FailureStatus(ckpt) ELSE attemptStatus

(* Mutation of normalizedStatus: recovery updates the attempt only.          *)
normalizedStatusStored(status, attemptStatus) == status

(* normalizedState: a recovery status of the attempt overrides the stored    *)
(* status of the task.                                                       *)
normalizedStatus(status, attemptStatus) ==
    IF attemptStatus \in RecoveryStatuses THEN attemptStatus ELSE status

(* buildOperationPersonnelTaskStatus, for a task whose batch is valid.       *)
buildStatus(status, lastSuccessful, draft) ==
    CASE status \in RecoveryStatuses      -> status
      [] OTHER -> IF lastSuccessful = draft THEN "sent"
                  ELSE IF lastSuccessful # None THEN "changes_pending"
                  ELSE IF status \in {"changes_pending", "sent"} THEN status
                  ELSE "ready"

(* Mutations: the evidence saved before the click is ignored; the record     *)
(* after those seen before is taken without looking for it.                  *)
CandidatesOfAnyTime(ledger, visible, kind, before, started) ==
    { i \in 1..visible : ledger[i].type = kind }
AttemptSendRecordAssumed(ledger, visible, kind, before, started) == before + 1

(* findOperationTaskAttemptSendRecord: among the visible records, those of   *)
(* the expected type that were not there before and are not older than the   *)
(* click; only a unique candidate is evidence, otherwise 0.                  *)
Candidates(ledger, visible, kind, before, started) ==
    { i \in 1..visible : i > before /\ i > started /\ ledger[i].type = kind }

AttemptSendRecord(ledger, visible, kind, before, started) ==
    LET found == Candidates(ledger, visible, kind, before, started)
    IN  IF \E i \in found : found = {i} THEN CHOOSE i \in found : TRUE ELSE 0
=============================================================================
