------------------------ MODULE PersonnelTaskService ------------------------
(***************************************************************************)
(* The personnel-task sender as it is deployed: the server's service       *)
(* (operation_personnel_task_service.mjs) behind its HTTP handlers, the    *)
(* browser pages of several callers, the local helper on each caller's     *)
(* computer that drives the operation console, and the console itself.     *)
(*                                                                         *)
(* A section that runs under the task lock is one action: every writer of  *)
(* operationPersonnelTask takes that lock and a second taker is refused    *)
(* (GiveUp, Collide).  What a handler reads before the lock and uses after *)
(* it is kept in job[c], so handlers interleave between those sections.    *)
(***************************************************************************)
EXTENDS PersonnelTaskBase

CONSTANTS
    Callers,         \* operators' browser pages, each with its own helper
    MaxSends,        \* bound: accepted sends
    MaxPreviews,     \* bound: preview tokens issued
    MaxVersion,      \* bound: draft versions (effective edits)
    MaxWorld,        \* bound: requirement-version and schedule changes
    MaxForeign,      \* bound: sends made by hand in the console
    MaxRestarts      \* bound: server restarts

ASSUME BoundsAssumption ==
    /\ MaxSends \in Nat /\ MaxPreviews \in Nat /\ MaxVersion \in Nat
    /\ MaxWorld \in Nat /\ MaxForeign \in Nat /\ MaxRestarts \in Nat

VARIABLES
    \* the persisted key operationPersonnelTask of the task's config
    status, draft, confirmed, version, preview, attempt, ckpt,
    lastSuccessful, history, snapshotRecords,
    \* the server's memory
    activeAttemptIds, previewBrowser, issued,
    \* requirement centre and managed schedules, written by other components
    requirement, pendingChange, schedule,
    \* callers' pages and the handlers that serve them
    pc, job,
    \* attempts executed by the callers' helpers, by request id
    exec,
    \* the console: all sends made, and how many its pages already show
    ledger, visible,
    restarts

persisted == <<status, draft, confirmed, version, preview, attempt, ckpt,
               lastSuccessful, history, snapshotRecords>>
memory == <<activeAttemptIds, previewBrowser, issued>>
world == <<requirement, pendingChange, schedule>>
console == <<ledger, visible>>
vars == <<persisted, memory, world, pc, job, exec, console, restarts>>

SendIds == 0..MaxSends
Tokens == 0..MaxPreviews

NoPreview == [token |-> 0, kind |-> "initial", version |-> 0, fp |-> None,
              base |-> None, requirement |-> 0, schedule |-> 0]
PreviewRecords == [token : Tokens, kind : Kinds, version : Nat, fp : Fingerprints,
                   base : Fingerprints, requirement : Nat, schedule : Nat]

NoAttempt == [id |-> 0, completion |-> 0, kind |-> "initial", fp |-> None,
              version |-> 0, requirement |-> 0, status |-> "none", expired |-> FALSE]
AttemptRecords == [id : SendIds, completion : SendIds, kind : Kinds, fp : Fingerprints,
                   version : Nat, requirement : Nat, status : AttemptStatuses,
                   expired : BOOLEAN]

HistoryRecords == [attempt : SendIds, fp : Fingerprints, record : Nat]
LedgerRecords == [type : Kinds, by : SendIds]

PageStates == {"idle", "inspecting", "inspected", "previewing", "previewed", "sending",
               "merging", "finishing", "expiring", "rechecking", "rechecked", "reconciling"}
Outcomes == {"none", "sent", "unknown", "failed", "error"}

NoJob == [draft |-> None, base |-> None, seen |-> 0, records |-> 0,
          requirement |-> 0, schedule |-> 0, token |-> 0, version |-> 0, id |-> 0,
          completion |-> 0, kind |-> "initial", ckpt |-> NoCheckpoints,
          outcome |-> "none", record |-> 0]
Jobs == [draft : Fingerprints, base : Fingerprints, seen : Nat, records : Nat,
         requirement : Nat, schedule : Nat, token : Tokens, version : Nat, id : SendIds,
         completion : SendIds, kind : Kinds, ckpt : Checkpoints,
         outcome : Outcomes, record : Nat]

ExecStages == {"none", "config", "ready", "submitting", "clicked",
               "sent", "unknown", "failed"}
NoExec == [stage |-> "none", kind |-> "initial", ckpt |-> NoCheckpoints,
           record |-> 0, seen |-> 0]
Execs == [stage : ExecStages, kind : Kinds, ckpt : Checkpoints, record : Nat, seen : Nat]

-----------------------------------------------------------------------------
(* What every handler sees after normalizedState and recoverOrphanedAttempt. *)
AttemptStatus ==
    recoveredAttemptStatus(attempt.status, attempt.id \in activeAttemptIds, ckpt)
RecoveredAttempt == [attempt EXCEPT !.status = AttemptStatus]
TaskStatus == normalizedStatus(status, AttemptStatus)
HasSent == status = "sent" \/ lastSuccessful # None \/ history # <<>>

Init ==
    /\ status = "ready" /\ draft \in Contents /\ confirmed = draft /\ version = 1
    /\ preview = NoPreview /\ attempt = NoAttempt /\ ckpt = NoCheckpoints
    /\ lastSuccessful = None /\ history = <<>> /\ snapshotRecords = 0
    /\ activeAttemptIds = {} /\ previewBrowser = 0
    /\ issued = [previews |-> 0, sends |-> 0]
    /\ requirement = 0 /\ pendingChange = FALSE /\ schedule = 0
    /\ pc = [c \in Callers |-> "idle"] /\ job = [c \in Callers |-> NoJob]
    /\ exec = [c \in Callers |-> [i \in 1..MaxSends |-> NoExec]]
    /\ ledger = <<>> /\ visible = 0 /\ restarts = 0

Goto(c, place, locals) ==
    /\ pc' = [pc EXCEPT ![c] = place]
    /\ job' = [job EXCEPT ![c] = locals]
Leave(c) == Goto(c, "idle", NoJob)

-----------------------------------------------------------------------------
(* edit: refused while an attempt runs or its result is unknown.  A real     *)
(* change bumps the version, drops the preview and closes its browser.       *)
Edit(content) ==
    /\ AttemptStatus \notin ActiveStatuses
    /\ TaskStatus # "result_unknown"
    /\ content # confirmed => version < MaxVersion
    /\ version' = IF content # confirmed THEN version + 1 ELSE version
    /\ preview' = IF content # confirmed THEN NoPreview ELSE preview
    /\ previewBrowser' = IF content # confirmed THEN 0 ELSE previewBrowser
    /\ draft' = content
    /\ confirmed' = content
    /\ attempt' = RecoveredAttempt
    /\ status' = buildStatus(TaskStatus, lastSuccessful, content)
    /\ UNCHANGED <<ckpt, lastSuccessful, history, snapshotRecords, activeAttemptIds,
                   issued, world, pc, job, exec, console, restarts>>

(* First preview request: reads the task, remembers the fingerprints shown   *)
(* to the operator and hands an inspection instruction to the caller.        *)
PreparePreview(c) ==
    /\ pc[c] = "idle"
    /\ Goto(c, "inspecting", [NoJob EXCEPT !.draft = confirmed, !.base = lastSuccessful])
    /\ UNCHANGED <<persisted, memory, world, exec, console, restarts>>

(* The caller's helper reads the console.                                    *)
HelperInspect(c) ==
    /\ pc[c] = "inspecting"
    /\ Goto(c, "inspected", [job[c] EXCEPT !.seen = visible])
    /\ UNCHANGED <<persisted, memory, world, exec, console, restarts>>

(* Second preview request, up to the task lock: the browser retained for the *)
(* task is discarded first, then the task is read and checked.               *)
PreviewAllowed(c) ==
    /\ TaskStatus # "result_unknown"
    /\ ~pendingChange
    /\ HasSent => job[c].draft = confirmed /\ job[c].base = lastSuccessful

PreviewBegin(c) ==
    /\ pc[c] = "inspected"
    /\ previewBrowser' = 0
    /\ IF PreviewAllowed(c)
       THEN Goto(c, "previewing",
                 [job[c] EXCEPT !.draft = confirmed, !.base = lastSuccessful,
                                !.kind = IF HasSent THEN "resend" ELSE "initial",
                                !.requirement = requirement, !.schedule = schedule,
                                !.records = snapshotRecords])
       ELSE Leave(c)
    /\ UNCHANGED <<persisted, activeAttemptIds, issued, world, exec, console, restarts>>

ExternalBaseline(j) == j.base = None /\ j.seen > 0
InitialRecords(j) == { i \in 1..j.seen : ledger[i].type = "initial" }

(* The console already holds a send this task does not know of: a unique     *)
(* first send is adopted as the task's own history, whatever attempt is      *)
(* active, and nothing is sent.                                              *)
RecognizeInitialSend(c) ==
    /\ pc[c] = "previewing" /\ previewBrowser = 0
    /\ ExternalBaseline(job[c])
    /\ lastSuccessful = None
    /\ \E i \in InitialRecords(job[c]) :
        /\ InitialRecords(job[c]) = {i}
        /\ history' = Append(history, [attempt |-> 0, fp |-> External, record |-> i])
    /\ status' \in {"sent", "changes_pending"}
    /\ draft' = job[c].draft
    /\ lastSuccessful' = External
    /\ snapshotRecords' = job[c].seen
    /\ preview' = NoPreview
    /\ attempt' = NoAttempt
    /\ Leave(c)
    /\ UNCHANGED <<confirmed, version, ckpt, memory, world, exec, console, restarts>>

(* Second preview request, under the lock: what was read before is compared  *)
(* with what the task and the requirement centre hold now.                   *)
PreviewCommit(c) ==
    LET j == job[c]
        token == issued.previews + 1
    IN  /\ pc[c] = "previewing" /\ previewBrowser = 0 /\ token <= MaxPreviews
        /\ ~ExternalBaseline(j)
        /\ j.kind = "resend" => j.seen = j.records
        /\ schedule = j.schedule /\ requirement = j.requirement /\ ~pendingChange
        /\ draft' = j.draft
        /\ attempt' = RecoveredAttempt
        /\ status' = buildStatus(status, lastSuccessful, j.draft)
        /\ preview' = [token |-> token, kind |-> j.kind, version |-> version,
                       fp |-> j.draft, base |-> j.base,
                       requirement |-> requirement, schedule |-> schedule]
        /\ previewBrowser' = token
        /\ issued' = [issued EXCEPT !.previews = token]
        /\ Goto(c, "previewed", [NoJob EXCEPT !.token = token, !.version = version])
        /\ UNCHANGED <<confirmed, version, ckpt, lastSuccessful, history, snapshotRecords,
                       activeAttemptIds, world, exec, console, restarts>>

(* The preview's ten minutes are over: its browser is disposed, and without  *)
(* it the stored preview can no longer be claimed.                           *)
PreviewExpires ==
    /\ previewBrowser # 0
    /\ previewBrowser' = 0
    /\ UNCHANGED <<persisted, activeAttemptIds, issued, world, pc, job, exec, console, restarts>>

-----------------------------------------------------------------------------
(* Mutations: send ignores an unknown result; it ignores the last content.   *)
SendIdleUnlessActive == ~pendingChange /\ AttemptStatus \notin ActiveStatuses
ContentUnchecked == TRUE

(* send: the checks in the code's order.                                     *)
SendIdle ==
    /\ ~pendingChange
    /\ AttemptStatus \notin ActiveStatuses
    /\ TaskStatus # "result_unknown"
PreviewFresh(j) ==
    /\ preview.token = j.token
    /\ preview.requirement = requirement
    /\ preview.version = j.version /\ version = j.version
    /\ preview.fp = draft
    /\ preview.base = lastSuccessful
ScheduleUnchanged == preview.schedule = schedule
ContentChanged == lastSuccessful # draft
SendAllowed(j) ==
    /\ SendIdle /\ PreviewFresh(j) /\ ScheduleUnchanged /\ ContentChanged
    /\ previewBrowser = j.token

(* attemptMatchesPreview: the failed attempt was for this very preview.      *)
AttemptMatchesPreview ==
    /\ AttemptStatus = "failed_resumable"
    /\ attempt.kind = preview.kind /\ attempt.fp = draft
    /\ attempt.version = version /\ attempt.requirement = preview.requirement

Send(c) ==
    LET n == issued.sends + 1
    IN  /\ pc[c] = "previewed" /\ SendAllowed(job[c]) /\ n <= MaxSends
        /\ \E resume \in {FALSE, AttemptMatchesPreview} :
            LET id == IF resume THEN attempt.id ELSE n
            IN  /\ attempt' = [id |-> id, completion |-> n, kind |-> preview.kind,
                               fp |-> draft, version |-> version,
                               requirement |-> preview.requirement,
                               status |-> "queued", expired |-> FALSE]
                /\ ckpt' = IF resume THEN ckpt ELSE NoCheckpoints
                /\ activeAttemptIds' = activeAttemptIds \cup {id}
                /\ Goto(c, "sending", [NoJob EXCEPT !.id = id, !.completion = n,
                                                    !.kind = preview.kind])
        /\ status' = "ready"
        /\ preview' = NoPreview
        /\ confirmed' = draft
        /\ previewBrowser' = 0
        /\ issued' = [issued EXCEPT !.sends = n]
        /\ UNCHANGED <<draft, version, lastSuccessful, history, snapshotRecords, world,
                       exec, console, restarts>>

(* A refused send closes the browser of the token it named; a changed        *)
(* schedule also drops the stored preview.                                   *)
SendRejected(c) ==
    LET j == job[c]
        drop == SendIdle /\ PreviewFresh(j) /\ ~ScheduleUnchanged
    IN  /\ pc[c] = "previewed" /\ ~SendAllowed(j)
        /\ previewBrowser' = IF previewBrowser = j.token THEN 0 ELSE previewBrowser
        /\ preview' = IF drop THEN NoPreview ELSE preview
        /\ attempt' = IF drop THEN RecoveredAttempt ELSE attempt
        /\ status' = IF drop THEN TaskStatus ELSE status
        /\ Leave(c)
        /\ UNCHANGED <<draft, confirmed, version, ckpt, lastSuccessful, history,
                       snapshotRecords, activeAttemptIds, issued, world, exec, console,
                       restarts>>

-----------------------------------------------------------------------------
(* The helper's side of a send (executeOperationPersonnelAttempt and the     *)
(* runner it calls).  Requests are deduplicated by id, so a helper starts an *)
(* id once; its checkpoints stay in the helper's memory until it answers.    *)
(* A preview session that is gone makes it fail at once.                     *)
SetExec(c, i, e) == exec' = [exec EXCEPT ![c][i] = e]

HelperBegin(c) ==
    LET i == job[c].id
    IN  /\ pc[c] = "sending" /\ exec[c][i].stage = "none"
        /\ \E stage \in {"config", "failed"} :
              SetExec(c, i, [NoExec EXCEPT !.stage = stage, !.kind = job[c].kind])
        /\ UNCHANGED <<persisted, memory, world, pc, job, console, restarts>>

(* Configuration written and read back; then the send records are read, and  *)
(* a first send stops if the console shows any.                              *)
HelperReadRecords(c, i) ==
    LET e == exec[c][i]
        refused == e.kind = "initial" /\ visible > 0
    IN  /\ e.stage = "config"
        /\ SetExec(c, i, [e EXCEPT !.stage = IF refused THEN "failed" ELSE "ready",
                                   !.ckpt.before = visible])
        /\ UNCHANGED <<persisted, memory, world, pc, job, console, restarts>>

(* submit_send is reported "running" with the evidence before the click.     *)
HelperSubmit(c, i) ==
    LET e == exec[c][i]
    IN  /\ e.stage = "ready"
        /\ SetExec(c, i, [e EXCEPT !.stage = "submitting", !.ckpt.submit = "running",
                                   !.ckpt.started = Len(ledger)])
        /\ UNCHANGED <<persisted, memory, world, pc, job, console, restarts>>

(* confirmSend: the click the console turns into a record.                   *)
HelperClick(c, i) ==
    LET e == exec[c][i]
    IN  /\ e.stage = "submitting"
        /\ ledger' = Append(ledger, [type |-> e.kind, by |-> i])
        /\ SetExec(c, i, [e EXCEPT !.stage = "clicked"])
        /\ UNCHANGED <<persisted, memory, world, pc, job, visible, restarts>>

(* verify_send_record: a unique new record within two waits of 30 seconds,   *)
(* or an unknown result.                                                     *)
HelperVerify(c, i) ==
    LET e == exec[c][i]
        match == AttemptSendRecord(ledger, visible, e.kind, e.ckpt.before, e.ckpt.started)
    IN  /\ e.stage = "clicked"
        /\ SetExec(c, i, [e EXCEPT !.stage = IF match # 0 THEN "sent" ELSE "unknown",
                                   !.ckpt.submit = "completed",
                                   !.record = match, !.seen = visible])
        /\ UNCHANGED <<persisted, memory, world, pc, job, console, restarts>>

(* Any step of the runner may fail: page gone, conflict, readback mismatch.  *)
HelperFail(c, i) ==
    /\ exec[c][i].stage \in {"config", "ready", "submitting", "clicked"}
    /\ SetExec(c, i, [exec[c][i] EXCEPT !.stage = "failed"])
    /\ UNCHANGED <<persisted, memory, world, pc, job, console, restarts>>

-----------------------------------------------------------------------------
(* completeLocalAttempt, up to its first locked section.  The page posts the *)
(* helper's envelope, or helperError without checkpoints when the helper did *)
(* not answer (its five-minute timeout, a lost connection) - the helper may  *)
(* well still be running.                                                    *)
Envelope(c) ==
    LET e == exec[c][job[c].id]
    IN  IF e.stage \in {"sent", "unknown", "failed"}
        THEN [job[c] EXCEPT !.outcome = e.stage, !.ckpt = e.ckpt,
                            !.record = e.record, !.seen = e.seen]
        ELSE [job[c] EXCEPT !.outcome = "error"]

Report(c) ==
    LET j == job[c]
        lost == [j EXCEPT !.outcome = "error"]
        matches == attempt.id = j.id /\ attempt.completion = j.completion
    IN  /\ pc[c] = "sending"
        /\ IF ~matches \/ attempt.status \notin ActiveStatuses
           THEN Leave(c)
           ELSE IF attempt.expired
           THEN Goto(c, "expiring", lost)
           ELSE \E posted \in {Envelope(c), lost} : Goto(c, "merging", posted)
        /\ UNCHANGED <<persisted, memory, world, exec, console, restarts>>

(* The helper's checkpoints overwrite the stored ones of the same name.      *)
MergedCheckpoints(j) == IF j.ckpt.submit = "none" THEN ckpt ELSE j.ckpt

(* updateAttemptState writes nothing when another attempt took its place.    *)
ReportMerge(c) ==
    LET mine == attempt.id = job[c].id
    IN  /\ pc[c] = "merging"
        /\ status' = IF mine THEN "applying_config" ELSE status
        /\ attempt' = IF mine THEN [attempt EXCEPT !.status = "running"] ELSE attempt
        /\ ckpt' = IF mine THEN MergedCheckpoints(job[c]) ELSE ckpt
        /\ Goto(c, "finishing", job[c])
        /\ UNCHANGED <<draft, confirmed, version, preview, lastSuccessful, history,
                       snapshotRecords, memory, world, exec, console, restarts>>

InHistory(id) == \E k \in DOMAIN history : history[k].attempt = id
(* Mutation: the entry is appended on every report.                          *)
WithHistoryAgain(record) ==
    Append(history, [attempt |-> attempt.id, fp |-> attempt.fp, record |-> record])

WithHistory(record) ==
    IF InHistory(attempt.id) THEN history
    ELSE Append(history, [attempt |-> attempt.id, fp |-> attempt.fp, record |-> record])

Conclude(s) ==
    /\ status' = s
    /\ attempt' = [attempt EXCEPT !.status = s]

MarkSent(record, seen) ==
    /\ Conclude("sent")
    /\ lastSuccessful' = attempt.fp
    /\ history' = WithHistory(record)
    /\ snapshotRecords' = seen

(* finishAttempt for an answer, failAttempt for a failure.                   *)
ReportFinish(c) ==
    LET j == job[c]
    IN  /\ pc[c] = "finishing"
        /\ \/ /\ attempt.id = j.id /\ j.outcome = "sent"
              /\ MarkSent(j.record, j.seen)
           \/ /\ attempt.id = j.id /\ j.outcome = "unknown"
              /\ Conclude("result_unknown")
              /\ UNCHANGED <<lastSuccessful, history, snapshotRecords>>
           \/ /\ attempt.id = j.id /\ j.outcome \in {"failed", "error"}
              /\ Conclude(FailureStatus(ckpt))
              /\ UNCHANGED <<lastSuccessful, history, snapshotRecords>>
           \/ /\ attempt.id # j.id
              /\ UNCHANGED <<status, attempt, lastSuccessful, history, snapshotRecords>>
        /\ activeAttemptIds' = activeAttemptIds \ {j.id}
        /\ Leave(c)
        /\ UNCHANGED <<draft, confirmed, version, preview, ckpt, previewBrowser, issued,
                       world, exec, console, restarts>>

(* failAttempt of an execution that outlived its ten minutes.  The attempt   *)
(* is forgotten in the very turn that takes the lock, so nobody sees it      *)
(* orphaned before it is failed.                                             *)
ReportExpired(c) ==
    /\ pc[c] = "expiring"
    /\ IF attempt.id = job[c].id THEN Conclude(FailureStatus(ckpt))
       ELSE UNCHANGED <<status, attempt>>
    /\ activeAttemptIds' = activeAttemptIds \ {job[c].id}
    /\ Leave(c)
    /\ UNCHANGED <<draft, confirmed, version, preview, ckpt, lastSuccessful, history,
                   snapshotRecords, previewBrowser, issued, world, exec, console, restarts>>

(* The task lock was taken: the handler answers 409, and its finally block   *)
(* still forgets the attempt.                                                *)
Collide(c) ==
    /\ pc[c] \in {"merging", "finishing", "expiring"}
    /\ activeAttemptIds' = activeAttemptIds \ {job[c].id}
    /\ Leave(c)
    /\ UNCHANGED <<persisted, previewBrowser, issued, world, exec, console, restarts>>

-----------------------------------------------------------------------------
(* recheck, first request: the instruction carries the evidence of the       *)
(* attempt that is unknown now; the preparation keeps no attempt id.         *)
PrepareRecheck(c) ==
    /\ pc[c] = "idle" /\ TaskStatus = "result_unknown" /\ attempt.id # 0
    /\ Goto(c, "rechecking", [NoJob EXCEPT !.kind = attempt.kind, !.ckpt = ckpt])
    /\ UNCHANGED <<persisted, memory, world, exec, console, restarts>>

HelperRecheck(c) ==
    LET j == job[c]
    IN  /\ pc[c] = "rechecking"
        /\ Goto(c, "rechecked",
                [j EXCEPT !.seen = visible,
                          !.record = AttemptSendRecord(ledger, visible, j.kind,
                                                       j.ckpt.before, j.ckpt.started)])
        /\ UNCHANGED <<persisted, memory, world, exec, console, restarts>>

(* recheck, second request: read of the task, then the locked section, which *)
(* also restores the confirmed content from the attempt it resolves.         *)
RecheckRead(c) ==
    /\ pc[c] = "rechecked"
    /\ IF TaskStatus = "result_unknown" /\ attempt.id # 0
       THEN Goto(c, "reconciling", [job[c] EXCEPT !.id = attempt.id])
       ELSE Leave(c)
    /\ UNCHANGED <<persisted, memory, world, exec, console, restarts>>

RecheckCommit(c) ==
    LET j == job[c]
    IN  /\ pc[c] = "reconciling"
        /\ \/ /\ attempt.id = j.id /\ j.record # 0
              /\ MarkSent(j.record, j.seen)
              /\ confirmed' = attempt.fp
           \/ /\ attempt.id = j.id /\ j.record = 0
              /\ Conclude("result_unknown")
              /\ UNCHANGED <<confirmed, lastSuccessful, history, snapshotRecords>>
           \/ /\ attempt.id # j.id
              /\ UNCHANGED <<status, attempt, confirmed, lastSuccessful, history,
                             snapshotRecords>>
        /\ Leave(c)
        /\ UNCHANGED <<draft, version, preview, ckpt, memory, world, exec, console, restarts>>

(* The page is closed, the preparation expired, or a handler was refused by  *)
(* a check against the console or by a lock: nothing is written.             *)
GiveUp(c) ==
    /\ pc[c] \notin {"idle", "merging", "finishing", "expiring"}
    /\ Leave(c)
    /\ UNCHANGED <<persisted, memory, world, exec, console, restarts>>

-----------------------------------------------------------------------------
(* Time, the console, the other components and the server process.           *)
LocalExecutionExpires ==
    /\ attempt.status \in ActiveStatuses /\ ~attempt.expired
    /\ attempt' = [attempt EXCEPT !.expired = TRUE]
    /\ UNCHANGED <<status, draft, confirmed, version, preview, ckpt, lastSuccessful,
                   history, snapshotRecords, memory, world, pc, job, exec, console, restarts>>

RecordAppears ==
    /\ visible < Len(ledger)
    /\ visible' = visible + 1
    /\ UNCHANGED <<persisted, memory, world, pc, job, exec, ledger, restarts>>

ForeignSends == { k \in DOMAIN ledger : ledger[k].by = 0 }
ForeignSend ==
    /\ Cardinality(ForeignSends) < MaxForeign
    /\ ledger' = Append(ledger, [type |-> IF ledger = <<>> THEN "initial" ELSE "resend",
                                 by |-> 0])
    /\ UNCHANGED <<persisted, memory, world, pc, job, exec, visible, restarts>>

RequirementChanges ==
    /\ requirement + schedule < MaxWorld
    /\ \/ /\ ~pendingChange
          /\ pendingChange' = TRUE
          /\ UNCHANGED <<requirement, schedule>>
       \/ /\ pendingChange
          /\ pendingChange' = FALSE
          /\ requirement' = requirement + 1
          /\ UNCHANGED schedule
       \/ /\ schedule' = schedule + 1
          /\ UNCHANGED <<requirement, pendingChange>>
    /\ UNCHANGED <<persisted, memory, pc, job, exec, console, restarts>>

ServerHandlers == {"inspecting", "inspected", "previewing", "merging", "finishing",
                   "expiring", "rechecking", "rechecked", "reconciling"}
ServerRestart ==
    /\ restarts < MaxRestarts
    /\ restarts' = restarts + 1
    /\ activeAttemptIds' = {}
    /\ previewBrowser' = 0
    /\ pc' = [c \in Callers |-> IF pc[c] \in ServerHandlers THEN "idle" ELSE pc[c]]
    /\ job' = [c \in Callers |-> IF pc[c] \in ServerHandlers THEN NoJob ELSE job[c]]
    /\ UNCHANGED <<persisted, issued, world, exec, console>>

Serve(c) ==
    \/ PreparePreview(c) \/ HelperInspect(c) \/ PreviewBegin(c)
    \/ RecognizeInitialSend(c) \/ PreviewCommit(c)
    \/ Send(c) \/ SendRejected(c)
    \/ HelperBegin(c)
    \/ Report(c) \/ ReportMerge(c) \/ ReportFinish(c) \/ ReportExpired(c) \/ Collide(c)
    \/ PrepareRecheck(c) \/ HelperRecheck(c) \/ RecheckRead(c) \/ RecheckCommit(c)
    \/ GiveUp(c)

Run(c, i) ==
    \/ HelperReadRecords(c, i) \/ HelperSubmit(c, i) \/ HelperClick(c, i)
    \/ HelperVerify(c, i) \/ HelperFail(c, i)

Environment ==
    \/ PreviewExpires \/ LocalExecutionExpires \/ RecordAppears \/ ForeignSend
    \/ RequirementChanges \/ ServerRestart

Next ==
    \/ \E content \in Contents : Edit(content)
    \/ \E c \in Callers : Serve(c)
    \/ \E c \in Callers, i \in 1..MaxSends : Run(c, i)
    \/ Environment

Spec == Init /\ [][Next]_vars

-----------------------------------------------------------------------------
(* The parts of the type invariant, one per owner of the state.              *)
PersistedOK ==
    /\ status \in TaskStatuses /\ draft \in Contents /\ confirmed \in Contents
    /\ version \in Nat /\ preview \in PreviewRecords /\ attempt \in AttemptRecords
    /\ ckpt \in Checkpoints /\ lastSuccessful \in Fingerprints
    /\ history \in Seq(HistoryRecords) /\ snapshotRecords \in Nat
MemoryOK ==
    /\ activeAttemptIds \subseteq SendIds /\ previewBrowser \in Tokens
    /\ issued \in [previews : Tokens, sends : SendIds]
WorldOK == requirement \in Nat /\ pendingChange \in BOOLEAN /\ schedule \in Nat
PagesOK == pc \in [Callers -> PageStates] /\ job \in [Callers -> Jobs]
ExecOK == exec \in [Callers -> [1..MaxSends -> Execs]]
ConsoleOK ==
    /\ ledger \in Seq(LedgerRecords) /\ visible \in 0..Len(ledger) /\ restarts \in Nat

(* Type invariant: every persisted key, handler local and helper record      *)
(* stays within the values operation_personnel_task_service.mjs gives it.    *)
TypeOK ==
    /\ PersistedOK /\ MemoryOK /\ WorldOK /\ PagesOK /\ ExecOK /\ ConsoleOK

(* What the server knows to have crossed the irreversible boundary is never  *)
(* offered for resumption: not by a late report, an expiry, a collision of   *)
(* two handlers or a restart in the middle of one (failAttempt,              *)
(* recoverOrphanedAttempt).                                                  *)
BoundaryNeverResumable ==
    irreversibleBoundaryReached(ckpt) => AttemptStatus # "failed_resumable"

(* An attempt enters the send history once, however often its result is      *)
(* reported, expired, recovered, resumed and rechecked (finishAttempt and    *)
(* recheck both append).                                                     *)
HistoryOncePerAttempt ==
    \A k, l \in DOMAIN history :
        history[k].attempt = history[l].attempt /\ history[k].attempt # 0 => k = l

(* The same content is never recorded as sent twice in a row, although the   *)
(* check against the last content is made in send and the record is written  *)
(* by a later report or recheck.                                             *)
NoRepeatedContent ==
    \A k \in 1..(Len(history) - 1) : history[k].fp # history[k + 1].fp

(* Every entry of the send history rests on a record the console shows, and  *)
(* an adopted one on a first send.                                           *)
HistoryBacked ==
    \A k \in DOMAIN history :
        /\ history[k].record \in 1..visible
        /\ history[k].attempt = 0 => ledger[history[k].record].type = "initial"

(* With one page at work, later entries rest on later console records: no    *)
(* record, foreign ones included, is taken as evidence for two sends.        *)
HistoryInConsoleOrder ==
    \A k, l \in DOMAIN history : k < l => history[k].record < history[l].record

(* An unknown result is only ever resolved by evidence: no new attempt, no   *)
(* resend, no edit and no expiry takes its place (edit, preview and send all *)
(* refuse it, recheck resolves it, a recognised first send supersedes it).   *)
UnknownOnlyResolved ==
    [][AttemptStatus = "result_unknown" =>
          \/ attempt'.id = attempt.id /\ AttemptStatus' \in {"result_unknown", "sent"}
          \/ attempt'.id = 0 /\ lastSuccessful' = External]_vars

(* What the sender promises, whatever its pages, helpers and restarts do.    *)
AttemptPhase ==
    CASE AttemptStatus \in ActiveStatuses     -> "active"
      [] AttemptStatus = "failed_resumable"   -> "resumable"
      [] AttemptStatus = "result_unknown"     -> "unknown"
      [] AttemptStatus = "sent"               -> "sent"
      [] OTHER                                -> "idle"
SendLedger == INSTANCE PersonnelSendLedger WITH
    phase <- AttemptPhase,
    content <- attempt.fp,
    recorded <- [k \in DOMAIN history |-> history[k].fp]

(* The service implements the send ledger of PersonnelSendLedger: contents   *)
(* are accepted one at a time, and recorded only after they were accepted.   *)
ImplementsSendLedger == SendLedger!Spec

-----------------------------------------------------------------------------
(* A statement the documents make and the deployed code does not keep.       *)

(* specs/2026-07-30-operation-personnel-canonical-draft.md:85 - once the     *)
(* send was clicked without a visible record the result is unknown, and the  *)
(* attempt is not offered for another click.                                 *)
ClickedNeverResumable ==
    AttemptStatus = "failed_resumable" =>
        \A k \in DOMAIN ledger : ledger[k].by # attempt.id
=============================================================================
