# Verification of easy-exam-automation

TLA+ models, TLC runs and TLAPS proofs for the program in `src/`: a server that
keeps exam projects, the browser pages of its operators, and a local helper on
each operator's computer that drives an external operation console with a
browser.  Every definition is translated from the source; `PROJECT.json` names
the lines each one stands for.

## 1. Inventory

How the parts interact.  A page asks the server for an *instruction*; the
server reads the task, remembers a *preparation* in memory and answers with a
payload for the local helper; the page gives the payload to the helper on its
own computer, which opens the console in a browser, works there and answers; the
page posts the answer back to the server, which checks the preparation, reads
the task again and writes its configuration.  Nothing holds a lock across these
steps, the server can restart between any two of them (its memory is lost, the
task database is not), and the page can be closed, so each of the parts below
lives with stale reads, late answers and abandoned work.

| component | state it keeps | operations | what is hard | what makes it correct |
|---|---|---|---|---|
| Personnel-task service (`operation_personnel_task_service.mjs`, `operation_personnel_task.mjs`) | `operationPersonnelTask` in the task's config: status, draft, preview, active attempt, checkpoints, last sent content, history; in memory: active attempts, retained preview browsers | edit, preview, send, completeLocalAttempt, recheck | reads before the lock, restarts, late and lost reports, resumption | a send is irreversible: never twice, never resumed after the click, history backed by evidence |
| Personnel runner, send-record evidence (`operation_personnel_task_runner.mjs`, `operation_task_send_record.mjs`) | checkpoints of one attempt | 13 checkpoints, submit_send, verify_send_record, recheck | failure at any step, records that appear late, sends made by hand | a record is evidence for the attempt it belongs to |
| Local helper (`fanwei_local_helper.mjs`) | requests by id, retained sessions, the shared Chrome | preview, attempt, recheck, batch, content, archive, update | duplicated requests, expiry, self-update while an operation runs | one execution per request id; no update under a running operation |
| Operation batch (`operation_batch*.mjs`, handlers of `easy_exam_server.mjs`) | `operationBatch` in the config: code, status, managed snapshot, active preview, update attempts; preparations in memory | create, reconcile, retry, record result, preview update, apply update | whole-object writes from stale reads, preparations lost by restart or expiry | one batch per project; a snapshot is only stored when read back |
| Task state database (`task_state_db.py`) | tasks, steps, artifacts, locks | update_config, update_step, aggregate | shallow merge of concurrent writers | no lost update; task status follows its steps |
| Requirement centre (`requirement_request_db.py`, `project_requirement_change.mjs`) | a request's status, versions, changes, confirmations, events; the project's copy in its task | upsert, change, confirm, staff edit, accept, reject, hand over, link | one process per request, reads before the transaction, two databases | no field is lost, what is handed over was confirmed, a change is applied once |
| Candidate changes (`candidate_change*.mjs`, handlers of `easy_exam_server.mjs`) | change sets and their items, the roster kept with the task; in memory: the change sets under way | preview, apply | one remote call per item, calls that fail after they were carried out, people who change the roster meanwhile | only what was shown is overwritten; what may be applied has touched nothing; an applied set is on the platform |
| Course and session changes (`course_*.mjs`, `session_*.mjs`, handlers of `easy_exam_server.mjs`) | `exam_sessions`, the courses in the configuration, the steps `course_create`, `paper_bind` and `session_change` with its log | create, change, synchronise, rename courses, import candidates, arrange rooms, show, delete | several remote calls per request and no lock, rows and logs written from what was read before the calls | no session is left behind unknown, the record shows the platform, the log keeps what was done, courses are made once and bound where it says so |
| Content packages, archive (`operation_content*.mjs`, `operation_archive*.mjs`) | config keys, send records | sync, dispatch, submit | as personnel task | dispatched once |
| Paper binding and its reminders (`paper_binding.mjs`, `paper_bind_*.mjs`, handlers of `easy_exam_server.mjs`) | `paperFormBinds`, `paperBindReminder` in the config | hourly pass, retry by an operator, reminder by mail | whole arrays written from stale reads, mail before its record, sessions created anew | what is stored as bound is bound; each reminder once; nobody is passed over in silence |
| Other schedulers (customer service, shared sheet) | last runs | ticks | overlap, restart | each reminder once |
| WeChat collector (`wechat_visible_collect.mjs`, `wechat_requirement_collector.mjs`) | a lock file, the checkpoint file, one WeChat window | lock, open a group, capture, push, checkpoint | crashes between push and checkpoint, a lock judged by its age, a window others switch | a line reaches the requirement of its group, once |
| Accounts, settings, mail, documents, exports, runner of the exam platform, Fanwei reading | sessions, settings; otherwise none | - | mostly sequential data transformation | formatting and parsing |

## 2. Plan

1. `PersonnelTaskService` - the deployed send path, with its abstract
   specification `PersonnelSendLedger`: the one irreversible action of the
   system.  *Done.*
2. `PersonnelTaskProofs` - type correctness, the irreversible boundary, the
   history, the refinement of the ledger.  *Done.*
3. `OperationBatchCreate` - creating the batch - and its part of `OperationProofs`.
   *Done.*
4. `OperationBatchUpdate` - previewing and applying updates - and
   `OperationBatchUpdateProofs`.  *Done.*
5. `RequirementRequest` (`requirement_request_db.py`) and `RequirementProofs`.
   *Done.*
6. `WechatCollector` and `WechatCollectorProofs` - the one source of
   requirements nobody types in.  *Done.*
7. `LocalHelper` and its part of `OperationProofs` - what all helper operations
   share: admission, memory by request id, the update of the program.  *Done.*
8. `CandidateChange` and `CandidateChangeProofs` - many remote calls with
   partial failure.  *Done.*
9. `PaperBinding` and `PaperBindingProofs` - the schedulers, the reminders and
   `update_config` with its read and its write apart.  *Done.*
10. `ExamProvision` and `ExamProvisionProofs` - sessions, courses, entries and
    rooms of an exam and their record, several remote calls per request.  *Done.*
11. Open: `OperationBatchReconcile` - schedules added to a
    batch whose code an operator typed, which composes with 3 and 4 through
    `operationBatch`; `OperationContent`, `OperationArchive` - dispatch of content
    packages and archiving; `TaskSteps` (steps, artifacts, aggregation of
    `task_state_db.py`) with the abstract specification that the status of a task
    follows its steps; `Accounts`, `Release`.
12. Every safety property that a passing run checks is stated by a theorem; what is
    still to be proved comes with the modules of item 11.

A module gets one run per question; TLC has to finish each in a few minutes, so
instances have one or two actors per kind and one unit of each bound that a
property needs.

## 3. Models and code

Each page's handler is a process: `pc[c]` says at which `await` page `c`'s
request stands and `job[c]` holds what its handler has read and not yet used.
What the code does between two awaits (or under the task lock) is one action.
Persisted configuration, server memory, the helper and the console are separate
variables, so a restart resets exactly what the process would lose.

### Personnel task

`PersonnelTaskBase` has what the service and the runner share: the statuses, the
checkpoints (`ckpt`), `recoverOrphanedAttempt`, `normalizedState`, the failure
status and the rule that picks an attempt's send record.

| state | code |
|---|---|
| `status ... snapshotRecords` | the fields of `config.operationPersonnelTask` |
| `activeAttemptIds`, `previewBrowser` | the service's maps of running attempts and retained previews |
| `requirement`, `pendingChange`, `schedule` | what the service asks of the requirement centre and of the managed schedules |
| `exec` | what a helper does for a request id, checkpoints included |
| `ledger`, `visible` | all sends of the console; the prefix its record list already shows |

| actions | code |
|---|---|
| `Edit` | `edit` |
| `PreparePreview`, `HelperInspect`, `PreviewBegin`, `PreviewCommit`, `RecognizeInitialSend`, `PreviewExpires` | the two preview requests, the inspection between them, the locked section, the adopted first send, the ten minutes |
| `Send`, `SendRejected` | `send` and its refusals (with what they close and drop) |
| `HelperBegin`, `HelperReadRecords`, `HelperSubmit`, `HelperClick`, `HelperVerify`, `HelperFail` | `executeOperationPersonnelAttempt` and the runner, around `submit_send` |
| `Report`, `ReportMerge`, `ReportFinish`, `ReportExpired`, `Collide` | `completeLocalAttempt`: merge of checkpoints, then `finishAttempt` or `failAttempt`, each under its own lock |
| `PrepareRecheck`, `HelperRecheck`, `RecheckRead`, `RecheckCommit` | `recheck` in two requests |
| `LocalExecutionExpires`, `RecordAppears`, `ForeignSend`, `RequirementChanges`, `ServerRestart`, `GiveUp` | time, the console, other components, the process, the pages |

`PersonnelSendLedger` is the promise made to operators: one content at a time is
accepted, it ends recorded, resumable or in doubt, doubt blocks everything until
there is evidence, no content is accepted twice in a row.  The service implements
it with `phase` computed from the recovered attempt status, `content` the
attempt's fingerprint and `recorded` the contents of the history.

Contents are fingerprints out of a set; the time filter of send records, which
has a granularity of seconds, is the position in `ledger`; expiry of a preview is
the loss of its browser, expiry of a preparation a page that gives up.  The
wording of change summaries, field conflicts and the contention for the shared
Chrome profile end a request without a write and are `GiveUp`.  The merge of a
report and the release of the lock are steps of their own only where another
handler can come between.

### Batch creation

| state | code |
|---|---|
| `code`, `ob` | `operationBatchCode` and `operationBatch` of the task's config |
| `preparations`, `issued` | `operationBatchLocalPreparations` |
| `inFlight` | `operationBatchCreationInFlight` |
| `exec` | the helper's run of a preparation |
| `batches` | the batches the console has, by the preparation that made them |

| actions | code |
|---|---|
| `CreateRead`, `CreateJoin`, `CreatePrepare`, `CreateRefuse`, `CreateCommit(Fails)` | `handleOperationBatchCreate` without a preparation id |
| `HelperStart`, `HelperSubmit`, `HelperRefuse`, `HelperAnswer`, `HelperLookupFails` | `operation_batch_runner.mjs` from its start to the lookup in the batch list |
| `CompleteRead`, `Timeout`, `CompleteAcquire`, `CompleteRefuse`, `CompleteMark(Fails)`, `CompleteRefetch`, `CompleteStore(Fails)`, `CompleteFail(Fails)` | the same handler with a preparation id and a result |
| `RetryRead`, `RetryUnlock`, `RetryRefuse`, `RetryWrite`; `RecordRead`, `RecordWrite`; `DraftRead`, `DraftWrite` | the retry, result and draft handlers |
| `LeavePage`, `PreparationExpires`, `ServerRestart` | pages, 15 minutes, the process |

`unblocked` is history: it becomes true where a page gives up on a working
helper, a result loses its code, an operator confirms too early or a stale draft
overwrites the status.  The properties say that these are the *only* ways to a
second batch.  `Hazards` selects what may go wrong; `PromptHandlers` assumes that
what takes a helper or a person seconds does not fall into the milliseconds
between two awaits of one handler (`Slow`).  The final write and the release of
the preparation are one step (`Finish`); `update_config` is taken to be atomic.

### Batch update

A batch is three managed parts - overview, personnel service, schedules (their
number) - each with a small value; `Diff` is `operationBatchManagedDiff` /
`differingManagedFields` with the rule that an unread service is not compared.

| state | code |
|---|---|
| `desired`, `version` | the snapshot computed from the requirements, and their version |
| `ob` | `operationBatch`: status, managed snapshot, active preview, update attempts |
| `previews`, `preparations` | the local service's maps of prepared inspections and updates |
| `run` | the helper's run of one attempt: what was asked, what it expects to find, which parts it saved, what it read back |
| `console` | the batch as the console has it |

| actions | code |
|---|---|
| `PreviewPrepare`, `Inspect`, `PreviewRead`, `PreviewRefuse`, `PreviewAligned`, `PreviewOffer` | `preparePreview`, the inspection, `completePreview` |
| `UpdateAsk`, `UpdateLocked`, `UpdateRead`, `UpdatePrepare`, `UpdateRefuse`, `UpdateCommit` | `prepareUpdate` with its in-memory lock, its read, its checks and its write |
| `HelperStart`, `HelperSave`, `HelperFails`, `HelperVerify`, `HelperReadback`, `HelperUnread` | `operation_batch_update_runner.mjs`: first look, saving part by part, verification, read-back after an error |
| `CompleteRead`, `CompleteRefuse`, `CompleteWrite`, `CompleteMissing`, `StoreFails` | `completeUpdate`, a failed write of any handler |
| `Edit`, `HandChange`, `LeavePage`, `PreparationExpires`, `ServerRestart` | people, pages, 15 minutes, the process |

Every write stores an object derived from what its handler read, so a slow
handler can undo what another one stored; `lost` collects the attempts that
happened to.  `shown`, `abandoned` and `run[i].disturbed` are history too.  An
attempt has the number of its preview, because a page asks for an update with a
token once.  Reading the batch's page is one step.  `operation_batch_update_service.mjs`,
the server-run predecessor, is not wired into the server and contributes
`differingManagedFields` only.

### Requirement

| state | code |
|---|---|
| `status`, `versions`, `changes` | `requirement_requests.status`, `requirement_versions`, `requirement_change_requests` |
| `versions[n].by` | what the request that stored the version had read; of staff edits it stands for the event `requirement_staff_edited` |
| `task` | the version in the project's configuration (`wechatRequirementSync.requirementVersion`) |

| actions | code |
|---|---|
| `UpsertRead`, `UpsertStore` | `create_or_update_requirement` |
| `ChangeBegin`, `ChangeStore` | `create_change_request` |
| `EditRead`, `NumberRead`, `EditStore` | `staff_edit_requirement` |
| `AcceptLoad`, `AcceptCheck`, `AcceptRefuse`, `AcceptRead`, `NumberRead`, `AcceptStore` | a page that warns of conflicts, `accept_change_request` |
| `SyncRead`, `SyncTask`, `BreakOff` | `handleProjectRequirementChangeAccept` after the acceptance |
| `RejectRead`, `RejectStore` | `reject_change_request` |
| `Confirm`, `Mark`, `HandOverRead`, `HandOverStore` | confirmation, clarification and review, `mark_ready_...` and `link_task` |
| `NumberTaken` | the primary key of the versions |

Each request is a process, its reads are single statements and its writes, with
the reads between them, one transaction.  A request that fails before it writes
has had no effect and is one that stays where it is.  A value is named by the
version that brought it, so that a field that falls back can be seen.
`normalize_requirement` is what it does to fields: it gives an upsert and a change
that leave them out both `Switches` (watermark, ban on copying; the value is then
`Default`), and it fills in the subjects from their text (`Implied`, `Normalized`).
An edit has the time at which it is stored, which is its transaction; a change the
second in which its request began, so that versions stored just before that may
count as later (`since`).  A change request identical to a pending one stores
nothing and is left out.  `update_config` of the task is one step.

### WeChat collector

| state | code |
|---|---|
| `chat`, `screen` | what was said in each group; the group the one WeChat window shows |
| `lock`, `lockAged` | the lock file, by the process it names; whether it is thirty minutes old |
| `saved` | the checkpoint file: last line, hashes seen and requirement per group |
| `requests`, `delivered` | the requirements the centre has created, the lines it has got |

| actions | code |
|---|---|
| `TakeFreeLock`, `JudgeLock`, `RemoveJudgedLock`, `GiveWay`, `Stop` | `acquireLock`, in the three steps it takes, and the release |
| `SkipGroup`, `OpenGroup`, `CheckTitle`, `ReopenGroup` | the loop over groups, the search for a chat and the look at its title |
| `CaptureFirst`, `CaptureNew` | screenshots downwards, or upwards to the checkpoint's line, and what counts as new |
| `PushCollecting`, `PushChange`, `Store` | the two pushes and the checkpoint |
| `AnswerLost`, `FailGroup`, `FailBetweenPushes`, `Kill` | lost answers, errors of a group, the death of a process |
| `Say`, `UserOpens`, `ThirtyMinutesPass` | customers, the person at the machine, time |

A checkpoint knows a line by its text only; the position of a line is what the
properties compare.  What is said and which chat is open matters only to the next
capture, so both change just before one.  A capture is one step after the title
check.  That the user is at work skips every group (`SkipGroup`).

A line is one of `Texts`; `States` and `Alters` say which fields it states and which
it asks to change, `Worded` whether it has the words of a change.  Of an altered field
the change's value counts: `Stated`, what the collecting push brings, leaves it out,
and a line that states such a field is `Overruled`.  Whether a draft makes the
collecting push at all is `ChangeOnly`, in both of its cases.

### Local helper

| state | code |
|---|---|
| `proc`, `version`, `installed` | the process, the version that runs, the version in the program directory |
| `updating`, `listening` | `updateInProgress`, the one-shot listener of `helper-update-applied` |
| `at`, `asked`, `awaits`, `entry`, `expired`, `runs` | the handlers of operation requests, `operationBatchRequests` with its thirty minutes, the executions |
| `step`, `target`, `backup` | an update request, what it brings and what it moved aside |

| actions | code |
|---|---|
| `Arrive`, `Reject`, `Join`, `Execute`, `Answer`, `End`, `Expire` | admission, the body, `runManagedOperationRequest` |
| `AskUpdate`, `BeginUpdate`, `Stage`, `FailUpdate` | `/update` up to the staged program |
| `MoveOldAside`, `PlaceNew`, `RecordUpdate`, `RemoveNew`, `RestoreOld` | `applyStagedFanweiHelperUpdate` and its undo |
| `AnswerUpdate`, `Exit`, `Crash`, `Start` | the end of the answer, the restart, the process |

What an operation does to the console is in the module of its component; here it
runs and ends.  The undo is taken to succeed, the file that records an update
(`markVerified`) is written for people and not read by the program.

### Candidate changes

| state | code |
|---|---|
| `online`, `placed`, `hasRooms`, `started`, `ended` | the session on the exam platform: roster, rooms, who has begun, whether it is over |
| `local` | `exam_candidates`, the roster kept with the task |
| `changes` | `candidate_change_sets` with the rosters before and after |
| `candidateChangeInFlight` | the set of the same name in the server's memory |

| actions | code |
|---|---|
| `Preview` | the preview handler: read, compare, store |
| `ApplyRead`, `ApplyCheck` | the change set read in a process of its own, the checks after it |
| `ReadBaseline`, `MarkConflict`, `MarkApplying` | the comparison with the roster of now |
| `ExecuteItem` | one call of the platform per item, in the code's order |
| `Readback`, `AssignRooms`, `SaveRoster`, `Conclude`, `BreakOff` | the end of an application, and every other way it may end |
| `HandChange`, `Begin`, `SessionEnds`, `ServerRestart` | people, candidates, time, the process |

A candidate's data are a value, or `Blank`; the platform shows those of `Masked`
candidates with asterisks (`Hidden` where the server has no full copy).  What the
platform shows empty is filled from the server's own roster, or at the read-back
from the proposed one, and what it masks where that roster has it in full
(`Completed`).  The import of a
roster changes the platform as `HandChange` does.  Paging through a roster is one
step; the refusal of an empty roster ends as `BreakOff` does; the status of single
items is written for display.

### Paper binding

| state | code |
|---|---|
| `config` | `paperFormBinds` and `paperBindReminder` of the task's configuration, an entry per requirement |
| `exam` | the formal session and the start of each requirement's exam |
| `offered`, `bound` | the platform's active papers, the papers of its sessions |
| `job` | the chain of hourly passes, and requests of operators |

| actions | code |
|---|---|
| `Tick`, `ReadTask`, `ReadFails` | `scheduleNextPaperBindingCheck`, the reading of the task |
| `DecideBinding`, `NoLogin`, `Retry` | `shouldAttempt...` of the pass, `handleTaskStepRetry` |
| `Select`, `Post`, `Detect`, `DetectByCourse`, `CallFails` | `bindPapersToFormalSession`, `detectSessionPaperBindings` |
| `DecideReminder`, `Mail`, `MailFails` | `runScheduledPaperBindRemindersOnce` |
| `StoreGet`, `StoreMerge`, `StoreWrite`, `StoreReturn`, `StoreFails` | `updatePaperFormBindState`, `updatePaperBindReminderState` and `update_config`, read by read |
| `Offer`, `BindByHand`, `NewSession`, `PutOff`, `Crash`, `Restart` | the platform, people, the process |

`DueFrom` gives for each start the hour from which a reminder is due, in place of
the rule of 17:00 and 09:00.  There is one task.  A search among all papers, which
an operator may ask for, finds any superset of the active ones.  The history
variables name the accidents the properties except: `forgotten` (a "sent" that was
never stored or was written over), `dangling` (a binding whose end was), `halfSeen`
(a session taken for bound although a course had no paper).  `lookedAt` are the
reminders a pass has dealt with.

### Exam and its record

| state | code |
|---|---|
| `sessions`, `tenant` | the sessions the exam platform has for the task, with name and times (`value`), candidates, rooms and bound courses; the courses of the tenant, those of other projects included |
| `there`, `rows`, `courses` | the task, its rows in `exam_sessions`, the courses of its configuration |
| `stepCourses`, `paperBind`, `change`, `history` | results and statuses of the steps `course_create`, `paper_bind`, `session_change` |
| `job` | the requests under way: operation, place between two awaits, and what the handler has read |

| actions | code |
|---|---|
| `Create`, `PinRead`, `PinWrite`, `Mark`, `Configure`, `Record`, `Made` | `handleCreateJob` and `runYikaoApiCreationJob`, once for the formal session and once for the trial |
| `Known`, `List`, `ListFails`, `NumbersRunOut`, `Persist`, `CoursesDone` | the creation of courses: what is known, what the platform lists, codes, the record |
| `Bind`, `BindMark`, `BindDone`, `BindRefused` | the binding of courses, by a creation or by the retry of its step |
| `Change`, `ChangeLook`, `ChangeRefused`, `Refuse`, `Save`, `Log` | `handleSessionChange` |
| `Sync`, `SyncLook`, `InventoryFails`, `SyncRefused`, `SyncWrite` | `handleSessionSyncApply` and `sync_session` |
| `Rename`, `Snapshots`, `RenameMark`, `RenameStore` | `handleCourseChange` |
| `Import`, `Detail`, `ImportCount`, `Rooms`, `RoomsCount`, `Open`, `Visit`, `Refresh` | the import of candidates, the arrangement of rooms, the detail page that writes rows back |
| `Delete`, `Drop`; `Erase` | deletion of the task; the retry of a failed change |
| `Call` | every call that changes the platform (`CarriedOut`), and where its handler goes on (`Onwards`) |
| `NotFound`, `TaskGone`, `CallFails`, `ReadFails`, `Restart`, `HandEdit`, `OtherCourse` | a session or task that is gone, failed calls (carried out or not), the process, people, other projects |

A code is the pair of an exam's and a course's number on the day of the exam; names
are a course's number and which of its names it has.  A change of an exam's name
and its times is a change of `value`; the courses are those of requirement 0, the
one whose courses are kept at the root of the configuration as well.  A session that
was created carries no candidates and no rooms.  The history variables name what the
properties except: `crossed` (things two requests worked on at once), `unsure` and
`uncounted` (things recorded amid an overlap or a mishap, until a synchronisation or
a visit that nothing disturbed; running out of codes is a mishap of the courses, since
those created until then are not recorded), `overtaken` (log entries written while another
request held an older log), `cut` (sessions of requests that ended before they could
record them).

## 4. Runs

`CHECK_DEADLOCK FALSE` stands where an instance really ends: when its bounds are
used up and all actors are idle.  Interchangeable actors are symmetry sets (not in
the runs with liveness).  Every property of the passing runs is broken by a mutant
of the code it is about (`PROJECT.json`, "mutants").

| run | instance | what it shows |
|---|---|---|
| `personnel_foreign` | 1 page, 2 sends, 2 previews, 2 draft versions, 1 requirement or schedule change, 1 send by hand | no console record is taken as evidence of two sends; no content twice in a row |
| `personnel_pair` | 2 pages, 2 sends, 2 previews, 1 version, 1 restart | the crossed boundary survives restarts and expiries; doubt is only resolved by evidence; an attempt enters the history once, every entry is backed, the ledger is implemented under all interleavings of two pages |
| `personnel_clicked` | 1 page, 1 send | *violation*, see 5 |
| `batch_create` | 2 pages, 2 preparations, all hazards, prompt handlers | creation is open only while nothing was created or is about to be, a second batch needs one of the named causes, one preparation at a time |
| `batch_update` | 2 pages, 1 saved requirement, 1 change by hand, 2 previews, all hazards | the managed snapshot was on the console's page; one helper writes at a time; only what was confirmed is overwritten; "failed" means untouched |
| `batch_update_ends` | the same without changes by hand, with fairness | every attempt is concluded unless its page gave up or a stale write undid it |
| `requirement_request` | 2 requests at a time, a required field, its text and a switch, 3 versions, 1 change | no field changes unnamed, but switches that are turned on; what is ready was confirmed; a change is applied once; staff edits are not overwritten silently; the task has what was accepted - each but for the races its comment names |
| `wechat_collector` | a scheduled and a queued collector, 2 groups (one with 4 lines, one to be mistaken for it), 3 texts (one states a field, one another, one alters that), windows of 1 line, 2 screenshots, 3 runs, 1 break (a chat opened during a capture is one) | two collectors work at once only through an aged or raced lock; lines reach the requirement of their own group, none the checkpoint passed is missing, none is pushed twice, one requirement per group - each but for the named breaks |
| `local_helper` | 2 handlers, 2 request ids, 2 updates, 2 versions, 2 executions, 1 crash, with fairness | an update's restart cuts off only what came between its checks and its mark; a request is executed once while it is remembered; no downgrade; the helper opens again |
| `candidate_change` | 2 requests, 2 candidates (one masked), 1 first roster, 3 proposals (one with empty data), 2 change sets, 3 events | what may still be applied has touched nothing; only what was shown is overwritten; an applied set is on the platform; none is left half applied unnoticed |
| `paper_binding` | 1 requirement, 2 courses, the scheduler and 1 operator, a window of 1 hour, 2 hours, 2 events, starts at 2 and 3 | what is stored as bound is bound; one reminder per arrangement; a "running" is being run; who was dealt with has papers or was reminded - each but for the named accidents |
| `exam_provision` | 2 requests at a time out of 14 mixtures of two to four operations, 2 courses with 2 names, 2 values, 1 or 2 rooms, 2 exam numbers and 4 course numbers, 1 mishap, a task just accepted or carried out | every session left on the platform is known; the record shows the platform; no change drops out of the log; a course is made once; courses recorded as bound are bound - each but for the named overlaps and accidents |

Why the bounds are enough.  The hazards are between *two* handlers, *two* attempts
or a handler and one event in the middle of it; two pages, two sends
(preparations, previews) and one event of each kind contain each such pair.  A
third send repeats the second: nothing in the code counts further than "the last
one".  `personnel_pair` and `personnel_foreign` are two runs because restarts
and sends by hand together exceed sixteen million states.  `batch_create` was also
run once with three pages and two preparations (4.06 million states) and with two
pages and three preparations (9.85 million).  `batch_update` starts from a batch
that was never inspected, one whose service was never read and one that is fully
known, with a console that has its schedules or not.  A lost field needs three
versions, the overwriting of an edit an upsert, an edit and an acceptance, so
`requirement_request` has three, and so has a switch that is turned on again.  In
`wechat_collector` three runs are a first capture, one that breaks and one that repeats
it, four lines are more than two screenshots, and two lines of one capture are what
one needs to overrule the other; it was also run once with windows of one or two lines
(20.0 million states).  In `local_helper` two updates are what may overlap, and two
executions what may be one too many.  In `candidate_change` three events are two
requests to apply and one accident, or one request and two.  In `paper_binding`
an exam at 2 is bound at 1 and its reminder is due from 0, one that is put off to 3
an hour later, so that two hours see two passes with something to do; the second
arrangement takes one event and leaves one for an accident.  In `exam_provision` the
mixtures pair every operation with those that write the same thing, and have a second
request of the same kind where one undoes what the other did; two courses are what a
renaming can leave half done, four numbers what two exams of two courses need.  What
depends on no bound is in section 6.

Fairness is assumed in two modules.  `FairSpec` of `OperationBatchUpdate`: helpers
that run go on (every wait of theirs has a timeout that ends in `HelperFails` or
`HelperUnread`), and so do the requests a page has already sent.  Nothing forces an
operator to preview or to confirm, pages may leave, and a preparation need not
expire.  `Spec` of `LocalHelper`: an update that was begun goes on (each of its
waits has a time limit), and a restart that was arranged happens (a timer of the
process itself).  Nothing forces operations to end or a dead helper to be started.
The other modules state no liveness: their progress depends on people who press
buttons, on launchd, or on a server that is running at the hour.

## 5. Where code and documents disagree

Kept as a violation run:

- `personnel_clicked`: a helper that does not answer within the page's five minutes
  is reported without checkpoints, so an attempt whose send was clicked is offered
  for resumption (`operation_personnel_task_service.mjs:1883`).

Seen while modelling, described by exceptions in the properties or left as notes.
Personnel task:

- A preview of a draft read before another page's edit is stored under the edited
  version (`operation_personnel_task_service.mjs:1343`).
- A recheck prepared for one attempt is applied to whichever attempt is unknown when
  it arrives (`easy_exam_server.mjs:7973`), and the locked section of a recheck does
  not look at the status again: of two rechecks, a late one that found nothing turns
  "sent" into "result unknown" (`operation_personnel_task_service.mjs:1955`; the
  ledger's `Doubt` allows it).

Operation batch:

- The page reports "failed" after 180 s while its helper still creates the batch
  (`outputs/web_prototype/easy_exam_automation.html:14572`); the next click creates
  a second one, which
  `docs/superpowers/specs/2026-07-22-operation-batch-reconciliation-design.md:10`
  sets out to exclude.
- An error while the new batch is looked up in the list is stored as a plain failure
  (`operation_batch_runner.mjs:436`), a helper's "created" is not remembered when the
  write of "creating" fails (`easy_exam_server.mjs:9199`), a stale draft or an early
  confirmation frees creation: these are the causes `unblocked` names.
- Two computers signed in with one account are handed the same preparation
  (`easy_exam_server.mjs:9137`); with `SharedAccount` in `MCOperationBatchCreate`
  two batches follow.  The runs use `OwnAccounts`.
- The code of a batch that could not be published is dropped
  (`easy_exam_server.mjs:9217`), while
  `docs/superpowers/specs/2026-07-24-operation-batch-name-and-update-design.md:214`
  wants it saved first: another cause that `unblocked` names.
- A recorded code is overwritten by the last writer (`:9437`);
  `resolveOperationBatchResultWrite`, which would refuse, is never called.
  `operation-batch/draft` has no caller in the pages.
- An attempt whose page left stays pending for good although the next preview finds
  its target reached (`operation_batch_update_local_service.mjs:356`, `:451`; compare
  `docs/superpowers/specs/2026-07-24-operation-batch-name-and-update-design.md:269`).
- `completePreview` and `prepareUpdate` write the whole object they read before: an
  attempt may vanish, reopen, or the managed snapshot fall back (`lost`).  After a
  restart two helpers may then write at once, which `OneWriter` excepts.
- An update whose read-back was impossible is stored as failed although parts of it
  may be saved (`operation_batch_update_runner.mjs:578`; excepted in
  `FailedMeansUntouched`); the next preview compares the console with the managed
  snapshot and refuses.

Requirements:

- A requirement with a pending change can be confirmed, and then handed over
  (`requirement_request_db.py:619`), although
  `docs/superpowers/specs/2026-06-18-dify-requirement-review-gate-design.md:67` says
  "staff must review the new change before it can proceed again".  A confirmation
  names no version.
- A staff edit stored between the base and the number of another edit, or of an
  acceptance, is dropped from the next version (`:470`; excepted in
  `OnlyNamedFieldsChange`).  An acceptance made on the requirement's own page never
  reaches the task, and one that breaks off before `update_config` cannot be
  repeated (`easy_exam_server.mjs:2241`; excepted in `TaskHasAccepted`).
- A watermark or a ban on copying that staff switched off is switched on again by the
  next upsert or accepted change, whatever it is about (`:102`; excepted in
  `OnlyNamedFieldsChange`), and is what every change conflicts with.
- An edit stored in the second in which the change's request begins, though before it,
  is a conflict too (`:505`).

WeChat collector:

- `docs/wechat-requirement-collector.md:162` relies on the run lock, but a lock of
  thirty minutes is taken over whoever holds it, and judging, removing and taking it
  are three steps between which another process may do the same
  (`wechat_visible_collect.mjs:92`).  The documents allow any interval from one minute
  on, the code requires fifteen.
- A chat's title is checked before its first screenshot only (`:439`); a repeated
  line moves the boundary of what is new (`wechat_requirement_collector.mjs:266`).
- A line that states a field which another line of its capture asks to change goes into
  neither push, even if it is the later one, and the checkpoint passes it
  (`wechat_requirement_collector.mjs:236`; excepted in `NothingMissed`).

Candidate changes:

- The exam status is not in `candidateRosterHash`: a candidate who starts between
  the preview and the application is changed none the less
  (`easy_exam_server.mjs:5915`, `candidate_change.mjs:203`).
- A status read before another application ended may be checked after it
  (`easy_exam_server.mjs:5898`): an applied change set may then become "conflict" and
  be applied once more (`overtaken`).
- An added candidate whose call failed after it was carried out has no room, and the
  change set cannot be applied again; a mere failure of the read-back closes it too.
  Masked or empty data are read back from the proposal itself (`:5621`), so that their
  application is confirmed by what was asked for; and data that were emptied by hand
  are compared, and overwritten, as the server's own copy of them
  (excepted in `OverwritesOnlyShown` and `AppliedIsOnline`).  `candidateChangePending` is written and never read.

Paper binding:

- One paper on a session's list counts as all (`paper_binding.mjs:880`): neither the
  hourly pass nor the reminder looks at that session again.  The test "manual binding
  detection waits when a course still has no paper in session detail"
  (`server/test_paper_binding.mjs`) has the course-by-course rule in mind, which the
  code applies only where the list cannot be read.  `halfSeen` excepts it.
- A binding left as "running" by a process that ended, or a "success" for a session
  that was created anew, is never tried again by the hourly pass
  (`easy_exam_server.mjs:9691`); the reminder is what catches it
  (`CoveredOnceLookedAt`).  A slow binding may store "failed" over a later success.
- A "sent" that cannot be stored leads to a second mail, and a "sending" that cannot
  be stored ends the reminders of all later tasks of that pass (`:9964`).
- A binding replaces papers bound by hand when it finds papers of its courses' names.

Exam and its record:

- `docs/superpowers/specs/2026-07-08-test-console-session-change-design.md:188` says
  "If fetching tenant detail fails, do not attempt PUT."; the handler goes on with
  the recorded values and does (`easy_exam_server.mjs:6277`).
- The row of a session is written whole, from what was read before the calls of the
  platform (`:6366`, `:1179`): a slow change or import brings back numbers, times and
  even the id of a session that was created anew meanwhile.  `upsert_session` does
  not ask whether the task exists, so that one that was deleted leaves a row behind.
- The log of changes is written from what was read before the calls, by the renaming
  of courses and after a failure (`:6321`, `:6515`), and the retry of a failed change
  empties it (`:10190`): `overtaken`.
- A creation asked for again makes new sessions; the earlier ones stay on the
  platform and no record names them.  One that ends before its session is recorded
  leaves it there too (`:927`): `cut`.
- A creation that fails between recording the new formal session and the binding
  leaves the earlier "success" of `paper_bind`, with nothing bound (`BoundIsBound`
  speaks of the session the binding was for).  So does a change beside a creation: it
  writes the row of the earlier session back, and the binding of the courses the
  change renamed is then on the later one (hence the exception for `formal`).
- Courses renamed on the platform and not in the record, because the renaming broke
  off, are created once more under other codes (`course_change.mjs:310`).
- Rooms are deleted before the new ones are checked and made (`:4781`): a failure
  between leaves none.  An opened page takes a list of rooms that could not be read
  for an empty one, and writes the zero into the record (`:3720`, `:1214`).
- The login of a creation is fixed by writing back the whole configuration it read
  (`:1283`), the courses another request stores meanwhile included.

A page closed between a send and its report leaves the attempt active until a report
or a restart comes (`operation_personnel_task_service.mjs:1857`): edits, previews and
sends are refused until then, and no property promises otherwise.

## 6. Proofs

All theorems hold for any sets of actors, values and any bounds.  Assumed are only
the named assumptions of the modules: `BoundsAssumption` and `ContentsAssumption`
(contents differ from `None` and `External`), `BatchAssumption`, `UpdateAssumption`,
`RequirementAssumption`, `CollectorAssumption`, `HelperAssumption`,
`CandidateAssumption` and `PaperAssumption`; each says that bounds are natural
numbers, sets of actors that must be counted are finite, and names of different
things differ.

- `PersonnelTaskProofs!TypeCorrect`: `Spec => []TypeOK`.  The invariant is `TypeInv`,
  `TypeOK` with what its steps need of the page states; one lemma per part of the
  state, one step per action.
  `BoundaryHolds`, `HistoryOncePerAttemptHolds`, `NoRepeatedContentHolds`: none of
  the three is inductive.  `SafetyInv` is
  `TypeInv /\ BoundaryInv /\ HistoryInv`.  `BoundaryInv`: a *stored* status
  "resumable" goes with no `submit_send` checkpoint, from which expiry and recovery
  decide later.  `HistoryInv`: the last successful content is the last entry's,
  no entry and no attempt carries a number not issued yet, and the attempt at hand
  is in the history exactly if its content is the last successful one - without
  which a late report could append twice or repeat.  The lemma `StepKinds` reduces
  `Next` to five kinds of steps (quiet, adopting, sending, merging, concluding), so
  that the invariant is shown per kind and not for thirty actions.
  `UnknownOnlyResolvedHolds` and the refinement `ImplementsSendLedgerHolds` need
  `LedgerInv`, `SafetyInv` with `ProgressInv` (what the stored attempt tells of its
  own progress) and `PageInv` (answers that speak of the click carry its
  checkpoint, in the helper, on the way and in the page); each kind of step is then
  shown to be a step of the ledger or none.
  `HistoryBackedHolds`: what a helper or a page has seen of the console is still
  there (`BackedInv`), since the console only gains records.
  `HistoryInConsoleOrderHolds` is for one page (`OnePage`), as the run is: with two
  pages an answer can be older than what another page has had recorded meanwhile.
  Its invariant `OrderInv` says that as long as the
  attempt at hand is not recorded, the records it may still be recorded with are
  younger than all the history holds.
- `OperationProofs`, creation of batches: `OnePreparationHolds` - at most one live preparation, with
  and without `PromptHandlers`; the inductive form is `SinglePreparation` ("all live
  preparations are one").  `TypesHold` - type correctness; `Typed` adds that a page
  that prepares or waits holds the number of a preparation.
  `CreatedOnceHolds` is for pages with an account each (`OneAccountEach`; section 5
  says what a shared one does) and prompt handlers, as the run is.  A *claim* is
  anything a batch can still come of or has come of: a run under way or one that has
  made its batch, a live preparation, a page that holds one.  `Guarded` says that
  until creation is unblocked too early there is one claim at most (`OneClaim`), that
  a free project - and a handler that has read it free, however long ago - leaves
  room only for a preparation being handed out (`StoreGuards`, `ReadersGuarded`),
  that who completes a preparation holds lock and preparation (`HolderLive`), and
  that what handlers hold of a helper's answer is what the helper did (`Reported`).
- `OperationBatchUpdateProofs`: `TypesHold`, `OneWriterHolds`, `SnapshotWasShownHolds`,
  `FailedMeansUntouchedHolds` and the action property `OverwritesOnlyConfirmedHolds`
  follow from one invariant, `Inv`.  `Owned`: the token of a preview belongs to one
  page, and its helper begins only once that page is updating.  `SnapshotsSeen`: not
  only the stored managed snapshot but every one that may still become it (what
  handlers have read, what was inspected, what helpers have read back) was on the
  console's page.  `AttemptsBacked` holds until a stale write undoes an attempt
  (`lost`): one attempt is unfinished at most and every helper at work belongs to it,
  because a handler that starts an update has seen no unfinished one (`Owned`) and
  writes what it has seen; so nobody else writes the batch and what a helper's run
  has saved is there, while the rest is as the operator was shown it (`Backed`).
  A read-back that agrees with what was expected then shows that nothing was saved.
  Helpers' steps are reduced to four kinds (`HelperSteps`), pages' steps to moves and
  writes (`PageMoves`, `PageWrites`).  Types need one more fact: each inspection in
  progress has a preview left to end in (`BoundTyped`).
- `RequirementProofs`: `ReadyWasConfirmedHolds` - what is ready or linked is the
  version the customer confirmed; the inductive form adds the status from which a
  hand-over starts ("customer_confirmed" goes with the latest version confirmed);
  every step that stores a version also leaves a status outside both (`Unsettled`).
  `TypesHold` and `OnlyNamedFieldsChangeHolds` share `Typed`: the types, what each
  request holds of the versions it has read, the property itself, and two facts without
  which it is not inductive: a change holds no fields but those it was asked for, what
  they imply, and the switches (`Formed`), and no version has a text of subjects without
  subjects (`Filled`), so that filling them in changes nothing that was there
  (`MergedFacts`, `FromChangeFacts`).
  `AppliedOnceHolds`, `EditsOverwrittenKnowinglyHolds` and `TaskHasAcceptedHolds` add
  `Decisions` to it: who asks for a change is alone with it, and who decides one has
  found it pending and is alone with it, or the change is contested (`Apart`); a page
  that warns has shown every edit there was when it was loaded, and an acceptance
  that goes on has seen the others when it looked (`Warned`, `Looked`); a change that
  is accepted has the one version that applied it, any other none (`Applied`); an
  update of the task under way brings every acceptance there is, unless one broke off
  or two overlap (`Brings`).
- `WechatCollectorProofs`: `OneCollectorAtATimeHolds` - as long as no lock was taken
  over or raced, whoever works owns the lock file; `OwnChatHolds` - behind the title
  check the window shows the collector's group, or a cause is on record.
  `NothingMissedHolds` needs no lock: checkpoints, the stored one and the ones
  collectors read earlier, know only texts of lines that are covered (`Known`), and
  of a capture in hand each line that its checkpoint will cover is among its new
  lines, or is one the property excepts, and what the collecting push has left out
  there, the change push brings, or it is overruled (`InHand`).  Screenshots taken upwards leave
  no gap (`ReadUpwardsClosed`), so what lies between a line known by its text and the
  new ones lies in a repetition.
  `RepushedOnlyAfterBreakHolds` does need the lock: until a break one collector
  works, and the last line of the checkpoint it works from - the stored one or the
  one it has read and is about to store - lies behind all that was delivered of the
  group (`Carries`, `GroupOK`), and what a capture has still to push was not pushed
  before (`Unpushed`), so that each push goes beyond (`PushInv`).  It
  assumes that the configuration names a group once (`EachGroupOnce`, which the code
  does not check: the second turn of a group named twice would start from the
  checkpoint read before the first).
- `OperationProofs`, local helper: `HelperTypesHold`, `NotCutOffHolds`, `OncePerRequestHolds`,
  `NeverLeftWithoutHolds` (a program is installed unless an update is between its
  two renames or died there) and the action property `NoDowngradeHolds`.  The invariants
  are `ProgramInv` (whatever an update brings or has moved aside is not older than
  the version that runs, and so is what is installed), `MarkInv` (without overlap one
  update is past its checks, and whoever is in hand then slipped in) and `EntryInv`
  (an execution whose request was not forgotten is the one its entry remembers).
- `CandidateChangeProofs`: `TypesHold`, `OpenMeansUntouchedHolds`,
  `ApplyingIsHeldHolds`.  The invariant is `TypeOK`, `Flow` (what each place of an
  application says of its change set's status) and the two properties.
  `OverwritesOnlyShownHolds` and `AppliedIsOnlineHolds` add `PlatformInv`: of a request
  that has compared the roster, what it has still to carry out is as its page was
  shown it, as far as the platform shows it at all (`AsShown`), and of one that has read it back, the platform agrees with what was read
  and who was to get a room has one (`HeldOK`) - each but for the candidates on record
  as disturbed.  Every step leaves alone, or records as disturbed, the change sets it
  does not work on (`OthersLeftAlone`, `BesideLeavesAlone`), and no request works on a
  change set that is applied (`ActsOnUnapplied`, from `Flow`).
- `PaperBindingProofs`: `TypesHold`, `SuccessIsBoundHolds`, `CoveredHolds`.  The
  invariant says of every configuration there is - the stored one, the ones that are
  read and not yet written, and the tasks the passes decide on - that its successes
  are bound (`Sound`), since any of them may be written later, and that a mailed or
  covered reminder is what a "sent" or "not needed" stands for (`Looked`,
  `JobSound`).
  `RemindedOnceHolds` and `RunningIsRunHolds` add `PassInv`: a reminder that was mailed
  and not forgotten is in the configuration, or its "sent" is on the way there
  (`SentInv`); the task a pass still decides on tells of it, and one that is on its way
  to be mailed was not (`RemindOK`) - which holds although that task was read long
  before, because only the scheduler mails and it reads the task anew after each
  mailing; a binding stored as running is carried by a process or on record
  (`RunInv`); and what a process is about to write has its own entry (`Shape`).

- `ExamProvisionProofs`: `SessionsAccountedForHolds`, `HistoryKeptHolds`, for any
  number of requests and any budgets of requests and failures.  Nothing keeps two
  requests apart, so what holds of them is that whoever works on the same thing is on
  record (`Sole`, and `Gone` for a task that was deleted meanwhile).  But for things
  so crossed, the invariant says of each request: the session a creation has in hand
  is the latest of its kind (`HandOK`); the row a request will write back names the
  same session as the record does now (`ReadOK`), so that writing it forgets none; a
  deletion has deleted, or still has on its list, every session that is recorded
  (`DeleteOK`), so that dropping the rows leaves none behind; and the log in hand
  holds every change that counts (`LogOK`).  Each step of a request is a quiet one,
  which leaves platform and record alone, or one of a few that write (`CallKept`,
  `RecordKept`, `SaveKept`, `SyncWriteKept`, `LogKept`, `DropKept`, ...).
  `RowShowsSessionHolds` adds `RecordInv`.  Requests that meet on a kind of session
  leave it unsure and uncounted, and none of them is alone (`Meet`).  Where nothing
  was disturbed, each request at work on a kind knows how far the platform is ahead of
  the record (`Shows`, with what its place allows to lag: the value while a change is
  saved, the candidates while an import is, the rooms while an arrangement is), the
  row it will write back is still the recorded one (`RowIs`), and what it has read or
  put is what the session has (`PlaceOK`).  `Milder` is what mishaps and new requests
  do: less is sure afterwards, and nobody is alone where a value changed.  The
  theorem reads `Shows` where no request is at work.
  `BoundIsBoundHolds` adds `BindInv`, for as long as no two requests met on the formal
  session or on the courses (`Clear`).  What the task calls bound is bound
  (`BoundOK`); a creation that is past recording its formal session has displaced the
  bound one, so that what it makes of the courses breaks no earlier promise
  (`CreationOK`); whoever binds has every stored course in hand, and each of these is
  bound already or still to bind (`BindingOK`); what a synchronisation will write has
  codes that were stored, or that the session itself has (`TakingOK`); and what a
  renaming will write has stored codes only (`RenamingOK`).  A session keeps what is
  bound to it (`Grown`), and requests that do not touch the courses say nothing of
  them (`Aside`).
  `CourseMadeOnceHolds` adds `MadeInv`, for as long as the courses are not unsure
  (`Calm`).  The project's courses on the platform (`Ours`) are each on record once
  (`Whole`: `Good` and `Complete`) or, while a creation or a renaming is under way
  (`Amid`), in the hands of the one request that works on them: the courses a creation
  plans (`Planning`: who is still to be created has no course on the platform), the
  ones a synchronisation takes over (`TakeOK`), the ones to rename (`NamesOK`).  What
  a step makes of them is stated step by step (`PlanIs`, `CreatedOne`, `MergedWhole`,
  `RenamedOne`).  Courses are told apart by their codes (`TenantOK`), so what the search
  for a code finds has to be known: its choices are among what they choose from
  (`FirstIs`, `EarliestIs`, `NthIs`), the group found has room for every course
  (`GroupIs`), and the courses of a list are allotted different free codes
  (`AllocatedIs`).  So a code that is allotted is one no course has, whichever codes
  other projects have taken.

Only model-checked: the liveness properties (`AttemptConcludes`, `UpdateEnds`), which
are beyond the prover.  Every other property of a passing run is stated by a theorem.

## 7. Not modelled

- Driving the pages of the console, of the exam platform and of WeChat (locators,
  dialogs, recognition of text): I/O that stands behind the failure actions of its
  component.  It is the larger part of the implementation, and of
  `easy_exam_runner.mjs`, the two operation runners and
  `wechat_visible_collect.mjs` nearly all.
- Documents, exports, parsing, mail, rendering, Fanwei reading, the mapping of
  requirements to configurations: sequential transformations of data without state
  or concurrency, where tests reach what a model would.
- Content packages, archive, the retries, aggregation and artifacts of the task
  database's steps, accounts and release scripts: open in the plan.
- The reconcile and archive handlers, which also write `operationBatch`; a second
  batch of the same name is accepted by the console in the models.
- `runQueuedAttempt` and other server-run paths that the deployed wiring does not
  reach.
- Of the collector: which value counts where two lines of one capture state one field (a
  line of which one field is altered counts as overruled as a whole), attachments, the candidates a language model extracts, the pages
  of its API, the merging of overlapping screenshots, the cap of 200 remembered
  hashes, the temporary file behind the atomic checkpoint.
- Of the helper: the browser tab its operations share, download and unpacking beyond
  success and failure, the rendering of health answers.
- Of candidate changes: the editor of the roster, assignment of courses on import,
  single fields of a candidate's data (all of them are shown, masked or empty).
- Of paper binding: exams without courses (`easy_exam_server.mjs:9721`), the
  matching of paper names, the shared-sheet pass, the copies of the first entry kept
  under the older names `paperFormBind` and `paperBindReminder`, more than one task.
- Of the exam and its record: the interruptions themselves, which are what `cut`,
  `unsure` and `overtaken` except - that a session made and not recorded is lost, a
  renaming cut off leaves a course to be made twice, and of two logs the later one
  remains is stated in section 5, and the properties say that nothing else does the
  same; the application of a candidate change, which writes the row of its session with
  the number it has read back (the change itself is in `CandidateChange`); the papers of the trial, the statuses of steps other
  than those named, the hiding of a task, fields of a session beyond name and times,
  the options and papers a synchronisation takes over, the marks of requirement
  changes, the limit of 50 entries of the log, more than one requirement per task.
- `update_config` reads and writes in two steps; `PaperBinding` models both, the
  other modules take it as one.
