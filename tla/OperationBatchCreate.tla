------------------------ MODULE OperationBatchCreate ------------------------
(***************************************************************************)
(* Creating one project's batch in the operation console: the server's     *)
(* handlers (easy_exam_server.mjs), the pages that call them, the local    *)
(* helper that drives the console for each page, and the console.          *)
(*                                                                         *)
(* Every runTaskState call of a handler is a separate process: a handler   *)
(* reads the task, checks what it read (job[c]), and writes the whole      *)
(* operationBatch object back later.  Only what runs between two such      *)
(* calls is atomic.  inFlight and the live preparations are memory of the  *)
(* server and die with it; code and ob are persisted.                      *)
(***************************************************************************)
EXTENDS Naturals, Sequences, FiniteSets

CONSTANTS
    Pages,           \* operators' browser pages, each with its own helper
    Account,         \* Account[c]: the account page c is signed in with
    MaxPreparations, \* bound: preparations issued
    Hazards,         \* what may go wrong in this instance
    PromptHandlers   \* what takes seconds happens while no handler (milliseconds) runs

HazardKinds == {"timeout", "lookup", "confirmation", "store", "restart", "draft"}

ASSUME BatchAssumption ==
    /\ DOMAIN Account = Pages
    /\ MaxPreparations \in Nat
    /\ Hazards \subseteq HazardKinds
    /\ PromptHandlers \in BOOLEAN

VARIABLES
    code,         \* persisted operationBatchCode: number of a console batch, 0 when none
    ob,           \* persisted operationBatch: [status, code]
    preparations, \* live local preparations: [id, account]
    issued,       \* preparations issued so far
    inFlight,     \* operationBatchCreationInFlight holds the task
    pc, job,      \* per page: the request in progress, and what its handler holds
    exec,         \* exec[c][i]: what page c's helper did with preparation i
    batches,      \* the console: preparation ids of the batches created, in order
    unblocked     \* history: creation was allowed again too early

store == <<code, ob>>
memory == <<preparations, issued, inFlight>>
helper == <<exec, batches>>
vars == <<store, memory, pc, job, helper, unblocked>>

Ids == 1..MaxPreparations
(* Mutant: a project whose helper was asked counts as free once the          *)
(* preparation is gone.                                                      *)
UnconfirmedStatusesOfServer == {"creating", "reconciliation_required"}

UnconfirmedStatuses == {"awaiting_local_helper", "creating", "reconciliation_required"}
Statuses == UnconfirmedStatuses \cup
            {"", "draft", "failed", "created_unpublished", "published"}
Finals == {"published", "publish_failed", "unconfirmed", "failed"}
Stages == {"none", "running", "submitted"} \cup Finals
Codes == 0..Len(batches)
Obs == [status : Statuses, code : Codes]
PageStates == {"idle", "creating", "preparing", "waiting", "completing", "marking", "marked",
               "storing", "failing", "retrying", "unlocking", "recording", "drafting"}
NoJob == [code |-> 0, ob |-> [status |-> "", code |-> 0], id |-> 0,
          report |-> "failed", batch |-> 0, confirmed |-> FALSE]
NoExec == [stage |-> "none", batch |-> 0]

Init ==
    /\ code = 0 /\ ob = [status |-> "", code |-> 0]
    /\ preparations = {} /\ issued = 0 /\ inFlight = FALSE
    /\ pc = [c \in Pages |-> "idle"] /\ job = [c \in Pages |-> NoJob]
    /\ exec = [c \in Pages |-> [i \in Ids |-> NoExec]]
    /\ batches = <<>> /\ unblocked = FALSE

Goto(c, place, locals) ==
    /\ pc' = [pc EXCEPT ![c] = place]
    /\ job' = [job EXCEPT ![c] = locals]
Leave(c) == Goto(c, "idle", NoJob)

(* Every request starts by reading the task.                                 *)
Read(c) == [job[c] EXCEPT !.code = code, !.ob = ob]
KnownCode(c) == IF job[c].code # 0 THEN job[c].code ELSE job[c].ob.code

HandlersIdle == \A c \in Pages : pc[c] \in {"idle", "waiting"}
Slow == PromptHandlers => HandlersIdle
HelperRunning == \E c \in Pages, i \in Ids : exec[c][i].stage \in {"running", "submitted"}

-----------------------------------------------------------------------------
(* POST operation-batch/create without a preparation id.  (The bound leaves  *)
(* every reader a preparation to issue.)                                     *)
CreateRead(c) ==
    /\ pc[c] = "idle"
    /\ issued + Cardinality({d \in Pages : pc[d] = "creating"}) < MaxPreparations
    /\ Goto(c, "creating", Read(c))
    /\ UNCHANGED <<store, memory, helper, unblocked>>

(* The same account is handed the preparation it already has.                *)
CreateJoin(c) ==
    /\ pc[c] = "creating" /\ KnownCode(c) = 0
    /\ \E p \in preparations :
        /\ p.account = Account[c]
        /\ Goto(c, "waiting", [job[c] EXCEPT !.id = p.id])
    /\ UNCHANGED <<store, memory, helper, unblocked>>

(* Mutant: without the check of the preparations.                            *)
CreateAllowedBesideOthers(c) ==
    KnownCode(c) = 0 /\ job[c].ob.status \notin UnconfirmedStatuses

CreateAllowed(c) ==
    /\ KnownCode(c) = 0
    /\ preparations = {}
    /\ job[c].ob.status \notin UnconfirmedStatuses

CreatePrepare(c) ==
    /\ pc[c] = "creating" /\ CreateAllowed(c) /\ issued < MaxPreparations
    /\ issued' = issued + 1
    /\ preparations' = preparations \cup {[id |-> issued', account |-> Account[c]]}
    /\ Goto(c, "preparing", [job[c] EXCEPT !.id = issued'])
    /\ UNCHANGED <<store, inFlight, helper, unblocked>>

CreateRefuse(c) ==
    /\ pc[c] = "creating" /\ ~CreateAllowed(c)
    /\ KnownCode(c) = 0 => \A p \in preparations : p.account # Account[c]
    /\ Leave(c)
    /\ UNCHANGED <<store, memory, helper, unblocked>>

(* The status is written over the operationBatch that was read.              *)
CreateCommit(c) ==
    /\ pc[c] = "preparing"
    /\ ob' = [job[c].ob EXCEPT !.status = "awaiting_local_helper"]
    /\ Goto(c, "waiting", job[c])
    /\ UNCHANGED <<code, memory, helper, unblocked>>

CreateCommitFails(c) ==
    /\ "store" \in Hazards
    /\ pc[c] = "preparing"
    /\ preparations' = {p \in preparations : p.id # job[c].id}
    /\ Leave(c)
    /\ UNCHANGED <<store, issued, inFlight, helper, unblocked>>

(* The operator closes the page or opens another project.                    *)
LeavePage(c) ==
    /\ Slow
    /\ pc[c] = "waiting"
    /\ Leave(c)
    /\ UNCHANGED <<store, memory, helper, unblocked>>

-----------------------------------------------------------------------------
(* The helper: a request id it already has is answered by the same run.      *)
HelperStart(c) ==
    /\ Slow
    /\ pc[c] = "waiting" /\ exec[c][job[c].id].stage = "none"
    /\ exec' = [exec EXCEPT ![c][job[c].id].stage = "running"]
    /\ UNCHANGED <<store, memory, pc, job, batches, unblocked>>

(* The wizard's last button is pressed: the console has the batch.           *)
HelperSubmit(c, i) ==
    /\ Slow
    /\ exec[c][i].stage = "running"
    /\ batches' = Append(batches, i)
    /\ exec' = [exec EXCEPT ![c][i] = [stage |-> "submitted", batch |-> Len(batches')]]
    /\ UNCHANGED <<store, memory, pc, job, unblocked>>

(* Any error before that button is a plain failure.                          *)
HelperRefuse(c, i) ==
    /\ Slow
    /\ exec[c][i].stage = "running"
    /\ exec' = [exec EXCEPT ![c][i].stage = "failed"]
    /\ UNCHANGED <<store, memory, pc, job, batches, unblocked>>

(* Code read and published, code read only, or no code but the               *)
(* reconciliation error.                                                     *)
HelperAnswer(c, i) ==
    /\ Slow
    /\ exec[c][i].stage = "submitted"
    /\ \E final \in {"published", "publish_failed", "unconfirmed"} :
        exec' = [exec EXCEPT ![c][i].stage = final]
    /\ UNCHANGED <<store, memory, pc, job, batches, unblocked>>

(* After the button, an error of the list page (a timed-out wait, a lost     *)
(* page) or the end of the helper's process is a plain failure too.          *)
HelperLookupFails(c, i) ==
    /\ "lookup" \in Hazards /\ Slow
    /\ exec[c][i].stage = "submitted"
    /\ exec' = [exec EXCEPT ![c][i] = [stage |-> "failed", batch |-> 0]]
    /\ unblocked' = TRUE
    /\ UNCHANGED <<store, memory, pc, job, batches>>

-----------------------------------------------------------------------------
(* POST operation-batch/create with the preparation id and the result.       *)
Confirmed(report) == report \in {"published", "publish_failed", "unconfirmed"}
ReportedBatch(run) == IF run.stage \in {"published", "publish_failed"} THEN run.batch ELSE 0

CompleteRead(c) ==
    LET run == exec[c][job[c].id] IN
    /\ pc[c] = "waiting" /\ run.stage \in Finals
    /\ Goto(c, "completing",
            [Read(c) EXCEPT !.report = run.stage, !.batch = ReportedBatch(run)])
    /\ UNCHANGED <<store, memory, helper, unblocked>>

(* After 180 s the page stops waiting for its helper and reports "failed".   *)
Timeout(c) ==
    /\ "timeout" \in Hazards
    /\ pc[c] = "waiting" /\ exec[c][job[c].id].stage \in {"running", "submitted"}
    /\ Goto(c, "completing", [Read(c) EXCEPT !.report = "failed"])
    /\ unblocked' = TRUE
    /\ UNCHANGED <<store, memory, helper>>

CompleteAllowed(c) ==
    /\ KnownCode(c) = 0
    /\ [id |-> job[c].id, account |-> Account[c]] \in preparations
    /\ ~inFlight

CompleteAcquire(c) ==
    /\ pc[c] = "completing" /\ CompleteAllowed(c)
    /\ inFlight' = TRUE
    /\ Goto(c, "marking", job[c])
    /\ UNCHANGED <<store, preparations, issued, helper, unblocked>>

CompleteRefuse(c) ==
    /\ pc[c] = "completing" /\ ~CompleteAllowed(c)
    /\ Leave(c)
    /\ UNCHANGED <<store, memory, helper, unblocked>>

CompleteMark(c) ==
    /\ pc[c] = "marking"
    /\ ob' = [job[c].ob EXCEPT !.status = "creating"]
    /\ Goto(c, "marked", [job[c] EXCEPT !.confirmed = Confirmed(job[c].report)])
    /\ UNCHANGED <<code, memory, helper, unblocked>>

(* externalBatchConfirmed is set after that write, so when it throws the     *)
(* result is stored as a plain failure whatever the helper reported.         *)
CompleteMarkFails(c) ==
    /\ "store" \in Hazards
    /\ pc[c] = "marking"
    /\ Goto(c, "failing", Read(c))
    /\ unblocked' = (unblocked \/ Confirmed(job[c].report))
    /\ UNCHANGED <<store, memory, helper>>

CompleteRefetch(c) ==
    /\ pc[c] = "marked"
    /\ Goto(c, IF job[c].report = "published" THEN "storing" ELSE "failing", Read(c))
    /\ UNCHANGED <<store, memory, helper, unblocked>>

(* The preparation and the lock are dropped when the final write returns.    *)
Finish(c) ==
    /\ inFlight' = FALSE
    /\ preparations' = {p \in preparations : p.id # job[c].id}
    /\ Leave(c)
    /\ UNCHANGED <<issued, helper, unblocked>>

CompleteStore(c) ==
    /\ pc[c] = "storing"
    /\ code' = job[c].batch
    /\ ob' = [job[c].ob EXCEPT !.code = job[c].batch, !.status = "published"]
    /\ Finish(c)

CompleteStoreFails(c) ==
    /\ "store" \in Hazards
    /\ pc[c] = "storing"
    /\ Goto(c, "failing", Read(c))
    /\ UNCHANGED <<store, memory, helper, unblocked>>

CompleteFail(c) ==
    /\ pc[c] = "failing"
    /\ ob' = [job[c].ob EXCEPT !.status =
                IF job[c].confirmed THEN "reconciliation_required" ELSE "failed"]
    /\ UNCHANGED code
    /\ Finish(c)

CompleteFailFails(c) ==
    /\ "store" \in Hazards
    /\ pc[c] = "failing"
    /\ inFlight' = FALSE
    /\ Leave(c)
    /\ UNCHANGED <<store, preparations, issued, helper, unblocked>>

-----------------------------------------------------------------------------
(* POST operation-batch/retry: the operator confirms that the console shows  *)
(* no batch and, unless "confirmation" may go wrong, knows that no helper is *)
(* at work for the project.  The confirmation may be overtaken by a click on *)
(* "create" before it is applied or before it is stored.                     *)
HelperDue == HelperRunning \/ \E c \in Pages : pc[c] \in {"preparing", "waiting"}

RetryRead(c) ==
    /\ pc[c] = "idle" /\ batches = <<>>
    /\ "confirmation" \in Hazards \/ ~HelperDue
    /\ Goto(c, "retrying", Read(c))
    /\ UNCHANGED <<store, memory, helper, unblocked>>

RetryAllowed(c) ==
    /\ KnownCode(c) = 0
    /\ ~inFlight
    /\ job[c].ob.status \in UnconfirmedStatuses

RetryUnlock(c) ==
    /\ pc[c] = "retrying" /\ RetryAllowed(c)
    /\ preparations' = {}
    /\ unblocked' = (unblocked \/ HelperDue)
    /\ Goto(c, "unlocking", job[c])
    /\ UNCHANGED <<store, issued, inFlight, helper>>

RetryRefuse(c) ==
    /\ pc[c] = "retrying" /\ ~RetryAllowed(c)
    /\ Leave(c)
    /\ UNCHANGED <<store, memory, helper, unblocked>>

RetryWrite(c) ==
    /\ pc[c] = "unlocking"
    /\ ob' = [job[c].ob EXCEPT !.status = "failed"]
    /\ unblocked' = (unblocked \/ HelperDue)
    /\ Leave(c)
    /\ UNCHANGED <<code, memory, helper>>

(* POST operation-batch/result: a code typed by an operator who sees it in   *)
(* the console and no code on the page.                                      *)
RecordRead(c) ==
    /\ pc[c] = "idle" /\ code = 0
    /\ \E n \in DOMAIN batches : Goto(c, "recording", [Read(c) EXCEPT !.batch = n])
    /\ UNCHANGED <<store, memory, helper, unblocked>>

RecordWrite(c) ==
    /\ pc[c] = "recording"
    /\ code' = job[c].batch
    /\ ob' = [job[c].ob EXCEPT !.code = job[c].batch, !.status = "created_unpublished"]
    /\ Leave(c)
    /\ UNCHANGED <<memory, helper, unblocked>>

(* POST operation-batch/draft keeps the status it read, which may be older   *)
(* than the preparation's.                                                   *)
DraftRead(c) ==
    /\ "draft" \in Hazards
    /\ pc[c] = "idle"
    /\ Goto(c, "drafting", Read(c))
    /\ UNCHANGED <<store, memory, helper, unblocked>>

DraftWrite(c) ==
    /\ pc[c] = "drafting"
    /\ ob' = [job[c].ob EXCEPT !.status = IF @ = "" THEN "draft" ELSE @]
    /\ unblocked' = (unblocked \/ ob.status \in UnconfirmedStatuses \ {ob'.status})
    /\ Leave(c)
    /\ UNCHANGED <<code, memory, helper>>

-----------------------------------------------------------------------------
(* A preparation's 15 minutes are over.                                      *)
PreparationExpires ==
    /\ Slow
    /\ \E p \in preparations : preparations' = preparations \ {p}
    /\ UNCHANGED <<store, issued, inFlight, pc, job, helper, unblocked>>

(* Handlers in progress end; pages waiting for their helper do not notice.   *)
ServerRestart ==
    /\ "restart" \in Hazards
    /\ \E p \in preparations : TRUE
    /\ preparations' = {} /\ inFlight' = FALSE
    /\ pc' = [c \in Pages |-> IF pc[c] = "waiting" THEN "waiting" ELSE "idle"]
    /\ job' = [c \in Pages |-> IF pc[c] = "waiting" THEN job[c] ELSE NoJob]
    /\ UNCHANGED <<store, issued, helper, unblocked>>

Create(c) ==
    \/ CreateRead(c) \/ CreateJoin(c) \/ CreatePrepare(c) \/ CreateRefuse(c)
    \/ CreateCommit(c) \/ CreateCommitFails(c) \/ LeavePage(c)
Helper(c) ==
    \/ HelperStart(c)
    \/ \E i \in Ids : \/ HelperSubmit(c, i) \/ HelperRefuse(c, i)
                      \/ HelperAnswer(c, i) \/ HelperLookupFails(c, i)
Complete(c) ==
    \/ CompleteRead(c) \/ Timeout(c) \/ CompleteAcquire(c) \/ CompleteRefuse(c)
    \/ CompleteMark(c) \/ CompleteMarkFails(c) \/ CompleteRefetch(c)
    \/ CompleteStore(c) \/ CompleteStoreFails(c) \/ CompleteFail(c) \/ CompleteFailFails(c)
Correct(c) ==
    \/ RetryRead(c) \/ RetryUnlock(c) \/ RetryRefuse(c) \/ RetryWrite(c)
    \/ RecordRead(c) \/ RecordWrite(c) \/ DraftRead(c) \/ DraftWrite(c)

Next ==
    \/ \E c \in Pages : Create(c) \/ Helper(c) \/ Complete(c) \/ Correct(c)
    \/ PreparationExpires \/ ServerRestart

Spec == Init /\ [][Next]_vars

-----------------------------------------------------------------------------
(* The types of the state.                                                   *)
TypeOK ==
    /\ code \in Codes /\ ob \in Obs
    /\ preparations \subseteq [id : Ids, account : {Account[c] : c \in Pages}]
    /\ issued \in 0..MaxPreparations /\ inFlight \in BOOLEAN
    /\ pc \in [Pages -> PageStates]
    /\ job \in [Pages -> [code : Codes, ob : Obs, id : 0..MaxPreparations, report : Finals,
                          batch : Codes, confirmed : BOOLEAN]]
    /\ exec \in [Pages -> [Ids -> [stage : Stages, batch : Codes]]]
    /\ batches \in Seq(Ids) /\ unblocked \in BOOLEAN

(* handleOperationBatchCreate decides on a task it read earlier, yet a       *)
(* project never has two live preparations: the check and the insertion into *)
(* operationBatchLocalPreparations are not separated by an await.            *)
OnePreparation == Cardinality(preparations) <= 1

(* Whenever the next click on "create" would be accepted, the console has no *)
(* batch of this project and no helper is about to make one, unless creation *)
(* was unblocked too early: by a page that gave up, a result without its     *)
(* code, an operator's confirmation or a draft that came too late.  And so,  *)
(* whatever is lost, closed, expired or restarted, it gets one batch at most.*)
CreationOpen ==
    /\ HandlersIdle /\ preparations = {}
    /\ code = 0 /\ ob.code = 0 /\ ob.status \notin UnconfirmedStatuses
CreatedOnce ==
    ~unblocked =>
        /\ CreationOpen => batches = <<>> /\ ~HelperRunning /\ \A c \in Pages : pc[c] # "waiting"
        /\ Len(batches) <= 1
=============================================================================
