------------------------ MODULE OperationBatchUpdate ------------------------
(***************************************************************************)
(* Bringing the console's batch up to date with the project's              *)
(* requirements: the local update service                                  *)
(* (operation_batch_update_local_service.mjs), the pages that call it, the *)
(* helper that reads and writes the batch in the console                   *)
(* (operation_batch_update_runner.mjs), and the people who change the      *)
(* requirements and the console meanwhile.                                 *)
(*                                                                         *)
(* A page inspects the batch, shows the operator what would change, asks   *)
(* for an update with the preview's token, has its helper perform it and   *)
(* posts the helper's answer.  Reading the task and writing operationBatch *)
(* back are separate processes: every write replaces the whole object with *)
(* one derived from what the handler read (job[c].ob).                     *)
(***************************************************************************)
EXTENDS Naturals, FiniteSets

CONSTANTS
    Pages,           \* operators' browser pages, each with its own helper
    MaxEdits,        \* bound: saved requirements
    MaxHandChanges,  \* bound: changes made by hand in the console
    MaxPreviews,     \* bound: inspections that end in a preview
    Hazards          \* what may go wrong in this instance

HazardKinds == {"leave", "restart", "store", "unread"}

ASSUME UpdateAssumption ==
    /\ IsFiniteSet(Pages)
    /\ {MaxEdits, MaxHandChanges, MaxPreviews} \subseteq Nat
    /\ Hazards \subseteq HazardKinds

VARIABLES
    desired, version, \* the snapshot the requirements ask for, and their version
    ob,               \* persisted operationBatch
    previews,         \* memory: pages whose inspection preparation is live
    preparations,     \* memory: previews whose update preparation is live
    pc, job,          \* per page: the request in progress, and what its handler holds
    run,              \* per preview: what the helper does to apply it
    console,          \* the console: the batch's managed fields
    bound,            \* the changes by hand and the previews so far
    shown, lost, abandoned
                      \* history: what the console showed; the attempts whose entry a
                      \* stale write undid; the attempts whose page gave them up

task == <<desired, version, ob>>
memory == <<previews, preparations>>
history == <<shown, lost, abandoned>>
vars == <<task, memory, pc, job, run, console, bound, history>>

-----------------------------------------------------------------------------
(* A snapshot gives each managed part a value: the overview's fields, the    *)
(* personnel service, the schedules (their number).  0 is a part that is     *)
(* absent or was not read, Foreign what no requirement asks for.             *)
Parts == {"overview", "services", "schedules"}
Order == [overview |-> 1, services |-> 2, schedules |-> 3]
Foreign == 3
Asked == 1..2
Snapshots == [Parts -> 0..Foreign]
Nothing == [p \in Parts |-> 0]

(* operationBatchManagedDiff and differingManagedFields: the service counts  *)
(* only where the reference has one.                                         *)
Diff(seen, reference) ==
    {p \in Parts : seen[p] # reference[p]} \ (IF reference.services = 0 THEN {"services"} ELSE {})

(* The service of the managed snapshot stands in for one that was not read.  *)
WithService(snapshot, managed) ==
    [snapshot EXCEPT !.services = IF @ = 0 THEN managed.services ELSE @]

(* An attempt has the number of the preview it applies: a page asks once.    *)
Ids == 1..MaxPreviews
Terminal == {"succeeded", "conflict", "failed"}
Statuses == {"published", "success", "update_available", "updating", "update_failed",
             "update_conflict"}
NoPreview == [token |-> 0, version |-> 0, desired |-> Nothing, inspected |-> Nothing]
NoJob == [version |-> 0, desired |-> Nothing, services |-> FALSE, inspected |-> Nothing,
          token |-> 0,
          ob |-> [status |-> "published", managed |-> Nothing, preview |-> NoPreview,
                  attempts |-> [i \in Ids |-> "none"]]]
NoRun == [stage |-> "none", desired |-> Nothing, expected |-> Nothing, done |-> {},
          after |-> Nothing, disturbed |-> FALSE]
Visible(snapshot) == [p \in Parts \ {"services"} |-> snapshot[p]]

(* A batch whose schedules were never initialised, one that was entered by   *)
(* its code, one synchronised before services were managed, a recent one.    *)
Init ==
    /\ desired = [p \in Parts |-> 1] /\ version = 0
    /\ \E known \in {Nothing, [desired EXCEPT !.services = 0], desired} :
        ob = [NoJob.ob EXCEPT !.managed = known]
    /\ console \in {desired, [desired EXCEPT !.schedules = 0]}
    /\ ob.managed # Nothing => console = desired
    /\ previews = {} /\ preparations = {}
    /\ pc = [c \in Pages |-> "idle"] /\ job = [c \in Pages |-> NoJob]
    /\ run = [i \in Ids |-> NoRun]
    /\ bound = [hands |-> 0, previews |-> 0]
    /\ shown = {Visible(console)} /\ lost = {} /\ abandoned = {}

Goto(c, place, locals) ==
    /\ pc' = [pc EXCEPT ![c] = place]
    /\ job' = [job EXCEPT ![c] = locals]
Leave(c) == Goto(c, "idle", NoJob)

(* The task as a handler of page c reads it.                                 *)
Read(c) == [job[c] EXCEPT !.version = version, !.desired = desired, !.ob = ob]

GiveUp(attempts) == abandoned' = abandoned \cup attempts

(* A handler writes operationBatch, and undoes what was stored since it read.*)
Write(c, written) ==
    /\ ob' = written
    /\ lost' = lost \cup {i \in Ids : job[c].ob.attempts[i] # ob.attempts[i]}

-----------------------------------------------------------------------------
(* What people do: save a requirement, change the batch in the console.      *)
Edit ==
    /\ version < MaxEdits
    /\ \E p \in Parts : \E v \in Asked \ {desired[p]} : desired' = [desired EXCEPT ![p] = v]
    /\ version' = version + 1
    /\ UNCHANGED <<ob, memory, pc, job, run, console, bound, history>>

HandChange ==
    /\ bound.hands < MaxHandChanges
    /\ bound' = [bound EXCEPT !.hands = @ + 1]
    /\ \E p \in Parts : console' = [console EXCEPT ![p] = Foreign]
    /\ shown' = shown \cup {Visible(console')}
    /\ run' = [i \in Ids |-> [run[i] EXCEPT !.disturbed = run[i].stage # "none"]]
    /\ UNCHANGED <<task, memory, pc, job, lost, abandoned>>

-----------------------------------------------------------------------------
Inspecting == {c \in Pages : pc[c] \in {"inspecting", "inspected", "previewing"}}

(* POST update/preview without a preparation.  The service is read from the  *)
(* console only where it would change.                                       *)
PreviewPrepare(c) ==
    /\ pc[c] = "idle" /\ bound.previews + Cardinality(Inspecting) < MaxPreviews
    /\ previews' = previews \cup {c}
    /\ Goto(c, "inspecting",
            [NoJob EXCEPT !.version = version, !.desired = desired,
                          !.services = \/ ob.managed = Nothing
                                       \/ "services" \in Diff(ob.managed, desired)])
    /\ UNCHANGED <<task, preparations, run, console, bound, history>>

(* The helper reads the batch's page.                                        *)
Inspect(c) ==
    /\ pc[c] = "inspecting"
    /\ Goto(c, "inspected",
            [job[c] EXCEPT !.inspected = [console EXCEPT !.services =
                                              IF job[c].services THEN @ ELSE 0]])
    /\ UNCHANGED <<task, memory, run, console, bound, history>>

(* POST update/preview with the result.                                       *)
PreviewAllowed(c) ==
    LET seen == WithService(job[c].inspected, ob.managed) IN
    /\ c \in previews /\ version = job[c].version /\ desired = job[c].desired
    /\ seen.schedules <= desired.schedules
    /\ Diff(seen, desired) = {} \/ ob.managed = Nothing \/ Diff(seen, ob.managed) = {}

PreviewRead(c) ==
    /\ pc[c] = "inspected" /\ PreviewAllowed(c)
    /\ previews' = previews \ {c}
    /\ Goto(c, "previewing",
            [Read(c) EXCEPT !.inspected = WithService(@, ob.managed)])
    /\ UNCHANGED <<task, preparations, run, console, bound, history>>

PreviewRefuse(c) ==
    /\ pc[c] = "inspected" /\ ~PreviewAllowed(c)
    /\ previews' = previews \ {c}
    /\ Leave(c)
    /\ UNCHANGED <<task, preparations, run, console, bound, history>>

(* Nothing to change: the inspected snapshot becomes the managed one where   *)
(* there was none, one without the service, or another one.                  *)
PreviewAligned(c) ==
    LET current == job[c].ob
        baseline == \/ current.managed.services = 0
                    \/ Diff(job[c].inspected, current.managed) # {} IN
    /\ pc[c] = "previewing" /\ Diff(job[c].inspected, job[c].desired) = {}
    /\ Write(c, [current EXCEPT !.status = "success", !.preview = NoPreview,
                                !.managed = IF baseline THEN job[c].inspected ELSE @])
    /\ Leave(c)
    /\ UNCHANGED <<desired, version, memory, run, console, bound, shown, abandoned>>

PreviewOffer(c) ==
    LET token == bound.previews + 1 IN
    /\ pc[c] = "previewing" /\ Diff(job[c].inspected, job[c].desired) # {}
    /\ bound' = [bound EXCEPT !.previews = token]
    /\ Write(c, [job[c].ob EXCEPT !.status = "update_available",
                     !.preview = [token |-> token, version |-> job[c].version,
                                  desired |-> job[c].desired, inspected |-> job[c].inspected]])
    /\ Goto(c, "confirming", [NoJob EXCEPT !.token = token])
    /\ UNCHANGED <<desired, version, memory, run, console, shown, abandoned>>

-----------------------------------------------------------------------------
(* The operator confirms: POST update/apply with the token.  Any live        *)
(* preparation refuses the page: its token is not this page's.               *)
NobodyUpdates == preparations = {}

UpdateAsk(c) ==
    /\ pc[c] = "confirming" /\ NobodyUpdates
    /\ Goto(c, "asked", job[c])
    /\ UNCHANGED <<task, memory, run, console, bound, history>>

UpdateLocked(c) ==
    /\ pc[c] = "confirming" /\ ~NobodyUpdates
    /\ Leave(c)
    /\ UNCHANGED <<task, memory, run, console, bound, history>>

UpdateRead(c) ==
    /\ pc[c] = "asked"
    /\ Goto(c, "preparing", Read(c))
    /\ UNCHANGED <<task, memory, run, console, bound, history>>

(* Mutant: an unfinished attempt is not looked for.                          *)
UpdateAllowedBesideAttempt(c) ==
    LET preview == job[c].ob.preview IN
    /\ preview.token = job[c].token
    /\ preview.version = job[c].version /\ preview.desired = job[c].desired
    /\ job[c].ob.managed = Nothing \/ Diff(preview.inspected, job[c].ob.managed) = {}

UpdateAllowed(c) ==
    LET preview == job[c].ob.preview IN
    /\ preview.token = job[c].token
    /\ preview.version = job[c].version /\ preview.desired = job[c].desired
    /\ job[c].ob.managed = Nothing \/ Diff(preview.inspected, job[c].ob.managed) = {}
    /\ \A i \in Ids : job[c].ob.attempts[i] # "pending"

(* The attempt's number and the instruction are fixed here.                  *)
UpdatePrepare(c) ==
    LET i == job[c].token IN
    /\ pc[c] = "preparing" /\ UpdateAllowed(c)
    /\ preparations' = preparations \cup {i}
    /\ run' = [run EXCEPT ![i].desired = job[c].desired,
                          ![i].expected = job[c].ob.preview.inspected]
    /\ Goto(c, "starting", job[c])
    /\ UNCHANGED <<task, previews, console, bound, history>>

UpdateRefuse(c) ==
    /\ pc[c] = "preparing" /\ ~UpdateAllowed(c)
    /\ Leave(c)
    /\ UNCHANGED <<task, memory, run, console, bound, history>>

UpdateCommit(c) ==
    /\ pc[c] = "starting"
    /\ Write(c, [job[c].ob EXCEPT !.status = "updating", !.preview = NoPreview,
                                  !.attempts[job[c].token] = "pending"])
    /\ Goto(c, "updating", [NoJob EXCEPT !.token = job[c].token])
    /\ UNCHANGED <<desired, version, memory, run, console, bound, shown, abandoned>>

(* A page whose operator declines, whose helper fails outright or whose      *)
(* 180 s are over, or which is closed, sends nothing more.                   *)
LeavePage(c) ==
    /\ \/ pc[c] \in {"inspecting", "confirming"} /\ UNCHANGED abandoned
       \/ pc[c] = "updating" /\ "leave" \in Hazards /\ GiveUp({job[c].token})
    /\ Leave(c)
    /\ UNCHANGED <<task, memory, run, console, bound, shown, lost>>

-----------------------------------------------------------------------------
(* The helper.  The service takes part only in an update that changes it.    *)
Changes(i) == Diff(run[i].expected, run[i].desired)
Agree(i, left, right) ==
    \A p \in Parts : (p = "services" => p \in Changes(i)) => left[p] = right[p]

(* Where the run goes from its first look at the console.  Mutant: what is   *)
(* there is not compared with what was confirmed.                            *)
SavesAnything(i) ==
    /\ console.schedules <= run[i].desired.schedules
    /\ ~Agree(i, console, run[i].desired)

MaySave(i) ==
    /\ console.schedules <= run[i].desired.schedules
    /\ ~Agree(i, console, run[i].desired) /\ Agree(i, console, run[i].expected)

HelperStart(c) ==
    LET i == job[c].token IN
    /\ pc[c] = "updating" /\ run[i].stage = "none"
    /\ run' = [run EXCEPT ![i].stage = IF Agree(i, console, run[i].desired) THEN "saved"
                                       ELSE IF MaySave(i) THEN "saving" ELSE "failed"]
    /\ UNCHANGED <<task, memory, pc, job, console, bound, history>>

(* Overview, services and schedules are saved one after the other.           *)
HelperSave(i) ==
    LET todo == Changes(i) \ run[i].done IN
    /\ run[i].stage = "saving"
    /\ \E p \in todo :
        /\ \A q \in todo : Order[p] <= Order[q]
        /\ console' = [console EXCEPT ![p] = run[i].desired[p]]
        /\ run' = [run EXCEPT ![i].done = @ \cup {p},
                              ![i].stage = IF todo = {p} THEN "saved" ELSE "saving"]
    /\ shown' = shown \cup {Visible(console')}
    /\ UNCHANGED <<task, memory, pc, job, bound, lost, abandoned>>

HelperFails(i) ==
    /\ run[i].stage \in {"saving", "saved"}
    /\ run' = [run EXCEPT ![i].stage = "failed"]
    /\ UNCHANGED <<task, memory, pc, job, console, bound, history>>

(* The batch is opened again and read: this is the helper's result.          *)
HelperVerify(i) ==
    /\ run[i].stage = "saved"
    /\ run' = IF Agree(i, console, run[i].desired)
              THEN [run EXCEPT ![i].stage = "answered", ![i].after = console]
              ELSE [run EXCEPT ![i].stage = "failed"]
    /\ UNCHANGED <<task, memory, pc, job, console, bound, history>>

(* After any error the batch is read once more, if it can be.                *)
HelperReadback(i) ==
    /\ run[i].stage = "failed"
    /\ run' = [run EXCEPT ![i].stage = "answered", ![i].after = console]
    /\ UNCHANGED <<task, memory, pc, job, console, bound, history>>

HelperUnread(i) ==
    /\ "unread" \in Hazards
    /\ run[i].stage = "failed"
    /\ run' = [run EXCEPT ![i].stage = "answered"]
    /\ UNCHANGED <<task, memory, pc, job, console, bound, history>>

-----------------------------------------------------------------------------
(* POST update/apply with the preparation and the result.                    *)
CompleteRead(c) ==
    /\ pc[c] = "updating" /\ run[job[c].token].stage = "answered"
    /\ job[c].token \in preparations
    /\ Goto(c, "completing", Read(c))
    /\ UNCHANGED <<task, memory, run, console, bound, history>>

CompleteRefuse(c) ==
    /\ pc[c] = "updating" /\ run[job[c].token].stage = "answered"
    /\ job[c].token \notin preparations
    /\ GiveUp({job[c].token}) /\ Leave(c)
    /\ UNCHANGED <<task, memory, run, console, bound, shown, lost>>

(* The read-back decides, whatever the helper's status says.  Mutants: any   *)
(* read-back is a success; none is a conflict; an unread one leaves the      *)
(* attempt as it is.                                                         *)
OutcomeTrusting(i) == IF run[i].after = Nothing THEN "failed" ELSE "succeeded"
OutcomeLenient(i) ==
    IF run[i].after # Nothing /\ Agree(i, run[i].after, run[i].desired) THEN "succeeded"
    ELSE "failed"
OutcomeUndecided(i) ==
    IF run[i].after = Nothing THEN "pending"
    ELSE IF Agree(i, run[i].after, run[i].desired) THEN "succeeded"
    ELSE IF Agree(i, run[i].after, run[i].expected) THEN "failed" ELSE "conflict"

Outcome(i) ==
    IF run[i].after = Nothing THEN "failed"
    ELSE IF Agree(i, run[i].after, run[i].desired) THEN "succeeded"
    ELSE IF Agree(i, run[i].after, run[i].expected) THEN "failed" ELSE "conflict"

StatusAfter(outcome) ==
    IF outcome = "succeeded" THEN "success"
    ELSE IF outcome = "conflict" THEN "update_conflict" ELSE "update_failed"

CompleteWrite(c) ==
    LET i == job[c].token
        outcome == Outcome(i)
        current == job[c].ob IN
    /\ pc[c] = "completing" /\ current.attempts[i] # "none"
    /\ Write(c, [current EXCEPT !.status = StatusAfter(outcome), !.preview = NoPreview,
                     !.attempts[i] = outcome,
                     !.managed = IF outcome = "succeeded"
                                 THEN WithService(run[i].desired, @) ELSE @])
    /\ preparations' = preparations \ {i}
    /\ Leave(c)
    /\ UNCHANGED <<desired, version, previews, run, console, bound, shown, abandoned>>

(* An attempt that a stale write dropped cannot be concluded.                *)
CompleteMissing(c) ==
    /\ pc[c] = "completing" /\ job[c].ob.attempts[job[c].token] = "none"
    /\ Leave(c)
    /\ UNCHANGED <<task, memory, run, console, bound, history>>

(* A write fails.  Only the preparation of an update is withdrawn.           *)
StoreFails(c) ==
    /\ "store" \in Hazards
    /\ pc[c] \in {"previewing", "starting", "completing"}
    /\ preparations' = IF pc[c] = "starting" THEN preparations \ {job[c].token} ELSE preparations
    /\ IF pc[c] = "completing" THEN GiveUp({job[c].token}) ELSE UNCHANGED abandoned
    /\ Leave(c)
    /\ UNCHANGED <<task, previews, run, console, bound, shown, lost>>

-----------------------------------------------------------------------------
(* 15 minutes are over, for a page that has left.                            *)
PreparationExpires ==
    /\ \E i \in preparations :
        /\ \A c \in Pages : job[c].token # i
        /\ preparations' = preparations \ {i}
    /\ UNCHANGED <<task, previews, pc, job, run, console, bound, history>>

(* Memory and the handlers in progress are lost; pages that wait for the     *)
(* operator or their helper do not notice.                                   *)
Unnoticed == {"inspecting", "inspected", "confirming", "updating"}
ServerRestart ==
    /\ "restart" \in Hazards
    /\ previews \cup preparations # {}
    /\ previews' = {} /\ preparations' = {}
    /\ pc' = [c \in Pages |-> IF pc[c] \in Unnoticed THEN pc[c] ELSE "idle"]
    /\ job' = [c \in Pages |-> IF pc[c] \in Unnoticed THEN job[c] ELSE NoJob]
    /\ GiveUp({job[c].token : c \in {d \in Pages : pc[d] = "completing"}})
    /\ UNCHANGED <<task, run, console, bound, shown, lost>>

Preview(c) ==
    \/ PreviewPrepare(c) \/ Inspect(c) \/ PreviewRead(c) \/ PreviewRefuse(c)
    \/ PreviewAligned(c) \/ PreviewOffer(c)
Update(c) ==
    \/ UpdateAsk(c) \/ UpdateLocked(c) \/ UpdateRead(c) \/ UpdatePrepare(c)
    \/ UpdateRefuse(c) \/ UpdateCommit(c)
Helper(i) ==
    \/ HelperSave(i) \/ HelperFails(i) \/ HelperVerify(i) \/ HelperReadback(i)
    \/ HelperUnread(i)
Complete(c) ==
    \/ CompleteRead(c) \/ CompleteRefuse(c) \/ CompleteWrite(c) \/ CompleteMissing(c)
    \/ StoreFails(c)

Next ==
    \/ \E c \in Pages : Preview(c) \/ Update(c) \/ LeavePage(c) \/ HelperStart(c) \/ Complete(c)
    \/ \E i \in Ids : Helper(i)
    \/ Edit \/ HandChange \/ PreparationExpires \/ ServerRestart

(* Helpers run on (every wait of theirs has a timeout); so do the requests a *)
(* page has under way.  Nothing makes operators start or confirm an update.  *)
Fairness ==
    /\ \A i \in Ids : WF_vars(Helper(i))
    /\ \A c \in Pages : WF_vars(HelperStart(c)) /\ WF_vars(Complete(c))

Spec == Init /\ [][Next]_vars
FairSpec == Spec /\ Fairness

-----------------------------------------------------------------------------
(* The types of the state.                                                   *)
Attempts == [Ids -> {"none", "pending"} \cup Terminal]
Previews == [token : 0..MaxPreviews, version : 0..MaxEdits, desired : Snapshots,
             inspected : Snapshots]
Obs == [status : Statuses, managed : Snapshots, preview : Previews, attempts : Attempts]
TypeOK ==
    /\ desired \in [Parts -> Asked] /\ version \in 0..MaxEdits /\ ob \in Obs
    /\ previews \subseteq Pages /\ preparations \subseteq Ids
    /\ pc \in [Pages -> {"idle", "inspecting", "inspected", "previewing", "confirming",
                         "asked", "preparing", "starting", "updating", "completing"}]
    /\ job \in [Pages -> [version : 0..MaxEdits, desired : Snapshots, services : BOOLEAN,
                          inspected : Snapshots, token : 0..MaxPreviews, ob : Obs]]
    /\ run \in [Ids -> [stage : {"none", "saving", "saved", "failed", "answered"},
                        desired : Snapshots, expected : Snapshots, done : SUBSET Parts,
                        after : Snapshots, disturbed : BOOLEAN]]
    /\ console \in Snapshots
    /\ bound \in [hands : 0..MaxHandChanges, previews : 0..MaxPreviews]
    /\ lost \subseteq Ids /\ abandoned \subseteq Ids

(* The managed snapshot, which the next previews and the personnel task rely *)
(* on, was on the console's page as a whole at some moment (the service      *)
(* apart, which is not always read), however updates broke off half-way.     *)
SnapshotWasShown == ob.managed # Nothing => Visible(ob.managed) \in shown

(* Two helpers never write the batch at the same time, unless a stale write  *)
(* dropped the unfinished attempt from operationBatch.                       *)
Writing == {i \in Ids : run[i].stage \in {"saving", "saved"}}
OneWriter == lost = {} => Cardinality(Writing) <= 1

(* What an update overwrites is what its operator was shown in the preview,  *)
(* unless somebody changed the batch after the helper had looked.            *)
OverwritesOnlyConfirmed ==
    [][\A i \in Ids, p \in Parts :
          p \in run'[i].done \ run[i].done =>
              \/ console[p] = run[i].expected[p]
              \/ run[i].disturbed \/ lost # {}]_vars

(* "Nothing was changed, try again" is true: an attempt that failed saved    *)
(* nothing, unless the batch could not be read after the error or was        *)
(* changed by somebody else.                                                 *)
FailedMeansUntouched ==
    \A i \in Ids : ob.attempts[i] = "failed" =>
        run[i].done = {} \/ run[i].after = Nothing \/ run[i].disturbed \/ lost # {}

(* An attempt is concluded, unless its page gave up or a stale write undid   *)
(* its entry.                                                                *)
AttemptConcludes ==
    \A i \in Ids : ob.attempts[i] = "pending" ~>
        ob.attempts[i] # "pending" \/ i \in abandoned \cup lost
=============================================================================
