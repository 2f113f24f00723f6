------------------------- MODULE RequirementRequest -------------------------
(***************************************************************************)
(* One requirement of the requirement centre (requirement_request_db.py)   *)
(* and the project that follows it: the customer's assistant collects and  *)
(* confirms, customers ask for changes, staff edit, decide and hand over,  *)
(* and an acceptance on a project's page updates the project's task.       *)
(*                                                                         *)
(* Every request is served by a process of its own (runRequirementStore).  *)
(* Its reads are single statements outside any transaction, sqlite3 begins *)
(* one with the first write: a read is one action, and all writes with the *)
(* reads between them are one action.  What was read waits in job[c].      *)
(***************************************************************************)
EXTENDS Naturals, Sequences, FiniteSets

CONSTANTS
    Clients,      \* requests that may be in progress at a time
    Required,     \* the required fields
    Subjects,     \* the one among them that can also be given as
    SubjectsText, \* a text
    Switches,     \* watermark_enabled and copy_forbidden, on where nothing is said
    Payloads,     \* bound: the fields that a request may name
    Valueless,    \* bound: the fields that it may name without a value
    MaxVersions,  \* bound: versions stored
    MaxChanges    \* bound: changes the customer asks for

Fields == Required \cup {SubjectsText} \cup Switches

ASSUME RequirementAssumption ==
    /\ MaxVersions \in Nat /\ MaxChanges \in Nat
    /\ Subjects \in Required /\ SubjectsText \notin Required \cup Switches
    /\ Switches \cap Required = {}
    /\ Payloads \subseteq SUBSET Fields /\ Valueless \subseteq Fields

VARIABLES
    status,    \* requirement_requests.status, "none" before the first upsert
    versions,  \* requirement_versions, with what their request had read
    changes,   \* requirement_change_requests
    task,      \* the project's copy: the version its configuration was taken from
    pc, job,   \* per request: its place and what it has read
    confirmed, overtaken, contested, overlapped, brokenOff
               \* history: the version that was the latest when the customer
               \* confirmed; a hand-over was stored over a status it had not read;
               \* the changes that two requests decided at the same time; two
               \* acceptances updated the task at the same time; an acceptance
               \* ended before it did

store == <<status, versions, changes>>
history == <<confirmed, overtaken, contested, overlapped, brokenOff>>
vars == <<store, task, pc, job, history>>

-----------------------------------------------------------------------------
(* A field's value is named by the version that brought it; 0 is a missing   *)
(* or invalid one, Default what normalisation gives a switch.  The list of   *)
(* subjects, which an upsert extends, is a field whose value is new.         *)
Numbers == 0..MaxVersions
Default == MaxVersions + 1
Contents == [Fields -> 0..Default]
Changes == 1..MaxChanges

(* change: the change that is asked for or decided.  since: the versions     *)
(* stored before the second in which it was asked for.  shown, loaded,       *)
(* checked: the conflicts on the page of an acceptance, and the versions     *)
(* there were when the page was loaded and when the server looked for        *)
(* conflicts.                                                                *)
Sources == {"upsert", "staff_manual_edit", "staff_change_acceptance"}
Jobs == [change : 0..MaxChanges, since : Numbers, project : BOOLEAN, shown : SUBSET Fields,
         loaded : Numbers, checked : Numbers, base : Numbers, number : Numbers]
NoJob == [change |-> 0, since |-> 0, project |-> FALSE, shown |-> {}, loaded |-> 0,
          checked |-> 0, base |-> 0, number |-> 0]
Versions == [source : Sources, fields : Contents, named : SUBSET Fields, by : Jobs]

(* "waiting_for_customer" is need_customer_clarification and                 *)
(* reviewed_waiting_customer_confirmation, which no code tells apart.        *)
Statuses == {"none", "collecting", "pending_internal_review", "change_requested",
             "waiting_for_customer", "customer_confirmed", "ready_for_manual_execution",
             "linked_to_execution_task"}
ChangeStatuses == {"none", "pending", "accepted", "rejected"}
ChangeRequests == [status : ChangeStatuses, asked : SUBSET Fields, fields : SUBSET Fields,
                   since : Numbers]
Deciding == {"checked", "based", "numbered", "rejecting"}
Syncing == {"accepted", "syncing"}
Places == Deciding \cup Syncing \cup
    {"idle", "upserting", "changing", "loaded", "readying", "linking"}

Init ==
    /\ status = "none" /\ versions = <<>> /\ task = 0
    /\ changes = [i \in Changes |-> [status |-> "none", asked |-> {}, fields |-> {}, since |-> 0]]
    /\ pc = [c \in Clients |-> "idle"] /\ job = [c \in Clients |-> NoJob]
    /\ confirmed = 0 /\ overtaken = FALSE /\ contested = {}
    /\ overlapped = FALSE /\ brokenOff = FALSE

Latest == Len(versions)
Content(n) == IF n = 0 THEN [f \in Fields |-> 0] ELSE versions[n].fields
Pending == {i \in Changes : changes[i].status = "pending"}
Stored(source) == {n \in 1..Latest : versions[n].source = source}
Others(c, places) == {d \in Clients \ {c} : pc[d] \in places}

(* normalize_requirement fills in the subjects from their text: those of a   *)
(* payload, which then names them, and those of what is to be stored.        *)
Implied(named) == named \cup {f \in {Subjects} : SubjectsText \in named}
Normalized(content) ==
    [content EXCEPT ![Subjects] = IF @ = 0 THEN content[SubjectsText] ELSE @]

(* It also turns on the switches that a payload leaves out, and what a       *)
(* payload brings replaces what is stored; a key without a value does not.   *)
Merged(base, given, on, number) ==
    Normalized([f \in Fields |-> IF f \in on THEN Default ELSE IF f \in given THEN number ELSE base[f]])

(* Mutant: a complete requirement stays confirmed.                           *)
StatusOfKept(content) ==
    IF \E f \in Required : content[f] = 0 THEN "collecting"
    ELSE IF status = "customer_confirmed" THEN status ELSE "pending_internal_review"

(* validate_requirement decides between the two.                             *)
StatusOf(content) ==
    IF \E f \in Required : content[f] = 0 THEN "collecting" ELSE "pending_internal_review"

Goto(c, place, locals) ==
    /\ pc' = [pc EXCEPT ![c] = place]
    /\ job' = [job EXCEPT ![c] = locals]
Leave(c) == Goto(c, "idle", NoJob)

(* The insertion fails when the number exists: PRIMARY KEY(request_id, version). *)
Free(number) == number = Latest + 1
AddVersion(c, source, content, named) ==
    /\ Free(job[c].number)
    /\ versions' = Append(versions, [source |-> source, fields |-> content,
                                     named |-> named, by |-> job[c]])

-----------------------------------------------------------------------------
(* Mutant: the versions are not read in descending order.                    *)
UpsertReadOldest(c) ==
    /\ pc[c] = "idle" /\ Latest < MaxVersions
    /\ Goto(c, "upserting", [NoJob EXCEPT !.base = IF Latest = 0 THEN 0 ELSE 1,
                                          !.number = Latest + 1])
    /\ UNCHANGED <<store, task, history>>

(* create_or_update_requirement: what is present replaces the latest         *)
(* version's value; the number follows the version that was read.            *)
UpsertRead(c) ==
    /\ pc[c] = "idle" /\ Latest < MaxVersions
    /\ Goto(c, "upserting", [NoJob EXCEPT !.base = Latest, !.number = Latest + 1])
    /\ UNCHANGED <<store, task, history>>

UpsertStore(c) ==
    /\ pc[c] = "upserting"
    /\ \E named \in Payloads, empty \in SUBSET Valueless :
        LET content == Merged(Content(job[c].base), Implied(named), Switches \ (named \cup empty),
                              job[c].number)
        IN  /\ AddVersion(c, "upsert", content, named)
            /\ status' = StatusOf(content)
    /\ Leave(c)
    /\ UNCHANGED <<changes, task, history>>

(* Someone else stored that number.                                          *)
NumberTaken(c) ==
    /\ pc[c] \in {"upserting", "numbered"} /\ job[c].number <= Latest
    /\ Leave(c)
    /\ UNCHANGED <<store, task, history>>

(* record_customer_confirmation, whatever the status.                        *)
Confirm ==
    /\ versions # <<>>
    /\ status' = "customer_confirmed" /\ confirmed' = Latest
    /\ UNCHANGED <<versions, changes, task, pc, job, overtaken, contested, overlapped,
                   brokenOff>>

(* request_customer_clarification, mark_reviewed_waiting_customer_confirmation *)
Mark ==
    /\ versions # <<>>
    /\ status' = "waiting_for_customer"
    /\ UNCHANGED <<versions, changes, task, pc, job, history>>

-----------------------------------------------------------------------------
(* create_change_request: its time is taken when the request begins, in      *)
(* whole seconds, so that versions stored just before may count as later; it *)
(* is stored unless an identical one is pending.                             *)
BeingAsked == {job[c].change : c \in {d \in Clients : pc[d] = "changing"}}
AskedFor == {i \in Changes : changes[i].status # "none"} \cup BeingAsked

ChangeBegin(c) ==
    /\ pc[c] = "idle" /\ versions # <<>>
    /\ \E i \in Changes :
        /\ AskedFor = 1..(i - 1)
        /\ \E since \in 0..Latest : Goto(c, "changing", [NoJob EXCEPT !.change = i, !.since = since])
    /\ UNCHANGED <<store, task, history>>

(* The payload is normalised: whatever is asked, its fields hold both        *)
(* switches, and the subjects if their text is among them (but not if it     *)
(* stands in a record of changes, where a switch counts as left out).        *)
ChangeStore(c) ==
    /\ pc[c] = "changing"
    /\ \E asked \in Payloads : \E fields \in {asked, Implied(asked)} :
        changes' = [changes EXCEPT ![job[c].change] =
                       [status |-> "pending", asked |-> asked, fields |-> fields \cup Switches,
                        since |-> job[c].since]]
    /\ status' = "change_requested"
    /\ Leave(c)
    /\ UNCHANGED <<versions, task, history>>

(* _manual_edit_conflict_fields: the fields of the change that staff edited  *)
(* after it was asked for, by the time at which the edit was stored.         *)
Conflicts(i) ==
    changes[i].fields
        \cap UNION {versions[n].named : n \in {m \in Stored("staff_manual_edit") :
                                                   m > changes[i].since}}

-----------------------------------------------------------------------------
(* staff_edit_requirement and accept_change_request read the version to      *)
(* start from first and the number to store later.                           *)
EditRead(c) ==
    /\ pc[c] = "idle" /\ versions # <<>> /\ Latest < MaxVersions
    /\ Goto(c, "based", [NoJob EXCEPT !.base = Latest])
    /\ UNCHANGED <<store, task, history>>

NumberRead(c) ==
    /\ pc[c] = "based" /\ Latest < MaxVersions
    /\ Goto(c, "numbered", [job[c] EXCEPT !.number = Latest + 1])
    /\ UNCHANGED <<store, task, history>>

(* An edit fills fields or empties fields that have a value.                 *)
EditStore(c) ==
    /\ pc[c] = "numbered" /\ job[c].change = 0
    /\ \E named \in Payloads \ {{}}, value \in {0, job[c].number} :
        LET base == Content(job[c].base)
            content == Merged(base, named, {}, value)
        IN  /\ \A f \in named : base[f] # value
            /\ AddVersion(c, "staff_manual_edit", content, named)
            /\ status' = StatusOf(content)
    /\ Leave(c)
    /\ UNCHANGED <<changes, task, history>>

-----------------------------------------------------------------------------
(* A page whose detail shows conflicts: only a project's page warns of them  *)
(* and then asks to override.                                                *)
AcceptLoad(c) ==
    /\ pc[c] = "idle"
    /\ \E i \in Pending :
        /\ Conflicts(i) # {}
        /\ Goto(c, "loaded", [NoJob EXCEPT !.change = i, !.project = TRUE,
                                           !.shown = Conflicts(i), !.loaded = Latest])
    /\ UNCHANGED <<store, task, history>>

(* Mutants: a change that was decided is accepted again; edits since are not *)
(* looked for.                                                               *)
MayAcceptDecided(i, override) ==
    /\ changes[i].status # "none"
    /\ Conflicts(i) = {} \/ override
MayAcceptOverEdits(i, override) == changes[i].status = "pending"

MayAccept(i, override) ==
    /\ changes[i].status = "pending"
    /\ Conflicts(i) = {} \/ override

Check(c, place, i, locals) ==
    /\ Goto(c, place, locals)
    /\ contested' = contested \cup {j \in {i} : \E d \in Others(c, Deciding) : job[d].change = i}
    /\ UNCHANGED <<store, task, confirmed, overtaken, overlapped, brokenOff>>

(* accept_change_request looks at the change and at the edits made since.    *)
(* Without a warning the page posts no override, whichever page it is.       *)
AcceptCheck(c) ==
    /\ Latest < MaxVersions
    /\ \/ /\ pc[c] = "loaded" /\ MayAccept(job[c].change, TRUE)
          /\ Check(c, "checked", job[c].change, [job[c] EXCEPT !.checked = Latest])
       \/ /\ pc[c] = "idle"
          /\ \E i \in Changes, project \in BOOLEAN :
                /\ MayAccept(i, FALSE)
                /\ Check(c, "checked", i, [NoJob EXCEPT !.change = i, !.project = project,
                                                        !.checked = Latest])

AcceptRefuse(c) ==
    /\ pc[c] = "loaded" /\ ~MayAccept(job[c].change, TRUE)
    /\ Leave(c)
    /\ UNCHANGED <<store, task, history>>

AcceptRead(c) ==
    /\ pc[c] = "checked"
    /\ Goto(c, "based", [job[c] EXCEPT !.base = Latest])
    /\ UNCHANGED <<store, task, history>>

AfterAcceptance(content) ==
    IF \E j \in Changes : changes'[j].status = "pending" THEN "change_requested"
    ELSE StatusOf(content)

(* _requirement_from_change: what the change gives a value to takes it, what *)
(* was left out is switched on, and subjects may be removed to the last.     *)
FromChange(change, base, empty, emptied, number) ==
    Merged([f \in Fields |-> IF f \in emptied THEN 0 ELSE base[f]],
           change.fields \ (empty \cup emptied), Switches \ change.asked, number)

AcceptStore(c) ==
    /\ pc[c] = "numbered" /\ job[c].change # 0
    /\ LET i == job[c].change IN
       \E empty \in SUBSET Valueless, emptied \in SUBSET ({Subjects} \cap changes[i].asked) :
           LET content == FromChange(changes[i], Content(job[c].base), empty, emptied, job[c].number)
           IN  /\ AddVersion(c, "staff_change_acceptance", content, changes[i].asked)
               /\ changes' = [changes EXCEPT ![i].status = "accepted"]
               /\ status' = AfterAcceptance(content)
    /\ IF job[c].project THEN Goto(c, "accepted", NoJob) ELSE Leave(c)
    /\ overlapped' = (overlapped \/ (job[c].project /\ Others(c, Syncing) # {}))
    /\ UNCHANGED <<task, confirmed, overtaken, contested, brokenOff>>

(* Mutant: the task gets the requirement read before the acceptance.         *)
SyncReadBefore(c) ==
    /\ pc[c] = "accepted"
    /\ Goto(c, "syncing", [NoJob EXCEPT !.base = Latest - 1])
    /\ UNCHANGED <<store, task, history>>

(* handleProjectRequirementChangeAccept: the answer holds the requirement as *)
(* it is after the commit, and update_config stores its latest version.      *)
SyncRead(c) ==
    /\ pc[c] = "accepted"
    /\ Goto(c, "syncing", [NoJob EXCEPT !.base = Latest])
    /\ UNCHANGED <<store, task, history>>

SyncTask(c) ==
    /\ pc[c] = "syncing"
    /\ task' = job[c].base
    /\ Leave(c)
    /\ UNCHANGED <<store, history>>

(* The server restarts or update_config fails; the change is no longer       *)
(* pending, so that the page cannot ask again.                               *)
BreakOff(c) ==
    /\ pc[c] \in Syncing
    /\ brokenOff' = TRUE
    /\ Leave(c)
    /\ UNCHANGED <<store, task, confirmed, overtaken, contested, overlapped>>

(* reject_change_request                                                     *)
RejectRead(c) ==
    /\ pc[c] = "idle"
    /\ \E i \in Pending : Check(c, "rejecting", i, [NoJob EXCEPT !.change = i])

RejectStore(c) ==
    /\ pc[c] = "rejecting"
    /\ changes' = [changes EXCEPT ![job[c].change].status = "rejected"]
    /\ status' = IF \E j \in Changes : changes'[j].status = "pending" THEN status
                 ELSE "pending_internal_review"
    /\ Leave(c)
    /\ UNCHANGED <<versions, task, history>>

-----------------------------------------------------------------------------
(* mark_ready_for_manual_execution and link_task check the status, then      *)
(* write theirs.                                                             *)
HandOver == [readying |-> [from |-> "customer_confirmed", to |-> "ready_for_manual_execution"],
             linking |-> [from |-> "ready_for_manual_execution",
                          to |-> "linked_to_execution_task"]]

HandOverRead(c) ==
    /\ pc[c] = "idle"
    /\ \E place \in DOMAIN HandOver :
        /\ status = HandOver[place].from
        /\ Goto(c, place, NoJob)
    /\ UNCHANGED <<store, task, history>>

HandOverStore(c) ==
    /\ pc[c] \in DOMAIN HandOver
    /\ status' = HandOver[pc[c]].to
    /\ overtaken' = (overtaken \/ status # HandOver[pc[c]].from)
    /\ Leave(c)
    /\ UNCHANGED <<versions, changes, task, confirmed, contested, overlapped, brokenOff>>

-----------------------------------------------------------------------------
Next ==
    \/ Confirm \/ Mark
    \/ \E c \in Clients :
        \/ UpsertRead(c) \/ UpsertStore(c) \/ NumberTaken(c)
        \/ ChangeBegin(c) \/ ChangeStore(c)
        \/ EditRead(c) \/ NumberRead(c) \/ EditStore(c)
        \/ AcceptLoad(c) \/ AcceptCheck(c) \/ AcceptRefuse(c) \/ AcceptRead(c)
        \/ AcceptStore(c) \/ SyncRead(c) \/ SyncTask(c) \/ BreakOff(c)
        \/ RejectRead(c) \/ RejectStore(c)
        \/ HandOverRead(c) \/ HandOverStore(c)

Spec == Init /\ [][Next]_vars

-----------------------------------------------------------------------------
(* Types of all variables.                                                   *)
TypeOK ==
    /\ status \in Statuses
    /\ versions \in Seq(Versions) /\ Latest \in Numbers
    /\ changes \in [Changes -> ChangeRequests]
    /\ task \in 0..Latest
    /\ pc \in [Clients -> Places] /\ job \in [Clients -> Jobs]
    /\ confirmed \in 0..Latest /\ contested \subseteq Changes
    /\ {overtaken, overlapped, brokenOff} \subseteq BOOLEAN

SwitchedOn(n, f) ==
    versions[n].source # "staff_manual_edit" /\ f \in Switches /\ versions[n].fields[f] = Default

(* A version changes no field but those its request names, although every    *)
(* request reads the version before it outside the transaction that stores   *)
(* its own; except that an upsert and an acceptance switch on what their     *)
(* request did not name, even what staff had switched off, and that a staff  *)
(* edit or an acceptance that read its base before another version was       *)
(* stored, and its number after, drops the other one's fields.  An upsert,   *)
(* whose number follows its base, never does, and an edit switches nothing.  *)
OnlyNamedFieldsChange ==
    \A n \in 1..Latest :
        \/ \A f \in Fields \ Implied(versions[n].named) :
              versions[n].fields[f] = Content(n - 1)[f] \/ SwitchedOn(n, f)
        \/ versions[n].source # "upsert" /\ versions[n].by.base < n - 1

(* What is ready or linked is what the customer confirmed: every new version *)
(* and every change withdraws the confirmation (unless it came between the   *)
(* check and the write of the hand-over).                                    *)
ReadyWasConfirmed ==
    status \in {"ready_for_manual_execution", "linked_to_execution_task"}
        => confirmed = Latest \/ overtaken

(* A change is applied by one version at most, and by none when it was       *)
(* rejected, unless two people decided it at the same time.                  *)
AppliedOnce ==
    \A i \in Changes \ contested :
        LET by == {n \in Stored("staff_change_acceptance") : versions[n].by.change = i}
        IN  /\ Cardinality(by) = IF changes[i].status = "accepted" THEN 1 ELSE 0

(* A field whose edit by staff was stored in the second in which the         *)
(* customer asked for a change, or later, is overwritten by its acceptance   *)
(* (which also sets what the customer did not name) only if the page said    *)
(* so; except by edits stored after the server had looked, and, once a page  *)
(* has warned of one field, by edits stored after the page was loaded.       *)
EditsOverwrittenKnowingly ==
    \A v \in Stored("staff_change_acceptance"), n \in Stored("staff_manual_edit") :
        LET by == versions[v].by
        IN  changes[by.change].since < n /\ n < v
                => \/ versions[n].named \cap changes[by.change].fields \subseteq by.shown
                   \/ n > by.checked
                   \/ by.shown # {} /\ n > by.loaded

(* Once the acceptances made on the project's page have come to their end,   *)
(* the task has a version that contains them all (unless one broke off, or   *)
(* two overlapped, where the older may be stored last).                      *)
TaskHasAccepted ==
    \/ brokenOff \/ overlapped
    \/ \E c \in Clients : pc[c] \in Syncing
    \/ \A n \in Stored("staff_change_acceptance") : versions[n].by.project => task >= n

=============================================================================
