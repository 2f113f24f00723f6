--------------------------- MODULE CandidateChange ---------------------------
(***************************************************************************)
(* Changing the candidates of one session of an exam (candidate_change.mjs *)
(* and its handlers in easy_exam_server.mjs): a page compares the roster   *)
(* of the exam platform with a new one, the difference is kept as a change *)
(* set, and a second request carries its items out, one call of the        *)
(* platform each, reads the roster back and puts the added candidates into *)
(* rooms.                                                                  *)
(***************************************************************************)
EXTENDS Integers, Sequences, FiniteSets

CONSTANTS
    Handlers,       \* requests to apply a change set that are under way at once
    Candidates,     \* permit numbers
    Masked,         \* candidates whose data the platform shows with asterisks
    MaxValue,       \* bound: different data of a candidate
    FirstRosters,   \* rosters of the platform to begin with
    Proposals,      \* bound: rosters that pages propose
    MaxChanges,     \* bound: change sets
    MaxEvents       \* bound: requests to apply, and events beside them

Values == 1..MaxValue
Blank == -2        \* a field that is empty
Data == Values \cup {Blank}
Absent == 0
Hidden == -1       \* data of which the server has the asterisks only
Rosters == [Candidates -> Data \cup {Absent}]
ReadRosters == [Candidates -> Data \cup {Absent, Hidden}]

ASSUME CandidateAssumption ==
    /\ Candidates \subseteq Nat /\ IsFiniteSet(Candidates) /\ Masked \subseteq Candidates
    /\ MaxValue \in Nat /\ FirstRosters \subseteq Rosters /\ Proposals \subseteq ReadRosters
    /\ {MaxChanges, MaxEvents} \subseteq Nat

VARIABLES
    online,    \* the roster of the session on the platform
    placed,    \* candidates who have a room there
    hasRooms,  \* the session has rooms
    started,   \* candidates who have started their exam
    ended,     \* the session is over
    local,     \* exam_candidates: the roster the server keeps
    changes,   \* candidate_change_sets with their items, oldest first
    candidateChangeInFlight,
    job,       \* per request: where it is and what it holds
    events,    \* requests to apply, changes by hand, exams begun and ended, restarts, so far
    touched,   \* history: change sets an item of which the platform has carried out
    overtaken, \* history: change sets applied on a status that had changed meanwhile
    disturbed, \* history: per change set, candidates others changed since it last read the roster
    surprised, \* history: change sets that overwrote what was not shown
    stranded   \* history: change sets left by a restart, or whose end could not be written

platform == <<online, placed, hasRooms, started, ended>>
history == <<touched, overtaken, disturbed, surprised, stranded>>
vars == <<platform, local, changes, candidateChangeInFlight, job, events, history>>

Idle == [at |-> "idle"]
NoRoster == [p \in Candidates |-> Absent]
Ids == 1..MaxChanges

Init ==
    /\ online \in FirstRosters
    /\ hasRooms \in BOOLEAN
    /\ placed = {p \in Candidates : hasRooms /\ online[p] # Absent}
    /\ started = {} /\ ended = FALSE
    /\ local = online
    /\ changes = <<>> /\ candidateChangeInFlight = {}
    /\ job = [h \in Handlers |-> Idle]
    /\ events = 0
    /\ touched = {} /\ overtaken = {} /\ surprised = {} /\ stranded = {}
    /\ disturbed = [n \in Ids |-> {}]

-----------------------------------------------------------------------------
(* Rosters and their difference.                                             *)

(* What the server reads of a candidate who is on the platform: a field that *)
(* is empty there is taken from a roster kept here, if the candidate is on   *)
(* it, and a masked one where that has it in full.                           *)
Completed(p, live, kept) ==
    CASE live = Blank -> IF kept = Absent THEN Blank ELSE kept
      [] live # Blank /\ p \in Masked -> IF kept \in Values THEN kept ELSE Hidden
      [] OTHER -> live

(* The platform's roster as the server reads it: who is on it, the platform  *)
(* says.                                                                     *)
RosterRows(live, kept) ==
    [p \in Candidates |-> IF live[p] = Absent THEN Absent ELSE Completed(p, live[p], kept[p])]

(* The roster kept here, or none when the database does not answer.          *)
Kept == {local, NoRoster}

Adds(c) == {p \in Candidates : c.before[p] = Absent /\ c.after[p] # Absent}
Deletes(c) == {p \in Candidates : c.before[p] # Absent /\ c.after[p] = Absent}
Edits(c) == {p \in Candidates : c.before[p] # c.after[p]} \ (Adds(c) \cup Deletes(c))
Items(c) == Adds(c) \cup Edits(c) \cup Deletes(c)

(* Items are carried out by operation and, within one, by permit.            *)
Rank(c, p) == CASE p \in Adds(c) -> 1 [] p \in Edits(c) -> 2 [] OTHER -> 3
ComesBefore(c, p, q) == Rank(c, p) < Rank(c, q) \/ (Rank(c, p) = Rank(c, q) /\ p < q)
IsNext(c, p, todo) == p \in todo /\ \A q \in todo \ {p} : ComesBefore(c, p, q)

(* Those whose exam has begun are not changed and not deleted.               *)
Blocked(before, after) ==
    {p \in started : before[p] # Absent /\ before[p] # after[p]}

(* A request for a preview reads the roster, compares and stores the change  *)
(* set.  A page cannot propose data it has not seen in full.                 *)
Preview(after, kept) ==
    LET before == RosterRows(online, kept) IN
    /\ Len(changes) < MaxChanges
    /\ \A p \in Candidates : after[p] = Hidden => before[p] = Hidden
    /\ after # before
    /\ changes' = Append(changes, [status |-> "waiting_review", before |-> before, after |-> after,
                                   blocked |-> Blocked(before, after)])
    /\ UNCHANGED <<platform, local, candidateChangeInFlight, job, events, history>>

-----------------------------------------------------------------------------
(* handleCandidateChangeApply.                                               *)

(* The change sets that have read the roster and lean on what they read.     *)
Watched == candidateChangeInFlight \cup {n \in DOMAIN changes : changes[n].status = "applied"}

Happens == events < MaxEvents /\ events' = events + 1
Goes(h, place) == job' = [job EXCEPT ![h].at = place]
Leaves(h) ==
    /\ job' = [job EXCEPT ![h] = Idle]
    /\ candidateChangeInFlight' = candidateChangeInFlight \ {job[h].of}

(* The change set is read in a process of its own; what it answers is looked *)
(* at when that process has ended.                                           *)
ApplyRead(h, n) ==
    /\ Happens /\ job[h].at = "idle" /\ n <= Len(changes)
    /\ job' = [job EXCEPT ![h] = [at |-> "asked", of |-> n, status |-> changes[n].status,
                                  todo |-> {}, failed |-> FALSE, read |-> NoRoster, roomed |-> TRUE]]
    /\ UNCHANGED <<platform, local, changes, candidateChangeInFlight, history>>

MayApply(n, status) ==
    /\ status \in {"waiting_review", "conflict"}
    /\ changes[n].blocked = {} /\ ~ended
    /\ n \notin candidateChangeInFlight

ApplyCheck(h) ==
    /\ job[h].at = "asked"
    /\ LET n == job[h].of IN
       IF MayApply(n, job[h].status)
       THEN /\ Goes(h, "baseline")
            /\ candidateChangeInFlight' = candidateChangeInFlight \cup {n}
            /\ overtaken' = IF changes[n].status = job[h].status THEN overtaken ELSE overtaken \cup {n}
       ELSE /\ job' = [job EXCEPT ![h] = Idle]
            /\ UNCHANGED <<candidateChangeInFlight, overtaken>>
    /\ UNCHANGED <<platform, local, changes, events, touched, disturbed, surprised, stranded>>

(* A mutant: only who is on the roster is compared.                          *)
SameCandidates(n, kept) ==
    \A p \in Candidates : (online[p] = Absent) <=> (changes[n].before[p] = Absent)

(* candidateRosterHash of what the platform shows now; whether a candidate   *)
(* has started is not in it.                                                 *)
StillBaseline(n, kept) == RosterRows(online, kept) = changes[n].before

ReadBaseline(h) ==
    /\ job[h].at = "baseline"
    /\ \E kept \in Kept :
          LET n == job[h].of IN
          /\ Goes(h, IF StillBaseline(n, kept) THEN "same" ELSE "other")
          /\ disturbed' = [disturbed EXCEPT ![n] = {}]
    /\ UNCHANGED <<platform, local, changes, candidateChangeInFlight, events,
                   touched, overtaken, surprised, stranded>>

MarkConflict(h) ==
    /\ job[h].at = "other"
    /\ changes' = [changes EXCEPT ![job[h].of].status = "conflict"]
    /\ Leaves(h)
    /\ UNCHANGED <<platform, local, events, history>>

MarkApplying(h) ==
    /\ job[h].at = "same"
    /\ LET n == job[h].of IN
       /\ changes' = [changes EXCEPT ![n].status = "applying"]
       /\ job' = [job EXCEPT ![h].at = "items", ![h].todo = Items(changes[n])]
    /\ UNCHANGED <<platform, local, candidateChangeInFlight, events, history>>

(* The platform adds whom it does not have, and changes or deletes whom it   *)
(* has.                                                                      *)
Accepts(c, p) == IF p \in Adds(c) THEN online[p] = Absent ELSE online[p] # Absent

(* The platform shows nothing of p's data but that p is on the roster.       *)
ShowsNothing(p) == online[p] # Absent /\ (p \in Masked \/ online[p] = Blank)

(* The platform's data of p is what the page was shown, as far as it shows.  *)
AsShown(c, p) == online[p] = c.before[p] \/ (ShowsNothing(p) /\ c.before[p] # Absent)

CarryOut(n, p) ==
    /\ online' = [online EXCEPT ![p] = changes[n].after[p]]
    /\ placed' = IF p \in Deletes(changes[n]) THEN placed \ {p} ELSE placed
    /\ touched' = touched \cup {n}
    /\ disturbed' = [m \in Ids |-> IF m \in Watched \ {n} THEN disturbed[m] \cup {p} ELSE disturbed[m]]
    /\ surprised' = IF AsShown(changes[n], p) \/ p \in disturbed[n] THEN surprised ELSE surprised \cup {n}

(* One call of the platform.  A call that fails may have been carried out;   *)
(* the items go on.                                                          *)
ExecuteItem(h) ==
    /\ job[h].at = "items"
    /\ \E p \in Candidates, well \in BOOLEAN :
          LET n == job[h].of IN
          /\ IsNext(changes[n], p, job[h].todo)
          /\ job' = [job EXCEPT ![h].todo = @ \ {p}, ![h].failed = @ \/ ~well]
          /\ \/ Accepts(changes[n], p) /\ CarryOut(n, p)
             \/ ~well /\ UNCHANGED <<online, placed, touched, disturbed, surprised>>
    /\ UNCHANGED <<hasRooms, started, ended, local, changes, candidateChangeInFlight, events,
                   overtaken, stranded>>

(* The roster is read back, with the proposed one in the place of the        *)
(* server's own.                                                             *)
Readback(h) ==
    /\ job[h].at = "items" /\ job[h].todo = {}
    /\ LET n == job[h].of IN
       /\ job' = [job EXCEPT ![h].at = "read", ![h].read = RosterRows(online, changes[n].after)]
       /\ disturbed' = [disturbed EXCEPT ![n] = {}]
    /\ UNCHANGED <<platform, local, changes, candidateChangeInFlight, events,
                   touched, overtaken, surprised, stranded>>

(* A mutant: what was read back is not compared.                             *)
CleanAsAnswered(h) == ~job[h].failed

Clean(h) == ~job[h].failed /\ job[h].read = changes[job[h].of].after

(* assignAddedCandidatesToExistingRooms: those who are in no room are put    *)
(* into one and looked for there; the calls may break off after any of them. *)
AssignRooms(h) ==
    /\ job[h].at = "read" /\ Clean(h) /\ Adds(changes[job[h].of]) # {}
    /\ LET added == Adds(changes[job[h].of]) IN
       \/ /\ ~hasRooms
          /\ Goes(h, "save") /\ UNCHANGED placed
       \/ /\ hasRooms
          /\ \E some \in SUBSET {p \in added : online[p] # Absent} :
                /\ placed' = placed \cup some
                /\ job' = [job EXCEPT ![h].at = "save", ![h].roomed = added \subseteq placed \cup some]
       \/ /\ job' = [job EXCEPT ![h].at = "save", ![h].roomed = FALSE] /\ UNCHANGED placed
    /\ UNCHANGED <<online, hasRooms, started, ended, local, changes, candidateChangeInFlight, events,
                   history>>

(* replace_candidates: the roster read back becomes the server's own.        *)
SaveRoster(h) ==
    /\ \/ job[h].at = "save"
       \/ job[h].at = "read" /\ ~(Clean(h) /\ Adds(changes[job[h].of]) # {})
    /\ local' = job[h].read
    /\ Goes(h, "end")
    /\ UNCHANGED <<platform, changes, candidateChangeInFlight, events, history>>

FinalStatus(h) == IF Clean(h) /\ job[h].roomed THEN "applied" ELSE "partial_failed"

Conclude(h) ==
    /\ job[h].at = "end"
    /\ changes' = [changes EXCEPT ![job[h].of].status = FinalStatus(h)]
    /\ Leaves(h)
    /\ UNCHANGED <<platform, local, events, history>>

(* A mutant: what broke off may be tried again.                              *)
AfterBreakOpen == "waiting_review"

AfterBreak == "partial_failed"

(* A mutant: the status is left as it is.                                    *)
NotedNever(n) == changes

(* The status is stored, if that can be.                                     *)
Noted(n) == [changes EXCEPT ![n].status = AfterBreak]

(* A call of the platform or of the database fails, and the handler ends.    *)
BreakOff(h) ==
    /\ \/ job[h].at \in {"baseline", "same", "other", "read", "save", "end"}
       \/ job[h].at = "items" /\ job[h].todo = {}
    /\ LET n == job[h].of IN
       \/ changes' = Noted(n) /\ UNCHANGED stranded
       \/ stranded' = stranded \cup {n} /\ UNCHANGED changes
    /\ Leaves(h)
    /\ UNCHANGED <<platform, local, events, touched, overtaken, disturbed, surprised>>

-----------------------------------------------------------------------------
(* The platform and the process.                                             *)

HandChange(p, v) ==
    /\ Happens /\ ~ended /\ v # online[p]
    /\ online' = [online EXCEPT ![p] = v]
    /\ placed' = IF v = Absent THEN placed \ {p} ELSE placed
    /\ disturbed' = [n \in Ids |-> IF n \in Watched THEN disturbed[n] \cup {p} ELSE disturbed[n]]
    /\ UNCHANGED <<hasRooms, started, ended, local, changes, candidateChangeInFlight, job,
                   touched, overtaken, surprised, stranded>>

Begin(p) ==
    /\ Happens /\ ~ended /\ online[p] # Absent /\ p \notin started
    /\ started' = started \cup {p}
    /\ UNCHANGED <<online, placed, hasRooms, ended, local, changes, candidateChangeInFlight, job, history>>

SessionEnds ==
    /\ Happens /\ ~ended /\ ended' = TRUE
    /\ UNCHANGED <<online, placed, hasRooms, started, local, changes, candidateChangeInFlight, job, history>>

ServerRestart ==
    /\ Happens
    /\ stranded' = stranded \cup candidateChangeInFlight
    /\ candidateChangeInFlight' = {}
    /\ job' = [h \in Handlers |-> Idle]
    /\ UNCHANGED <<platform, local, changes, touched, overtaken, disturbed, surprised>>

-----------------------------------------------------------------------------
Proceed(h) ==
    \/ ApplyCheck(h) \/ ReadBaseline(h) \/ MarkConflict(h) \/ MarkApplying(h) \/ ExecuteItem(h)
    \/ Readback(h) \/ AssignRooms(h) \/ SaveRoster(h) \/ Conclude(h) \/ BreakOff(h)

Next ==
    \/ \E after \in Proposals, kept \in Kept : Preview(after, kept)
    \/ \E h \in Handlers : (\E n \in Ids : ApplyRead(h, n)) \/ Proceed(h)
    \/ \E p \in Candidates : Begin(p) \/ \E v \in Data \cup {Absent} : HandChange(p, v)
    \/ SessionEnds \/ ServerRestart

Spec == Init /\ [][Next]_vars

-----------------------------------------------------------------------------
(* The types.  A request under way holds the lock of its change set, alone.  *)
Statuses == {"waiting_review", "conflict", "applying", "applied", "partial_failed"}
ChangeSets == [status : Statuses, before : ReadRosters, after : ReadRosters, blocked : SUBSET Candidates]
Jobs == {Idle} \cup
    [at : {"asked", "baseline", "same", "other", "items", "read", "save", "end"}, of : Ids, status : Statuses,
     todo : SUBSET Candidates, failed : BOOLEAN, read : ReadRosters, roomed : BOOLEAN]
Working == {h \in Handlers : job[h].at \notin {"idle", "asked"}}
JobsOK ==
    /\ job \in [Handlers -> Jobs]
    /\ \A h \in Handlers : job[h].at # "idle" => job[h].of \in DOMAIN changes
    /\ candidateChangeInFlight = {job[h].of : h \in Working}
    /\ \A g, h \in Working : job[g].of = job[h].of => g = h
ChangesOK ==
    /\ changes \in Seq(ChangeSets) /\ Len(changes) <= MaxChanges
    /\ \A n \in DOMAIN changes, p \in Candidates : changes[n].after[p] = Hidden => changes[n].before[p] = Hidden
PlatformOK ==
    /\ online \in Rosters /\ local \in ReadRosters
    /\ placed \subseteq {p \in Candidates : online[p] # Absent} /\ (placed # {} => hasRooms)
    /\ started \subseteq Candidates
TypeOK == PlatformOK /\ ChangesOK /\ JobsOK

(* A change set that can be applied (waiting for review, or in conflict with *)
(* the roster) has changed nothing on the platform, whatever broke off or    *)
(* restarted before; except one that was applied on a status read before     *)
(* another request had ended, which writes "conflict" over how it ended.     *)
OpenMeansUntouched ==
    \A n \in DOMAIN changes :
        changes[n].status \in {"waiting_review", "conflict"} => n \notin touched \ overtaken

(* An item overwrites only what its page was shown, and what others changed  *)
(* after the roster had been compared.  Where the platform shows nothing, for *)
(* it masks the data or they are empty there, the page was shown the server's *)
(* own: data that were emptied by hand are overwritten unseen.               *)
OverwritesOnlyShown == surprised = {}

(* Of an applied change set the platform has all that was proposed, each     *)
(* added candidate in a room if the session has any, but for what others     *)
(* changed since it was read back and for data that the platform masks or    *)
(* shows empty, in whose place the proposal is compared with itself.         *)
AppliedIsOnline ==
    \A n \in DOMAIN changes :
        changes[n].status = "applied" /\ n \notin overtaken =>
            \A p \in Candidates \ disturbed[n] :
                /\ online[p] = Absent <=> changes[n].after[p] = Absent
                /\ ShowsNothing(p) \/ online[p] = changes[n].after[p]
                /\ p \in Adds(changes[n]) /\ hasRooms => p \in placed

(* A change set that is stored as being applied is in the hands of one       *)
(* request, which ends in another status whatever fails on its way; only a   *)
(* restart, or an end that cannot be written, leaves it so for good.         *)
ApplyingIsHeld ==
    \A n \in DOMAIN changes :
        changes[n].status = "applying" => n \in candidateChangeInFlight \cup stranded

=============================================================================
