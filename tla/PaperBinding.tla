---------------------------- MODULE PaperBinding ----------------------------
(***************************************************************************)
(* Binding papers to the formal session of an exam and reminding of what   *)
(* is not bound (easy_exam_server.mjs, paper_binding.mjs,                  *)
(* paper_bind_reminder.mjs).  Every whole hour one pass binds papers for   *)
(* the exams of the next day and a second one mails reminders; operators   *)
(* start a binding by hand at any time.  All of them keep their state in   *)
(* the configuration of the task, which they read, change and write back   *)
(* in separate steps.                                                      *)
(***************************************************************************)
EXTENDS Integers

CONSTANTS
    Last,         \* the requirements of the task are 0..Last
    Courses,      \* courses of each of its exams
    Scheduler,    \* the chain of hourly passes
    Pages,        \* requests by operators that are under way at once
    FirstExams,   \* arrangements of the exams to begin with
    Starts,       \* hours at which an exam may start
    Window,       \* hours before the start in which papers are bound
    DueFrom,      \* by the start: the hour from which a reminder is due
    MaxClock,     \* bound: hours
    MaxEvents     \* bound: requests by operators, new arrangements, failures and restarts

Requirements == 0..Last
Processes == Pages \cup {Scheduler}
NoSession == 0
Sessions == 1..(Last + 1 + MaxEvents)
Exams == [session : Sessions \cup {NoSession}, start : Starts]

ASSUME PaperAssumption ==
    /\ Last \in Nat /\ MaxClock \in Nat /\ MaxEvents \in Nat
    /\ Window \in Nat /\ Starts \subseteq Nat /\ DueFrom \in [Starts -> Int]
    /\ Scheduler \notin Pages
    /\ FirstExams \subseteq
         [Requirements -> [session : (1..(Last + 1)) \cup {NoSession}, start : Starts]]

VARIABLES
    config,    \* paperFormBinds and paperBindReminders of the task's configuration
    exam,      \* per requirement: its formal session and its start
    offered,   \* courses for which the platform's active papers hold one
    bound,     \* per session of the platform: courses that have papers there
    clock,     \* the hour
    up,        \* the server runs
    job,       \* per process: where it is and what it holds
    events,
    mailed,    \* reminders that reached their readers, by requirement and arrangement
    again,     \* history: those that reached them more than once
    forgotten, \* history: reminders whose "sent" was never stored, or written over
    dangling,  \* history: requirements whose binding ended, or was written over, unrecorded
    lookedAt,  \* history: reminders a pass has dealt with
    halfSeen   \* history: sessions taken for bound while a course had no paper

server == <<config, up, job>>
world == <<exam, offered, bound, clock>>
history == <<again, forgotten, dangling, lookedAt, halfSeen>>
vars == <<server, world, events, mailed, history>>

NoExam == [session |-> NoSession, start |-> 0]
NoConfig ==
    [binds |-> [r \in Requirements |-> [status |-> "pending", of |-> NoSession]],
     reminders |-> [r \in Requirements |-> [status |-> "none", of |-> NoExam]]]
NoTask == [config |-> NoConfig, exam |-> [r \in Requirements |-> NoExam]]
NoEntry == [kind |-> "none", status |-> "none", last |-> FALSE]
Idle == [at |-> "idle", pass |-> "bind", r |-> 0, now |-> 0, task |-> NoTask, of |-> NoExam,
         left |-> {}, entry |-> NoEntry, held |-> NoConfig]

Init ==
    /\ config = NoConfig
    /\ exam \in FirstExams
    /\ offered = {} /\ bound = [s \in Sessions |-> {}]
    /\ clock = 0 /\ up = TRUE /\ events = 0
    /\ job = [p \in Processes |-> Idle]
    /\ mailed = {} /\ again = {} /\ forgotten = {} /\ dangling = {} /\ lookedAt = {}
    /\ halfSeen = {}

Task == [config |-> config, exam |-> exam]
Happens == events < MaxEvents /\ events' = events + 1
Becomes(p, j) == job' = [job EXCEPT ![p] = j]
At(p, place) == job[p].at = place
Goes(p, place) == Becomes(p, [job[p] EXCEPT !.at = place])

-----------------------------------------------------------------------------
(* What a pass decides, on the task it has read and at the hour it began.    *)

ShouldAttempt(task, r, now) ==
    LET left == task.exam[r].start - now IN
    /\ task.config.binds[r].status \notin {"success", "running"}
    /\ task.exam[r].session # NoSession
    /\ left > 0 /\ left <= Window

(* Mutant: a success for whichever session.                                  *)
PaperBoundOfAny(task, r) == task.config.binds[r].status = "success"

PaperBound(task, r) ==
    LET b == task.config.binds[r] IN b.status = "success" /\ b.of = task.exam[r].session

(* Mutant: what was sent is not looked for.                                  *)
NeverSent(task, r) == FALSE

AlreadySent(task, r) == task.config.reminders[r] = [status |-> "sent", of |-> task.exam[r]]

MayRemind(e, now) == e.session # NoSession /\ DueFrom[e.start] <= now /\ now < e.start

ReminderDue(task, r, now) ==
    MayRemind(task.exam[r], now) /\ ~PaperBound(task, r) /\ ~AlreadySent(task, r)

-----------------------------------------------------------------------------
(* updatePaperFormBindState, updatePaperBindReminderState: the task is read, *)
(* the whole array is written by update_config, which reads the whole        *)
(* configuration and writes it back, and the task is read again.             *)

Store(j, kind, status) ==
    [j EXCEPT !.at = "get", !.entry = [kind |-> kind, status |-> status, last |-> FALSE]]
StoreLast(j, kind, status) ==
    [j EXCEPT !.at = "get", !.entry = [kind |-> kind, status |-> status, last |-> TRUE]]

Value(j) ==
    [status |-> j.entry.status,
     of |-> CASE j.entry.kind = "reminders"  -> j.of
              [] j.entry.status = "success"  -> j.of.session
              [] OTHER                       -> NoSession]

StoreGet(p) ==
    /\ At(p, "get")
    /\ Becomes(p, [job[p] EXCEPT !.at = "merge",
                                 !.held = [NoConfig EXCEPT ![job[p].entry.kind] =
                                             [config[job[p].entry.kind] EXCEPT ![job[p].r] = Value(job[p])]]])
    /\ UNCHANGED <<config, up, world, events, mailed, history>>

StoreMerge(p) ==
    /\ At(p, "merge")
    /\ Becomes(p, [job[p] EXCEPT
           !.at = "write",
           !.held = [config EXCEPT ![job[p].entry.kind] = job[p].held[job[p].entry.kind]]])
    /\ UNCHANGED <<config, up, world, events, mailed, history>>

Own(p, kind, r) == job[p].entry.kind = kind /\ job[p].r = r
Concludes(entry) == entry.kind = "binds" /\ entry.status # "running"

(* Reminders whose "sent" is written over by an older or another value; the  *)
(* same reminder sent again by its own pass is not among them.               *)
Overwritten(p) ==
    {r \in Requirements :
        /\ config.reminders[r].status = "sent"
        /\ job[p].held.reminders[r] # config.reminders[r]
        /\ Own(p, "reminders", r) => job[p].of # config.reminders[r].of}

Reverted(p) ==
    {r \in Requirements :
        job[p].held.binds[r] # config.binds[r] /\ ~Own(p, "binds", r)}

StoreWrite(p) ==
    /\ At(p, "write")
    /\ config' = job[p].held
    /\ forgotten' = forgotten \cup {<<r, config.reminders[r].of>> : r \in Overwritten(p)}
    /\ dangling' = (dangling \ {r \in {job[p].r} : Concludes(job[p].entry)}) \cup Reverted(p)
    /\ Goes(p, "return")
    /\ UNCHANGED <<up, world, events, mailed, again, lookedAt, halfSeen>>

-----------------------------------------------------------------------------
(* The course of a pass, and of a request by an operator.                    *)

(* After requirement r: the next one, the second pass, or the next hour.     *)
Passed(j) ==
    CASE j.r < Last -> [j EXCEPT !.at = "deciding", !.r = @ + 1, !.entry = NoEntry,
                                 !.of = NoExam, !.held = NoConfig, !.left = {}]
      [] j.r = Last /\ j.pass = "bind" -> [Idle EXCEPT !.at = "reading", !.pass = "remind", !.now = j.now]
      [] OTHER -> Idle

Left(p) == IF p = Scheduler THEN Passed(job[p]) ELSE Idle

(* scheduleNextPaperBindingCheck: a pass begins on the hour, unless the one  *)
(* before is still at work.                                                  *)
Tick ==
    /\ clock < MaxClock /\ clock' = clock + 1
    /\ job' = IF up /\ At(Scheduler, "idle")
              THEN [job EXCEPT ![Scheduler] = [Idle EXCEPT !.at = "reading", !.now = clock']]
              ELSE job
    /\ UNCHANGED <<config, up, exam, offered, bound, events, mailed, history>>

ReadTask ==
    /\ At(Scheduler, "reading")
    /\ Becomes(Scheduler, [job[Scheduler] EXCEPT !.at = "deciding", !.task = Task])
    /\ UNCHANGED <<config, up, world, events, mailed, history>>

(* (The task that was read is kept while a requirement is left.)             *)
Begun(j) ==
    Store([j EXCEPT !.of = j.task.exam[j.r], !.task = IF j.r < Last THEN @ ELSE NoTask],
          "binds", "running")

DecideBinding ==
    LET j == job[Scheduler] IN
    /\ At(Scheduler, "deciding") /\ j.pass = "bind"
    /\ Becomes(Scheduler, IF ShouldAttempt(j.task, j.r, j.now) THEN Begun(j) ELSE Passed(j))
    /\ UNCHANGED <<config, up, world, events, mailed, history>>

(* The project has no login for the platform.                                *)
NoLogin ==
    LET j == job[Scheduler] IN
    /\ At(Scheduler, "deciding") /\ j.pass = "bind" /\ ShouldAttempt(j.task, j.r, j.now) /\ Happens
    /\ Becomes(Scheduler, Passed(j))
    /\ UNCHANGED <<config, up, world, mailed, history>>

(* handleTaskStepRetry of "paper_form_bind".                                 *)
Retry(p, r) ==
    /\ up /\ At(p, "idle") /\ Happens
    /\ Becomes(p, Store([Idle EXCEPT !.r = r, !.of = exam[r]], "binds", "running"))
    /\ UNCHANGED <<config, up, world, mailed, history>>

(* bindPapersToFormalSession: papers for all courses are found first, among  *)
(* the active ones or, where an operator asks for it, among all.             *)
Select(p) ==
    LET j == job[p]
        found == {f \in SUBSET Courses : offered \subseteq f /\ (p = Scheduler => f = offered)}
    IN
    /\ At(p, "selecting")
    /\ IF j.of.session = NoSession
       THEN Becomes(p, StoreLast(j, "binds", "failed"))
       ELSE \E f \in found :
              Becomes(p, IF f = Courses THEN [j EXCEPT !.at = "posting", !.left = Courses]
                                        ELSE [j EXCEPT !.at = "detecting"])
    /\ UNCHANGED <<config, up, world, events, mailed, history>>

AfterPost(j, c) ==
    IF j.left = {c} THEN Store([j EXCEPT !.left = {}], "binds", "success")
                    ELSE [j EXCEPT !.left = @ \ {c}]

Binds(p, c) == bound' = [bound EXCEPT ![job[p].of.session] = @ \cup {c}]

Post(p, c) ==
    /\ At(p, "posting") /\ c \in job[p].left
    /\ Binds(p, c)
    /\ Becomes(p, AfterPost(job[p], c))
    /\ UNCHANGED <<config, up, exam, offered, clock, events, mailed, history>>

(* detectSessionPaperBindings: what was bound by hand counts.  One paper on  *)
(* the session's list is enough; the courses are looked at one by one only   *)
(* when the list cannot be read (or is empty, and then there is none).       *)
PaperListed(s) == bound[s] # {}

(* Mutant: any paper will do.                                                *)
SomeBound(s) == bound[s] # {}

AllBound(s) == bound[s] = Courses

Detected(p, found) ==
    LET j == job[p] IN
    /\ Becomes(p, IF found THEN Store(j, "binds", "success")
                  ELSE IF j.pass = "bind" THEN Store(j, "binds", "failed")
                  ELSE Store(j, "reminders", "sending"))
    /\ UNCHANGED <<config, up, world, mailed, again, forgotten, dangling, lookedAt>>

Detect(p) ==
    LET s == job[p].of.session IN
    /\ At(p, "detecting") /\ Detected(p, PaperListed(s))
    /\ halfSeen' = halfSeen \cup {t \in {s} : PaperListed(t) /\ ~AllBound(t)}
    /\ UNCHANGED events

DetectByCourse(p) ==
    /\ At(p, "detecting") /\ Happens /\ Detected(p, AllBound(job[p].of.session))
    /\ UNCHANGED halfSeen

(* A call of the platform fails: a binding is then stored as failed, a       *)
(* reminder is mailed without the last look.                                 *)
AfterFailure(j) ==
    IF j.pass = "bind" THEN StoreLast([j EXCEPT !.left = {}], "binds", "failed")
                       ELSE Store(j, "reminders", "sending")

CallFails(p) ==
    /\ job[p].at \in {"selecting", "posting", "detecting"} /\ Happens
    /\ \/ UNCHANGED bound
       \/ At(p, "posting") /\ \E c \in job[p].left : Binds(p, c)
    /\ Becomes(p, AfterFailure(job[p]))
    /\ UNCHANGED <<config, up, exam, offered, clock, mailed, history>>

(* runScheduledPaperBindRemindersOnce.                                       *)
DecideReminder ==
    LET j == job[Scheduler]
        e == j.task.exam[j.r]
    IN
    /\ At(Scheduler, "deciding") /\ j.pass = "remind"
    /\ IF ReminderDue(j.task, j.r, j.now)
       THEN /\ Becomes(Scheduler, [j EXCEPT !.at = "detecting", !.of = e, !.task = NoTask])
            /\ UNCHANGED lookedAt
       ELSE /\ Becomes(Scheduler, Passed(j))
            /\ lookedAt' = lookedAt \cup {k \in {<<j.r, e>>} : MayRemind(e, j.now)}
    /\ UNCHANGED <<config, up, world, events, mailed, again, forgotten, dangling, halfSeen>>

Reminder(p) == <<job[p].r, job[p].of>>
Delivers(p) ==
    /\ mailed' = mailed \cup {Reminder(p)}
    /\ again' = again \cup ({Reminder(p)} \cap mailed)

Mail ==
    /\ At(Scheduler, "mailing")
    /\ Delivers(Scheduler)
    /\ Becomes(Scheduler, Store(job[Scheduler], "reminders", "sent"))
    /\ UNCHANGED <<config, up, world, events, forgotten, dangling, lookedAt, halfSeen>>

(* The mail fails; it may have been delivered none the less.                 *)
MailFails ==
    /\ At(Scheduler, "mailing") /\ Happens
    /\ \/ UNCHANGED <<mailed, again, forgotten>>
       \/ Delivers(Scheduler) /\ forgotten' = forgotten \cup {Reminder(Scheduler)}
    /\ Becomes(Scheduler, StoreLast(job[Scheduler], "reminders", "failed"))
    /\ UNCHANGED <<config, up, world, dangling, lookedAt, halfSeen>>

-----------------------------------------------------------------------------
(* What follows an entry that is stored, and one that is not.                *)

(* The second pass goes on with the task as it is read after the storing (of *)
(* the binding it has found, when no reminder is needed).                    *)
Fresh(j) ==
    IF j.pass = "remind" /\ j.entry.status # "not_needed" THEN [j EXCEPT !.task = Task] ELSE j
Rested(j) == [j EXCEPT !.entry = NoEntry, !.held = NoConfig]
StoredNext(p) ==
    LET j == Rested(Fresh(job[p]))
        status == job[p].entry.status
    IN  CASE status = "running"                        -> [j EXCEPT !.at = "selecting"]
          [] status = "sending"                        -> [j EXCEPT !.at = "mailing"]
          [] status = "success" /\ j.pass = "remind"   -> Store(j, "reminders", "not_needed")
          [] OTHER -> IF p = Scheduler THEN Passed(j) ELSE Idle

StoreReturn(p) ==
    /\ At(p, "return")
    /\ Becomes(p, StoredNext(p))
    /\ lookedAt' = lookedAt \cup
         {k \in {Reminder(p)} : job[p].entry.status \in {"sent", "not_needed"}}
    /\ UNCHANGED <<config, up, world, events, mailed, again, forgotten, dangling, halfSeen>>

(* Mutant: a result that could not be stored is let go.                      *)
UnstoredDropped(p) == Left(p)

UnstoredNext(p) ==
    LET j == Rested(job[p])
        entry == job[p].entry
        reminding == j.pass = "remind"
    IN  CASE ~reminding /\ Concludes(entry) /\ ~entry.last -> StoreLast(j, "binds", "failed")
          [] reminding /\ entry.status \in {"success", "not_needed"} -> Store(j, "reminders", "sending")
          [] reminding /\ entry.status = "sent" -> StoreLast(j, "reminders", "failed")
          [] reminding /\ entry.status \in {"sending", "failed"} -> Idle
          [] OTHER -> Left(p)

(* An entry that is not stored, or stored but not read back.                 *)
StoreFails(p) ==
    LET entry == job[p].entry IN
    /\ job[p].at \in {"get", "merge", "write", "return"} /\ Happens
    /\ Becomes(p, UnstoredNext(p))
    /\ forgotten' = forgotten \cup {k \in {Reminder(p)} : entry.kind = "reminders" /\ entry.status = "sent"}
    /\ dangling' = dangling \cup
         {r \in {job[p].r} : job[p].pass = "bind" /\ (entry.last \/ entry.status = "running")}
    /\ UNCHANGED <<config, up, world, mailed, again, lookedAt, halfSeen>>

(* The task cannot be read: the pass is over.                                *)
ReadFails ==
    /\ At(Scheduler, "reading") /\ Happens
    /\ Becomes(Scheduler, Passed([job[Scheduler] EXCEPT !.r = Last]))
    /\ UNCHANGED <<config, up, world, mailed, history>>

InRun(p) == job[p].pass = "bind" /\ job[p].at \notin {"idle", "reading", "deciding"}

Crash ==
    /\ up /\ Happens
    /\ up' = FALSE
    /\ job' = [p \in Processes |-> Idle]
    /\ forgotten' = forgotten \cup
         {Reminder(p) : p \in {q \in Processes : /\ job[q].entry.kind = "reminders"
                                                /\ job[q].entry.status = "sent"}}
    /\ dangling' = dangling \cup {job[p].r : p \in {q \in Processes : InRun(q)}}
    /\ UNCHANGED <<config, world, mailed, again, lookedAt, halfSeen>>

Restart ==
    /\ ~up /\ up' = TRUE
    /\ UNCHANGED <<config, job, world, events, mailed, history>>

-----------------------------------------------------------------------------
(* The platform and the people.                                              *)

Offer(c) ==
    /\ c \notin offered /\ offered' = offered \cup {c}
    /\ UNCHANGED <<server, exam, bound, clock, events, mailed, history>>

BindByHand(r, c) ==
    /\ exam[r].session # NoSession
    /\ bound' = [bound EXCEPT ![exam[r].session] = @ \cup {c}]
    /\ UNCHANGED <<server, exam, offered, clock, events, mailed, history>>

(* The formal session is created anew, or the exam is put off.               *)
NewSession(r) ==
    /\ Happens
    /\ exam' = [exam EXCEPT ![r].session = Last + 1 + events']
    /\ UNCHANGED <<server, offered, bound, clock, mailed, history>>

PutOff(r, start) ==
    /\ start # exam[r].start /\ Happens
    /\ exam' = [exam EXCEPT ![r].start = start]
    /\ UNCHANGED <<server, offered, bound, clock, mailed, history>>

-----------------------------------------------------------------------------
Storing(p) == StoreGet(p) \/ StoreMerge(p) \/ StoreWrite(p) \/ StoreReturn(p) \/ StoreFails(p)
Binding(p) == Select(p) \/ Detect(p) \/ DetectByCourse(p) \/ CallFails(p) \/ \E c \in Courses : Post(p, c)
Scheduling == ReadTask \/ ReadFails \/ DecideBinding \/ NoLogin \/ DecideReminder \/ Mail \/ MailFails

Next ==
    \/ \E p \in Processes : Storing(p) \/ Binding(p)
    \/ Scheduling
    \/ \E p \in Pages, r \in Requirements : Retry(p, r)
    \/ Tick \/ Crash \/ Restart
    \/ \E c \in Courses : Offer(c)
    \/ \E r \in Requirements, c \in Courses : BindByHand(r, c)
    \/ \E r \in Requirements : NewSession(r) \/ \E s \in Starts : PutOff(r, s)

Spec == Init /\ [][Next]_vars

-----------------------------------------------------------------------------
Configs ==
    [binds : [Requirements -> [status : {"pending", "running", "success", "failed"},
                               of : Sessions \cup {NoSession}]],
     reminders : [Requirements -> [status : {"none", "sending", "sent", "failed", "not_needed"},
                                   of : Exams \cup {NoExam}]]]
Tasks == [config : Configs, exam : [Requirements -> Exams \cup {NoExam}]]
Entries == [kind : {"none", "binds", "reminders"}, last : BOOLEAN,
            status : {"none", "running", "success", "failed", "sending", "sent", "not_needed"}]
Places == {"idle", "reading", "deciding", "selecting", "posting", "detecting", "mailing",
           "get", "merge", "write", "return"}
Jobs == [at : Places, pass : {"bind", "remind"}, r : Requirements, now : 0..MaxClock, task : Tasks,
         of : Exams \cup {NoExam}, left : SUBSET Courses, entry : Entries, held : Configs]
Reminders == Requirements \X (Exams \cup {NoExam})

TypeOK ==
    /\ config \in Configs /\ exam \in [Requirements -> Exams] /\ offered \subseteq Courses
    /\ bound \in [Sessions -> SUBSET Courses] /\ clock \in 0..MaxClock /\ up \in BOOLEAN
    /\ job \in [Processes -> Jobs] /\ events \in 0..MaxEvents
    /\ mailed \subseteq Reminders /\ again \subseteq mailed /\ forgotten \subseteq Reminders
    /\ dangling \subseteq Requirements /\ lookedAt \subseteq Reminders /\ halfSeen \subseteq Sessions

(* A reminder for an exam (its session and its start) is mailed once, unless *)
(* its "sent" was never stored (a crash, a failed write, a mail that failed  *)
(* after delivery), or was written over by a process that had read the       *)
(* configuration before, or by the reminder for another arrangement.         *)
RemindedOnce == again \subseteq forgotten

(* What is stored as bound is bound: papers for every course are on that     *)
(* session, however calls failed and whoever stored it, unless one paper on  *)
(* the session's list was once taken for all of them.                        *)
PapersOn(s) == bound[s] = Courses \/ s \in halfSeen
SuccessIsBound ==
    \A r \in Requirements :
        config.binds[r].status = "success" => PapersOn(config.binds[r].of)

(* A binding stored as running is being carried out, unless a process ended  *)
(* without storing its end or was written over.  (The hourly pass leaves a   *)
(* running one alone for ever.)                                              *)
RunningIsRun ==
    \A r \in Requirements :
        config.binds[r].status = "running" =>
            r \in dangling \/ \E p \in Processes : InRun(p) /\ job[p].r = r

(* An exam a reminder pass has dealt with has its papers, or somebody was    *)
(* told, whatever the binding pass has left undone, the session has been     *)
(* created anew meanwhile or a stale configuration was written; again unless *)
(* one paper was taken for all.                                              *)
CoveredOnceLookedAt ==
    \A k \in lookedAt : k \in mailed \/ PapersOn(k[2].session)
=============================================================================
