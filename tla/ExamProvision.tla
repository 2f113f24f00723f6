--------------------------- MODULE ExamProvision ---------------------------
(***************************************************************************)
(* An exam on the exam platform and its record in the task                 *)
(* (easy_exam_server.mjs with course_session_binding.mjs,                  *)
(* course_creation.mjs, course_change.mjs, session_change.mjs,             *)
(* session_sync.mjs, session_deletion.mjs; task_state_db.py).  Requests    *)
(* create its sessions and courses, change them, take over what was        *)
(* changed on the platform, import candidates, arrange rooms and delete it *)
(* all: each is a series of calls to the platform and to the database,     *)
(* without any lock.                                                       *)
(***************************************************************************)
EXTENDS Integers, Sequences, FiniteSets

CONSTANTS
    Requests,      \* requests to the server that are under way at once
    Subjects,      \* the requirement has the courses 1..Subjects
    Variants,      \* names a course may be given
    Values,        \* names and times of a session
    RoomCounts,    \* numbers of rooms candidates may be arranged in
    MaxExams,      \* bound: serial numbers of exams in the codes of courses (99 in the code)
    MaxNumbers,    \* bound: numbers of an exam's courses in them (99 in the code)
    Budgets,       \* bound: how often each operation is requested, per scenario
    FirstTasks,    \* tasks to begin with: "new", "made"
    MaxMishaps     \* bound: failed calls, restarts, changes by hand, courses of other projects

Operations == {"create", "change", "sync", "course", "import", "rooms", "open", "delete", "bind", "erase"}
Kinds == {"formal", "trial"}
Things == Kinds \cup {"courses"}
First == 0                    \* of the values, of the variants, and of the sizes
Names == (1..Subjects) \X Variants
NoCode == <<0, 0>>
NoSession == 0
Foreign == <<0, First>>       \* the name of another project's course

ASSUME ProvisionAssumption ==
    /\ Subjects \in Nat \ {0} /\ MaxExams \in Nat \ {0} /\ MaxNumbers \in Nat \ {0} /\ MaxMishaps \in Nat
    /\ First \in Variants /\ First \in Values /\ Variants \subseteq Nat /\ Values \subseteq Nat
    /\ RoomCounts \subseteq Nat \ {0}
    /\ Budgets \subseteq [Operations -> Nat] /\ FirstTasks \subseteq {"new", "made"}

VARIABLES
    sessions,     \* the sessions the platform was asked to create, in order
    tenant,       \* its courses, of this project and of others
    there,        \* the task exists
    rows,         \* exam_sessions: the sessions of the task as it records them
    courses,      \* courses of its configuration
    stepCourses,  \* courses in the result of the step course_create
    paperBind,    \* status of the step paper_bind
    change,       \* status of the step session_change
    history,      \* changes in the result of the step session_change
    job,          \* per request: what it does, where it is and what it holds
    left,         \* requests still to come
    mishaps,
    done,         \* history: changes that were logged
    overtaken,    \* history: those logged while another request held an older log, or erased
    boundFor,     \* history: the session for which the courses were bound last
    crossed,      \* history: things on which two requests worked at once
    unsure,       \* history: things recorded amid an overlap or a mishap, and not synchronised since
    uncounted,    \* history: likewise for the numbers of candidates and rooms
    cut,          \* history: sessions created by a request that failed before it recorded them
    remade        \* history: courses created although the platform had them

platform == <<sessions, tenant>>
task == <<there, rows, courses, stepCourses, paperBind, change, history>>
ghosts == <<done, overtaken, boundFor, crossed, unsure, uncounted, cut, remade>>
vars == <<platform, task, job, left, mishaps, ghosts>>

NoRow == [id |-> NoSession, value |-> First, entries |-> 0, rooms |-> 0]
NoRows == [k \in Kinds |-> NoRow]
NoJob == [op |-> "none", at |-> "idle", kind |-> "formal", id |-> NoSession, of |-> NoSession,
          rows |-> NoRows, seen |-> NoRow, to |-> First, courses |-> {}, held |-> {},
          todo |-> {}, log |-> {}, number |-> 0, alone |-> TRUE]
Session(k) == [kind |-> k, value |-> First, entries |-> 0, rooms |-> 0, there |-> TRUE, bound |-> {}]
Course(i, code) == [name |-> <<i, First>>, code |-> code]
MadeCourses == {Course(i, <<1, i>>) : i \in 1..Subjects}
MadeRows == [k \in Kinds |-> [NoRow EXCEPT !.id = IF k = "formal" THEN 1 ELSE 2]]

(* A task whose requirement was just accepted, or one that was carried out.  *)
Init ==
    /\ \E first \in FirstTasks :
         IF first = "new"
         THEN /\ sessions = <<>> /\ tenant = {} /\ rows = NoRows
              /\ courses = {Course(i, NoCode) : i \in 1..Subjects}
              /\ stepCourses = {} /\ paperBind = "pending" /\ boundFor = NoSession
         ELSE /\ sessions = <<[Session("formal") EXCEPT !.bound = {c.code : c \in MadeCourses}],
                              Session("trial")>>
              /\ tenant = {[name |-> c.name, code |-> c.code, own |-> TRUE] : c \in MadeCourses}
              /\ rows = MadeRows
              /\ courses = MadeCourses /\ stepCourses = MadeCourses
              /\ paperBind = "success" /\ boundFor = 1
    /\ there = TRUE /\ change = "pending" /\ history = {}
    /\ job = [p \in Requests |-> NoJob]
    /\ left \in Budgets /\ mishaps = 0
    /\ done = {} /\ overtaken = {} /\ crossed = {} /\ unsure = {} /\ uncounted = {}
    /\ cut = {} /\ remade = {}

-----------------------------------------------------------------------------
At(p, place) == job[p].at = place
Doing(p, op) == job[p].op = op
Becomes(p, j) == job' = [job EXCEPT ![p] = j]
Goes(p, place) == Becomes(p, [job[p] EXCEPT !.at = place])
Ends(p) == Becomes(p, NoJob)
Happens == mishaps < MaxMishaps /\ mishaps' = mishaps + 1

SessionThere(s) == s \in DOMAIN sessions /\ sessions[s].there
Row(j) == j.rows[j.kind]
Target(p) == Row(job[p]).id
Coded(cs) == {c \in cs : c.code # NoCode}

(* taskCoursesForChange.                                                     *)
Stored == IF Coded(courses) # {} THEN Coded(courses) ELSE Coded(stepCourses)

(* What a request may write, on the platform or in the record.               *)
Touches(j) ==
    CASE j.op \in {"create", "delete"}          -> Things
      [] j.op = "open"                          -> Kinds
      [] j.op = "sync" /\ j.kind = "formal"     -> {"formal", "courses"}
      [] j.op = "sync" /\ j.kind = "trial"      -> {"trial"}
      [] j.op \in {"change", "import", "rooms"} -> {j.kind}
      [] j.op \in {"course", "bind"}            -> {"courses"}
      [] OTHER                                  -> {}

Writes(j) == j.op \in {"change", "sync", "course"}

Begins(p, j) ==
    LET met == {q \in Requests \ {p} : Touches(job[q]) \cap Touches(j) # {}}
        shared == UNION {Touches(job[q]) \cap Touches(j) : q \in met}
    IN
    /\ At(p, "idle") /\ there /\ left[j.op] > 0
    /\ left' = [left EXCEPT ![j.op] = @ - 1]
    /\ job' = [q \in Requests |-> IF q = p THEN [j EXCEPT !.alone = met = {}, !.number = left[j.op]]
                                  ELSE [job[q] EXCEPT !.alone = @ /\ q \notin met]]
    /\ crossed' = crossed \cup shared
    /\ unsure' = unsure \cup shared
    /\ uncounted' = uncounted \cup (shared \cap Kinds)
    /\ UNCHANGED <<platform, task, mishaps, done, overtaken, boundFor, cut, remade>>

(* A request that writes a step or the configuration of a deleted task ends. *)
Checked == {"pinning", "pinned", "marking", "made", "known", "persisting", "created", "toBind",
            "bound", "logging", "syncing", "toRename", "storing", "refusing"}
TaskGone(p) ==
    /\ job[p].at \in Checked /\ ~there
    /\ Ends(p)
    /\ UNCHANGED <<platform, task, left, mishaps, ghosts>>

Write(p, place) == At(p, place) /\ there

-----------------------------------------------------------------------------
(* handleCreateJob, runYikaoApiCreationJob: the login is fixed in the whole  *)
(* configuration as it was read, then the formal session and the trial are   *)
(* created, courses are made and bound to the formal session.                *)

Create(p) == Begins(p, [NoJob EXCEPT !.op = "create", !.at = "pinning", !.courses = courses])

PinRead(p) ==
    /\ Write(p, "pinning")
    /\ Becomes(p, [job[p] EXCEPT !.at = "pinned", !.held = courses])
    /\ UNCHANGED <<platform, task, left, mishaps, ghosts>>

PinWrite(p) ==
    /\ Write(p, "pinned")
    /\ courses' = job[p].held
    /\ Becomes(p, [job[p] EXCEPT !.at = "marking", !.held = {}])
    /\ UNCHANGED <<platform, there, rows, stepCourses, paperBind, change, history, left, mishaps, ghosts>>

Mark(p) ==
    /\ Write(p, "marking") /\ Goes(p, "posting")
    /\ UNCHANGED <<platform, task, left, mishaps, ghosts>>

(* ensureSessionCreationOptions, enableSessionVideoRecording.                *)
Configure(p) ==
    /\ At(p, "configuring") /\ Goes(p, "recording")
    /\ UNCHANGED <<platform, task, left, mishaps, ghosts>>

(* Mutant: the trial is recorded in the place of the formal session.         *)
RowOfAny(j) == "formal"

RowOf(j) == j.kind

Record(p) ==
    /\ At(p, "recording")
    /\ rows' = [rows EXCEPT ![RowOf(job[p])] = [NoRow EXCEPT !.id = job[p].id]]
    /\ Goes(p, "made")
    /\ UNCHANGED <<platform, there, courses, stepCourses, paperBind, change, history, left, mishaps, ghosts>>

Made(p) ==
    LET j == job[p] IN
    /\ Write(p, "made")
    /\ Becomes(p, IF j.kind = "formal" THEN [j EXCEPT !.at = "marking", !.kind = "trial", !.of = j.id, !.id = NoSession]
                                       ELSE [j EXCEPT !.at = "known", !.id = NoSession])
    /\ UNCHANGED <<platform, task, left, mishaps, ghosts>>

(* The step of the courses begins anew, without the result of an earlier one.*)
Known(p) ==
    /\ Write(p, "known")
    /\ stepCourses' = {}
    /\ Becomes(p, [job[p] EXCEPT !.at = "listing", !.held = Coded(courses)])
    /\ UNCHANGED <<platform, there, rows, courses, paperBind, change, history, left, mishaps, ghosts>>

-----------------------------------------------------------------------------
(* ensureFormalCoursesCreated: the project's own courses are used again,     *)
(* the others get codes: serial numbers of the group the project has on the  *)
(* platform, or the first group that is free.                                *)

OnTenant(c) == \E t \in tenant : t.name = c.name /\ t.code = c.code
TenantCodes == {t.code : t \in tenant}

ComesBefore(m, n) == m[1] < n[1] \/ (m[1] = n[1] /\ m[2] < n[2])
Earliest(S) == CHOOSE n \in S : \A m \in S \ {n} : ComesBefore(n, m)
Rank(n, S) == Cardinality({m \in S : ComesBefore(m, n)}) + 1
FirstOf(S) == CHOOSE n \in S : \A m \in S : n <= m
Nth(k, S) == CHOOSE n \in S : Cardinality({m \in S : m <= n}) = k

Own(cs) == (CHOOSE c \in cs : c.name = Earliest({d.name : d \in cs})).code[1]

Free(s, taken) == {i \in 1..MaxNumbers : <<s, i>> \notin taken}

GroupsFor(pending, verified, taken) ==
    IF verified # {} THEN {s \in {Own(verified)} : Cardinality(Free(s, taken)) >= Cardinality(pending)}
    ELSE {s \in 1..MaxExams : 1..Cardinality(pending) \subseteq Free(s, taken)}

Allocated(pending, s, taken) ==
    {[name |-> n, code |-> <<s, Nth(Rank(n, pending), Free(s, taken))>>] : n \in pending}

Verified(j) == {c \in j.held : OnTenant(c)}

(* A step of a creation, or of a binding, that failed, loses its result.     *)
Coursing == {"known", "listing", "creating", "persisting", "created"}
StepFails(p) ==
    /\ paperBind' = IF there /\ (job[p].at \in {"binding", "bound"} \/ (At(p, "toBind") /\ Doing(p, "create")))
                    THEN "failed" ELSE paperBind
    /\ stepCourses' = IF there /\ job[p].at \in Coursing THEN {} ELSE stepCourses
    /\ Ends(p)
    /\ UNCHANGED <<there, rows, courses, change, history>>

(* The request goes on with what is to be made, unless the numbers run out.  *)
Planned(p, listed) ==
    LET j == job[p]
        verified == Verified(j)
        codes == {t.code : t \in listed}
        requested == {c.name : c \in j.courses}
        reused == {c \in verified : c.name \in requested}
        kept == {c \in j.courses : /\ c.code \in codes /\ OnTenant(c)
                                   /\ c.name \notin {d.name : d \in reused}}
        pending == requested \ {c.name : c \in reused \cup kept}
        taken == codes \cup {c.code : c \in verified}
        groups == GroupsFor(pending, verified, taken)
        settled(at, made) == Becomes(p, [j EXCEPT !.at = at, !.held = {}, !.todo = pending,
                                                  !.courses = reused \cup kept \cup made])
    IN
    \/ pending = {} /\ settled("persisting", {}) /\ UNCHANGED task
    \/ pending # {} /\ groups # {} /\ UNCHANGED task
       /\ settled("creating", Allocated(pending, FirstOf(groups), taken))
    \/ pending # {} /\ groups = {} /\ StepFails(p)

List(p) ==
    /\ At(p, "listing") /\ Planned(p, tenant)
    /\ UNCHANGED <<platform, left, mishaps, ghosts>>

(* The list cannot be read: each code is asked for when its turn comes.      *)
ListFails(p) ==
    /\ At(p, "listing") /\ Happens /\ Planned(p, {})
    /\ UNCHANGED <<platform, left, ghosts>>

(* createCourseWithAutoIncrement: a code that is taken gives way to the next.*)
NextSerials(code) == {s \in code[1]..MaxExams : <<s, code[2]>> \notin TenantCodes}
Turn(j) == CHOOSE c \in j.courses : c.name = Earliest(j.todo)
Creating(j) == [Turn(j) EXCEPT !.code[1] = FirstOf(NextSerials(Turn(j).code))]

(* What was created until then is not recorded.                              *)
NumbersRunOut(p) ==
    /\ At(p, "creating") /\ NextSerials(Turn(job[p]).code) = {}
    /\ StepFails(p)
    /\ unsure' = unsure \cup {"courses"}
    /\ UNCHANGED <<platform, left, mishaps, done, overtaken, boundFor, crossed, uncounted, cut, remade>>

Persist(p) ==
    /\ Write(p, "persisting")
    /\ courses' = job[p].courses
    /\ Goes(p, "created")
    /\ UNCHANGED <<platform, there, rows, stepCourses, paperBind, change, history, left, mishaps, ghosts>>

CoursesDone(p) ==
    /\ Write(p, "created")
    /\ stepCourses' = job[p].courses
    /\ Goes(p, "toBind")
    /\ UNCHANGED <<platform, there, rows, courses, paperBind, change, history, left, mishaps, ghosts>>

-----------------------------------------------------------------------------
(* bindCoursesToFormalSession, by a creation or alone (handleTaskStepRetry). *)

Bind(p) ==
    Begins(p, [NoJob EXCEPT !.op = "bind", !.at = "toBind", !.of = rows["formal"].id, !.courses = Stored])

(* Mutant: what was bound before is passed over, whatever it was bound to.   *)
ToBindStill(j) == {c.code : c \in j.courses} \ UNION {sessions[s].bound : s \in DOMAIN sessions}

ToBind(j) == {c.code : c \in j.courses}

BindMark(p) ==
    LET codes == ToBind(job[p]) IN
    /\ Write(p, "toBind")
    /\ paperBind' = "running"
    /\ Becomes(p, [job[p] EXCEPT !.at = IF codes = {} THEN "bound" ELSE "binding", !.todo = codes])
    /\ UNCHANGED <<platform, there, rows, courses, stepCourses, change, history, left, mishaps, ghosts>>

BindDone(p) ==
    /\ Write(p, "bound")
    /\ paperBind' = "success" /\ boundFor' = job[p].of
    /\ Ends(p)
    /\ UNCHANGED <<platform, there, rows, courses, stepCourses, change, history, left, mishaps, done,
                   overtaken, crossed, unsure, uncounted, cut, remade>>

BindRefused(p) ==
    /\ At(p, "binding") /\ ~SessionThere(job[p].of)
    /\ StepFails(p)
    /\ UNCHANGED <<platform, left, mishaps, ghosts>>

-----------------------------------------------------------------------------
(* handleSessionChange: the platform is changed, then the record as it was   *)
(* read is written with the new value; what the platform refuses is logged.  *)

ReadRows(k) == [NoRows EXCEPT ![k] = rows[k]]
Recorded(k) == rows[k].id # NoSession

Change(p, k, v) ==
    /\ Recorded(k)
    /\ Begins(p, [NoJob EXCEPT !.op = "change", !.at = "looking", !.kind = k, !.rows = ReadRows(k),
                               !.log = history, !.to = v])

(* The value the platform shows, or the recorded one where it cannot be read.*)
Looked(p, value) ==
    IF value = job[p].to THEN Ends(p) ELSE Goes(p, "putting")

ChangeLook(p) ==
    LET s == Target(p) IN
    /\ At(p, "looking") /\ Doing(p, "change")
    /\ Looked(p, IF SessionThere(s) THEN sessions[s].value ELSE Row(job[p]).value)
    /\ UNCHANGED <<platform, task, left, mishaps, ghosts>>

ChangeRefused(p) ==
    /\ At(p, "putting") /\ ~SessionThere(Target(p))
    /\ Goes(p, "refusing")
    /\ UNCHANGED <<platform, task, left, mishaps, ghosts>>

(* The log of a failure is the one read at the beginning.                    *)
Refuse(p) ==
    /\ Write(p, "refusing")
    /\ history' = job[p].log /\ change' = "failed"
    /\ Ends(p)
    /\ UNCHANGED <<platform, there, rows, courses, stepCourses, paperBind, left, mishaps, ghosts>>

(* Mutant: the numbers are those the platform had before.                    *)
SavedBefore(j) == [Row(j) EXCEPT !.value = IF j.op = "change" THEN j.to ELSE @]

(* updateTaskSessionProgress and the same in handleSessionChange: the whole  *)
(* row is written, from the row that was read.                               *)
Saved(j) ==
    CASE j.op = "change" -> [Row(j) EXCEPT !.value = j.to]
      [] j.op = "rooms"  -> [Row(j) EXCEPT !.entries = j.seen.entries, !.rooms = j.to]
      [] j.op = "import" -> [Row(j) EXCEPT !.entries = j.seen.entries,
                                           !.rooms = IF j.seen.rooms # 0 THEN j.seen.rooms ELSE @]

(* A change goes on with the log as it is after its write.                   *)
Save(p) ==
    LET j == job[p] IN
    /\ At(p, "saving")
    /\ rows' = [rows EXCEPT ![j.kind] = Saved(j)]
    /\ IF j.op = "change"
       THEN Becomes(p, [j EXCEPT !.at = "logging", !.log = IF there THEN history ELSE @])
       ELSE Ends(p)
    /\ UNCHANGED <<platform, there, courses, stepCourses, paperBind, change, history, left, mishaps, ghosts>>

Entry(j) == <<j.op, j.number>>

(* appendSessionChangeHistory (of the mutant: the newest entry only).        *)
OnlyNewest(j) == {Entry(j)}

WithEntry(j) == j.log \cup {Entry(j)}

Log(p) ==
    LET j == job[p] IN
    /\ Write(p, "logging")
    /\ history' = WithEntry(j) /\ change' = "success"
    /\ done' = done \cup {Entry(j)}
    /\ overtaken' = IF \E q \in Requests \ {p} : Writes(job[q]) THEN overtaken \cup {Entry(j)} ELSE overtaken
    /\ unsure' = IF j.op = "sync" /\ j.alone THEN unsure \ {j.kind} ELSE unsure
    /\ Ends(p)
    /\ UNCHANGED <<platform, there, rows, courses, stepCourses, paperBind, left, mishaps,
                   boundFor, crossed, uncounted, cut, remade>>

(* The retry of the failed step of changes: a step without a result.         *)
Erase ==
    /\ there /\ change = "failed" /\ left["erase"] > 0
    /\ left' = [left EXCEPT !["erase"] = @ - 1]
    /\ change' = "pending" /\ history' = {}
    /\ overtaken' = overtaken \cup history
    /\ UNCHANGED <<platform, there, rows, courses, stepCourses, paperBind, job, mishaps, done,
                   boundFor, crossed, unsure, uncounted, cut, remade>>

-----------------------------------------------------------------------------
(* handleSessionSyncApply: what the platform shows is taken over.            *)

Sync(p, k) ==
    /\ Recorded(k)
    /\ Begins(p, [NoJob EXCEPT !.op = "sync", !.at = "looking", !.kind = k, !.rows = ReadRows(k),
                               !.held = courses])

(* mergeCourseRecords, with the courses of the session.                      *)
Inventory(s) == {[name |-> t.name, code |-> t.code] : t \in {u \in tenant : u.code \in sessions[s].bound}}
SameCourse(c, found) == c.code = found.code \/ (c.code = NoCode /\ c.name = found.name)
Merged(cs, found) == {c \in cs : ~\E f \in found : SameCourse(c, f)} \cup found

Compared(p, found) ==
    LET j == job[p]
        s == Target(p)
        merged == Merged(j.held, found)
    IN
    /\ At(p, "looking") /\ Doing(p, "sync") /\ SessionThere(s)
    /\ IF sessions[s].value = Row(j).value /\ (j.kind = "trial" \/ merged = j.held)
       THEN Ends(p) /\ unsure' = IF j.alone THEN unsure \ {j.kind} ELSE unsure
       ELSE /\ Becomes(p, [j EXCEPT !.at = "syncing", !.seen.value = sessions[s].value,
                                    !.held = {}, !.courses = merged])
            /\ UNCHANGED unsure
    /\ UNCHANGED <<platform, task, left, done, overtaken, boundFor, crossed, uncounted, cut, remade>>

SyncLook(p) == Compared(p, Inventory(Target(p))) /\ UNCHANGED mishaps

(* The session's courses cannot be read.                                     *)
InventoryFails(p) == Happens /\ Compared(p, {})

SyncRefused(p) ==
    /\ \/ At(p, "looking") /\ Doing(p, "sync") /\ ~SessionThere(Target(p))
       \/ Write(p, "syncing") /\ rows[job[p].kind].id # Target(p)
    /\ Ends(p)
    /\ UNCHANGED <<platform, task, left, mishaps, ghosts>>

(* sync_session.                                                             *)
SyncWrite(p) ==
    LET j == job[p] IN
    /\ Write(p, "syncing") /\ rows[j.kind].id = Target(p)
    /\ rows' = [rows EXCEPT ![j.kind].value = j.seen.value]
    /\ courses' = IF j.kind = "formal" THEN j.courses ELSE courses
    /\ Becomes(p, [j EXCEPT !.at = "logging", !.courses = {}, !.log = history])
    /\ UNCHANGED <<platform, there, stepCourses, paperBind, change, history, left, mishaps, ghosts>>

-----------------------------------------------------------------------------
(* handleCourseChange: courses get other names, their codes stay.            *)

Rename(p, names) ==
    /\ Recorded("formal") /\ Stored # {}
    /\ Begins(p, [NoJob EXCEPT !.op = "course", !.at = "snapshots", !.log = history,
                               !.courses = {[name |-> <<c.name[1], names[c.code]>>, code |-> c.code] : c \in Stored}])

Renamed(j) == {c.code : c \in {d \in j.courses : ~OnTenant(d)}}

Snapshots(p) ==
    LET todo == Renamed(job[p]) IN
    /\ At(p, "snapshots")
    /\ IF todo = {} THEN Ends(p) ELSE Becomes(p, [job[p] EXCEPT !.at = "toRename", !.todo = todo])
    /\ UNCHANGED <<platform, task, left, mishaps, ghosts>>

RenameMark(p) ==
    /\ Write(p, "toRename")
    /\ change' = "running" /\ history' = job[p].log
    /\ Goes(p, "renaming")
    /\ UNCHANGED <<platform, there, rows, courses, stepCourses, paperBind, left, mishaps, ghosts>>

RenameStore(p) ==
    /\ Write(p, "storing")
    /\ courses' = job[p].courses
    /\ Becomes(p, [job[p] EXCEPT !.at = "logging", !.courses = {}])
    /\ UNCHANGED <<platform, there, rows, stepCourses, paperBind, change, history, left, mishaps, ghosts>>

-----------------------------------------------------------------------------
(* handleCandidateImport, handleRoomsAuto, syncTaskDetailSessionState.       *)

(* Columns beyond the usual need the session's personal fields, which are    *)
(* written with all the rest of the session as it was read.                  *)
Import(p, k) ==
    \E place \in {"detail", "entering"} :
        /\ Recorded(k)
        /\ Begins(p, [NoJob EXCEPT !.op = "import", !.at = place, !.kind = k, !.rows = ReadRows(k)])

Detail(p) ==
    /\ At(p, "detail") /\ SessionThere(Target(p))
    /\ Becomes(p, [job[p] EXCEPT !.at = "personal", !.seen.value = sessions[Target(p)].value])
    /\ UNCHANGED <<platform, task, left, mishaps, ghosts>>

Counted(j, s) == [j EXCEPT !.seen = [NoRow EXCEPT !.entries = sessions[s].entries, !.rooms = sessions[s].rooms]]

ImportCount(p) ==
    /\ At(p, "reading") /\ SessionThere(Target(p))
    /\ Becomes(p, [Counted(job[p], Target(p)) EXCEPT !.at = "saving"])
    /\ UNCHANGED <<platform, task, left, mishaps, ghosts>>

Rooms(p, k, n) ==
    /\ Recorded(k)
    /\ Begins(p, [NoJob EXCEPT !.op = "rooms", !.at = "counting", !.kind = k, !.rows = ReadRows(k), !.to = n])

(* Rooms there are are cleared first, when that is confirmed.                *)
RoomsCount(p) ==
    LET s == Target(p) IN
    /\ At(p, "counting") /\ SessionThere(s)
    /\ \/ /\ sessions[s].entries > 0
          /\ Becomes(p, [Counted(job[p], s) EXCEPT
                            !.at = IF sessions[s].rooms > 0 THEN "clearing" ELSE "arranging"])
       \/ /\ sessions[s].entries = 0 \/ sessions[s].rooms > 0
          /\ Ends(p)
    /\ UNCHANGED <<platform, task, left, mishaps, ghosts>>

Open(p) ==
    Begins(p, [NoJob EXCEPT !.op = "open", !.at = "visiting", !.rows = rows,
                            !.todo = {k \in Kinds : Recorded(k)}])

Visited(j) == [j EXCEPT !.todo = @ \ {j.kind}, !.kind = "trial", !.at = "visiting", !.seen = NoRow]

(* The formal session comes first.  A session that cannot be read is passed. *)
Visiting(j) == [j EXCEPT !.kind = IF "formal" \in j.todo THEN "formal" ELSE "trial"]

Visit(p) ==
    LET j == Visiting(job[p])
        s == Row(j).id
        now == [Row(j) EXCEPT !.entries = sessions[s].entries, !.rooms = sessions[s].rooms]
    IN
    /\ At(p, "visiting")
    /\ IF j.todo = {} THEN Ends(p)
       ELSE IF SessionThere(s) /\ now # Row(j) THEN Becomes(p, [Counted(j, s) EXCEPT !.at = "refreshing"])
       ELSE Becomes(p, Visited(j))
    /\ uncounted' = uncounted \ {k \in {j.kind} : j.todo # {} /\ j.alone /\ SessionThere(s) /\ now = Row(j)}
    /\ UNCHANGED <<platform, task, left, mishaps, done, overtaken, boundFor, crossed, unsure, cut, remade>>

Refresh(p) ==
    LET j == job[p] IN
    /\ At(p, "refreshing")
    /\ rows' = [rows EXCEPT ![j.kind] = [Row(j) EXCEPT !.entries = j.seen.entries, !.rooms = j.seen.rooms]]
    /\ Becomes(p, [Visited(j) EXCEPT !.rows = IF there THEN rows' ELSE @])
    /\ uncounted' = IF j.alone THEN uncounted \ {j.kind} ELSE uncounted
    /\ UNCHANGED <<platform, there, courses, stepCourses, paperBind, change, history, left, mishaps, done,
                   overtaken, boundFor, crossed, unsure, cut, remade>>

-----------------------------------------------------------------------------
(* handleTaskHide: the sessions of the record, one by one, then the task.    *)

Delete(p) ==
    LET ids == {rows[k].id : k \in Kinds} \ {NoSession} IN
    Begins(p, [NoJob EXCEPT !.op = "delete", !.at = IF ids = {} THEN "dropping" ELSE "deleting", !.todo = ids])

Drop(p) ==
    /\ At(p, "dropping")
    /\ there' = FALSE /\ rows' = NoRows /\ courses' = {} /\ stepCourses' = {}
    /\ paperBind' = "pending" /\ change' = "pending" /\ history' = {}
    /\ Ends(p)
    /\ UNCHANGED <<platform, left, mishaps, ghosts>>

-----------------------------------------------------------------------------
(* Calls of the platform that change it.                                     *)

OnSession == {"putting", "personal", "entering", "clearing", "arranging"}
Calling == OnSession \cup {"posting", "creating", "binding", "renaming", "deleting"}

Reached(p) ==
    CASE job[p].at \in OnSession -> SessionThere(Target(p))
      [] At(p, "binding")        -> SessionThere(job[p].of)
      [] At(p, "creating")       -> NextSerials(Turn(job[p]).code) # {}
      [] OTHER                   -> TRUE

Put(s, field, value) == sessions' = [sessions EXCEPT ![s][field] = value]

CarriedOut(p) ==
    LET j == job[p]
        s == Target(p)
        c == Creating(j)
        r == CHOOSE d \in j.courses : d.code = Earliest(j.todo)
    IN
    \/ /\ j.at \in {"creating", "renaming"} /\ UNCHANGED sessions
       /\ \/ /\ At(p, "creating")
             /\ tenant' = tenant \cup {[name |-> c.name, code |-> c.code, own |-> TRUE]}
          \/ /\ At(p, "renaming")
             /\ tenant' = {[t EXCEPT !.name = IF t.code = r.code THEN r.name ELSE @] : t \in tenant}
    \/ /\ UNCHANGED tenant
       /\ \/ At(p, "posting") /\ sessions' = Append(sessions, Session(j.kind))
          \/ At(p, "binding") /\ Put(j.of, "bound", sessions[j.of].bound \cup {Earliest(j.todo)})
          \/ At(p, "putting") /\ Put(s, "value", j.to)
          \/ At(p, "personal") /\ Put(s, "value", j.seen.value)
          \/ At(p, "entering") /\ Put(s, "entries", 1)
          \/ At(p, "clearing") /\ Put(s, "rooms", 0)
          \/ At(p, "arranging") /\ Put(s, "rooms", j.to)
          \/ At(p, "deleting") /\ Put(FirstOf(j.todo), "there", FALSE)

Done(j, item, place) == [j EXCEPT !.todo = @ \ {item}, !.at = IF j.todo = {item} THEN place ELSE @]

(* Mutant: the code a course was planned with is kept.                       *)
CreatedAsPlanned(j) == Turn(j)

CreatedAs(j) == Creating(j)

(* Where a request goes on after a call.                                     *)
Onwards(p) ==
    LET j == job[p]
        c == CreatedAs(j)
    IN
    CASE j.at = "posting"   -> [j EXCEPT !.at = "configuring", !.id = Len(sessions) + 1]
      [] j.at = "creating"  -> [Done(j, c.name, "persisting") EXCEPT
                                   !.courses = {IF d.name = c.name THEN c ELSE d : d \in @}]
      [] j.at = "binding"   -> Done(j, Earliest(j.todo), "bound")
      [] j.at = "renaming"  -> Done(j, Earliest(j.todo), "storing")
      [] j.at = "deleting"  -> Done(j, FirstOf(j.todo), "dropping")
      [] j.at = "personal"  -> [j EXCEPT !.at = "entering", !.seen = NoRow]
      [] j.at = "entering"  -> [j EXCEPT !.at = "reading"]
      [] j.at = "clearing"  -> [j EXCEPT !.at = "arranging"]
      [] j.at \in {"putting", "arranging"} -> [j EXCEPT !.at = "saving"]

Call(p) ==
    /\ job[p].at \in Calling /\ Reached(p)
    /\ CarriedOut(p)
    /\ Becomes(p, Onwards(p))
    /\ remade' = remade \cup {i \in 1..Subjects :
                     /\ At(p, "creating") /\ i = Creating(job[p]).name[1]
                     /\ \E t \in tenant : t.own /\ t.name[1] = i}
    /\ UNCHANGED <<task, left, mishaps, done, overtaken, boundFor, crossed, unsure, uncounted, cut>>

(* The session is gone: what only reads or counts it ends.                   *)
NotFound(p) ==
    /\ job[p].at \in {"personal", "entering", "clearing", "arranging", "detail", "counting"}
    /\ ~SessionThere(Target(p))
    /\ Ends(p)
    /\ UNCHANGED <<platform, task, left, mishaps, ghosts>>

-----------------------------------------------------------------------------
(* Mishaps.  What an interrupted request was at work on is left unsure.      *)

Unsettled(ps) ==
    LET met == UNION {Touches(job[p]) : p \in ps} IN
    /\ unsure' = unsure \cup met
    /\ uncounted' = uncounted \cup (met \cap Kinds)
    /\ UNCHANGED <<done, overtaken, boundFor, crossed, remade>>

InHand(p) == {job[p].id : q \in {r \in {p} : job[r].at \in {"configuring", "recording"}}}

(* A call of the platform fails, after it was carried out or before, or a    *)
(* write of the database does.                                               *)
Broken(p) ==
    CASE job[p].op \in {"create", "bind"} -> StepFails(p)
      [] At(p, "putting") \/ (Doing(p, "course") /\ ~At(p, "refusing")) ->
            Goes(p, "refusing") /\ UNCHANGED task
      [] OTHER -> Ends(p) /\ UNCHANGED task

CallFails(p) ==
    /\ ~At(p, "idle") /\ Happens
    /\ \/ UNCHANGED platform /\ cut' = cut \cup InHand(p)
       \/ /\ job[p].at \in Calling /\ Reached(p) /\ CarriedOut(p)
          /\ cut' = cut \cup {s \in {Len(sessions) + 1} : At(p, "posting")}
    /\ Broken(p) /\ Unsettled({p})
    /\ UNCHANGED left

(* What goes on without what could not be read: a change with the recorded   *)
(* value, an import without numbers, a visit with no rooms or to the next.   *)
ReadFails(p) ==
    LET j == [Visiting(job[p]) EXCEPT !.alone = FALSE]
        s == Row(j).id
    IN
    /\ Happens
    /\ \/ At(p, "looking") /\ Doing(p, "change") /\ Looked(p, Row(j).value)
       \/ At(p, "reading") /\ Goes(p, "saving")
       \/ At(p, "visiting") /\ j.todo # {} /\ SessionThere(s)
          /\ \/ Becomes(p, Visited(j))
             \/ Becomes(p, [Counted(j, s) EXCEPT !.at = "refreshing", !.seen.rooms = 0])
    /\ Unsettled({p})
    /\ UNCHANGED <<platform, task, left, cut>>

Restart ==
    /\ Happens
    /\ \E p \in Requests : ~At(p, "idle")
    /\ job' = [p \in Requests |-> NoJob]
    /\ cut' = cut \cup UNION {InHand(p) : p \in Requests}
    /\ Unsettled(Requests)
    /\ UNCHANGED <<platform, task, left>>

(* Somebody changes a session in the platform's own pages.                   *)
HandEdit(s, v) ==
    /\ SessionThere(s) /\ v # sessions[s].value /\ Happens
    /\ Put(s, "value", v)
    /\ unsure' = unsure \cup {sessions[s].kind}
    /\ job' = [p \in Requests |-> [job[p] EXCEPT !.alone = FALSE]]
    /\ UNCHANGED <<tenant, task, left, done, overtaken, boundFor, crossed, uncounted, cut, remade>>

(* Another project takes a code.                                             *)
OtherCourse(code) ==
    /\ code \notin TenantCodes /\ Happens
    /\ tenant' = tenant \cup {[name |-> Foreign, code |-> code, own |-> FALSE]}
    /\ UNCHANGED <<sessions, task, job, left, ghosts>>

-----------------------------------------------------------------------------
Creation(p) ==
    \/ Create(p) \/ PinRead(p) \/ PinWrite(p) \/ Mark(p) \/ Configure(p) \/ Record(p) \/ Made(p)
    \/ Known(p) \/ List(p) \/ ListFails(p) \/ NumbersRunOut(p) \/ Persist(p) \/ CoursesDone(p)
    \/ Bind(p) \/ BindMark(p) \/ BindDone(p) \/ BindRefused(p)
Changing(p) ==
    \/ \E k \in Kinds : Sync(p, k) \/ \E v \in Values : Change(p, k, v)
    \/ ChangeLook(p) \/ ChangeRefused(p) \/ Refuse(p) \/ Save(p) \/ Log(p)
    \/ SyncLook(p) \/ InventoryFails(p) \/ SyncRefused(p) \/ SyncWrite(p)
    \/ \E names \in [{c.code : c \in Stored} -> Variants] : Rename(p, names)
    \/ Snapshots(p) \/ RenameMark(p) \/ RenameStore(p)
Keeping(p) ==
    \/ \E k \in Kinds : Import(p, k) \/ \E n \in RoomCounts : Rooms(p, k, n)
    \/ Detail(p) \/ ImportCount(p) \/ RoomsCount(p) \/ Open(p) \/ Visit(p) \/ Refresh(p)
    \/ Delete(p) \/ Drop(p)

Next ==
    \/ \E p \in Requests : Creation(p) \/ Changing(p) \/ Keeping(p) \/ Call(p)
    \/ \E p \in Requests : NotFound(p) \/ TaskGone(p) \/ CallFails(p) \/ ReadFails(p)
    \/ Erase \/ Restart
    \/ \E s \in DOMAIN sessions, v \in Values : HandEdit(s, v)
    \/ \E exam \in 1..MaxExams, number \in 1..MaxNumbers : OtherCourse(<<exam, number>>)

Spec == Init /\ [][Next]_vars

-----------------------------------------------------------------------------
Idle(things) == \A p \in Requests : Touches(job[p]) \cap things = {}

Accounted(s) ==
    \/ there /\ \E k \in Kinds : rows[k].id = s
    \/ \E p \in Requests : s \in InHand(p)

(* No session is left behind on the platform: one that the task does not     *)
(* record was replaced by a later one, is in the hands of the request that   *)
(* created it, or that request was interrupted before it could record it,    *)
(* unless two requests worked on sessions of its kind at once.  A deletion   *)
(* that fails half-way leaves nothing that the task no longer knows of.      *)
SessionsAccountedFor ==
    \A s \in DOMAIN sessions :
        \/ ~sessions[s].there \/ Accounted(s)
        \/ s \in cut \/ sessions[s].kind \in crossed
        \/ \E t \in DOMAIN sessions : t > s /\ sessions[t].kind = sessions[s].kind

(* The task shows the session as the platform has it - its name and times,   *)
(* its candidates and rooms - when no request is at work on it; unless two   *)
(* requests met on it, a call failed or people changed it, and then again    *)
(* after a synchronisation, or the numbers after a visit, nothing disturbed. *)
RowShowsSession ==
    \A k \in Kinds :
        LET row == rows[k]
            session == sessions[row.id]
        IN
        there /\ Recorded(k) /\ Idle({k}) =>
            /\ k \notin unsure => session.there /\ row.value = session.value
            /\ k \notin uncounted => row.entries = session.entries /\ row.rooms = session.rooms

(* No change that was made is missing from the task's log, unless another    *)
(* request held an older log when it was logged, or the retry of a failed    *)
(* change erased it.                                                         *)
HistoryKept == there => done \ overtaken \subseteq history

(* A course of the project is created on the platform once, however often    *)
(* its exam is created and its courses renamed in between, unless a creation *)
(* or a renaming was interrupted, ran out of codes or met another request.   *)
CourseMadeOnce == remade # {} => "courses" \in unsure

BoundTo(s) == IF s = NoSession THEN {} ELSE sessions[s].bound

(* Courses recorded as bound are bound, to the session they were bound for,  *)
(* unless two requests worked at once on the courses or on the session.      *)
BoundIsBound ==
    /\ there /\ paperBind = "success" /\ rows["formal"].id = boundFor
    /\ {"formal", "courses"} \cap crossed = {}
    => {c.code : c \in Stored} \subseteq BoundTo(boundFor)
=============================================================================
