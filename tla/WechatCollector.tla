--------------------------- MODULE WechatCollector ---------------------------
(***************************************************************************)
(* The enterprise-WeChat collector (wechat_visible_collect.mjs): processes *)
(* that take a lock file, drive the one WeChat window of the machine, read *)
(* each group's chat off the screen, push what is new to the requirement   *)
(* centre and remember in a checkpoint file how far they read.             *)
(*                                                                         *)
(* Nothing numbers the lines of a chat: the checkpoint knows a line by its *)
(* text.  The lock is a file whose owner may be dead, or late.             *)
(***************************************************************************)
EXTENDS Integers, Sequences, FiniteSets

CONSTANTS
    Configured,    \* the enabled chat groups, in the order of the configuration
    Bound,         \* those whose configuration names their requirement
    Scheduled,     \* collectors launchd starts, over every enabled group
    Queued,        \* collectors the server starts with --force, for one group
    Texts,         \* what a chat line may say
    States,        \* States[t]: the fields of a requirement that it states
    Alters,        \* Alters[t]: those that it asks to change
    Worded,        \* texts with the words of a change, whatever they say
    MaxLines,      \* MaxLines[g], bound: lines said in group g
    Windows,       \* lines of chat a screenshot may show: the user sizes the window
    MaxPages,      \* screenshots of one capture
    MaxRuns,       \* bound: collectors that get the lock
    MaxBreaks      \* bound: collectors killed, answers lost, chats opened in between

Groups == {Configured[i] : i \in DOMAIN Configured}
Collectors == Scheduled \cup Queued
Changes == {t \in Texts : Alters[t] # {}}
Signals == {t \in Texts : States[t] # {}} \cup Changes
Free == "free"
Dead == "dead"
NoLine == "no line"

ASSUME CollectorAssumption ==
    /\ Configured \in Seq(Groups) /\ Bound \subseteq Groups
    /\ Free \notin Collectors /\ Dead \notin Collectors /\ NoLine \notin Texts
    /\ Scheduled \cap Queued = {}
    /\ Windows \subseteq Nat \ {0} /\ MaxPages \in Nat \ {0}
    /\ MaxRuns \in Nat /\ MaxBreaks \in Nat
    /\ MaxLines \in [Groups -> Nat]
    /\ DOMAIN States = Texts /\ DOMAIN Alters = Texts

VARIABLES
    chat,      \* chat[g]: the lines said in group g, oldest first
    screen,    \* the group whose chat the WeChat window shows
    lock,      \* the lock file: Free, the collector it names, or Dead when that process is gone
    lockAged,  \* the lock file is older than thirty minutes
    saved,     \* the checkpoint file: saved[g] = [last, seen, request]
    requests,  \* requests[g]: requirements the centre has created for group g
    delivered, \* delivered[g]: positions of chat[g] the centre has got
    pc, job,   \* per collector: where it is, and what it holds
    runs, breaks, \* collectors that got the lock, and what broke in on one, so far
    base, covered, \* history: first line of g's first capture, last line its checkpoint has covered
    overrun,   \* history: positions that had scrolled out of a capture's reach
    overruled, \* history: positions stating what a change in the same capture alters
    repeated,  \* history: positions pushed a second time
    mixed,     \* history: groups whose requirement got lines of another chat
    broken,    \* history: groups with a push whose checkpoint was never written
    causes     \* history: what defeated the lock or the title check

file == <<lock, lockAged>>
centre == <<requests, delivered>>
history == <<base, covered, overrun, overruled, repeated, mixed, broken, causes>>
vars == <<chat, screen, file, saved, centre, pc, job, runs, breaks, history>>

NoState == [last |-> NoLine, seen |-> {}, request |-> 0]
CauseKinds == {"aged", "raced", "user"}
Places == {"idle", "judged", "retry", "group", "title", "capture", "draft", "change", "store"}

(* What a collector holds: the lock it judged, the groups left, the          *)
(* checkpoints as it read them, and of the capture in hand whose chat it     *)
(* shows, the new lines, and the request.                                    *)
NoJob == [verdict |-> Free, todo |-> <<>>, state |-> [g \in Groups |-> NoState],
          group |-> NoLine, shown |-> NoLine, fresh |-> {}, request |-> 0]

Init ==
    /\ chat = [g \in Groups |-> <<>>]
    /\ screen \in Groups
    /\ lock = Free /\ lockAged = FALSE
    /\ saved = [g \in Groups |-> NoState]
    /\ requests = [g \in Groups |-> IF g \in Bound THEN 1 ELSE 0]
    /\ delivered = [g \in Groups |-> {}]
    /\ pc = [p \in Collectors |-> "idle"] /\ job = [p \in Collectors |-> NoJob]
    /\ runs = 0 /\ breaks = 0
    /\ base = [g \in Groups |-> 0] /\ covered = [g \in Groups |-> 0]
    /\ overrun = [g \in Groups |-> {}] /\ overruled = [g \in Groups |-> {}]
    /\ repeated = [g \in Groups |-> {}]
    /\ mixed = {} /\ broken = {} /\ causes = {}

Goto(p, place, locals) ==
    /\ pc' = [pc EXCEPT ![p] = place]
    /\ job' = [job EXCEPT ![p] = locals]

Working == {"group", "title", "capture", "draft", "change", "store"}
InSection == {p \in Collectors : pc[p] \in Working}

-----------------------------------------------------------------------------
(* The lock file.                                                            *)

(* With the lock, configuration and checkpoints are read once.               *)
TakeFreeLock(p) ==
    /\ pc[p] \in {"idle", "retry"} /\ lock = Free
    /\ runs < MaxRuns /\ runs' = runs + 1
    /\ lock' = p /\ lockAged' = FALSE
    /\ \E todo \in IF p \in Queued THEN {<<g>> : g \in Groups} ELSE {Configured} :
        Goto(p, "group", [NoJob EXCEPT !.todo = todo, !.state = saved])
    /\ UNCHANGED <<chat, screen, saved, centre, breaks, history>>

(* Mutant: a lock is taken for abandoned whoever holds it.                   *)
AbandonedByAnyone == lock # Free

Abandoned == lockAged \/ lock = Dead

(* The lock exists: it is judged by its age and by its process, and removed  *)
(* in a later call.                                                          *)
JudgeLock(p) ==
    /\ pc[p] \in {"idle", "retry"} /\ lock # Free /\ Abandoned
    /\ Goto(p, "judged", [NoJob EXCEPT !.verdict = lock])
    /\ causes' = IF lockAged /\ lock # Dead THEN causes \cup {"aged"} ELSE causes
    /\ UNCHANGED <<chat, screen, file, saved, centre, runs, breaks, base, covered, overrun,
                   overruled, repeated, mixed, broken>>

RemoveJudgedLock(p) ==
    /\ pc[p] = "judged"
    /\ lock' = Free /\ lockAged' = FALSE
    /\ Goto(p, "retry", NoJob)
    /\ causes' = IF lock \in Collectors /\ lock # job[p].verdict THEN causes \cup {"raced"}
                 ELSE causes
    /\ UNCHANGED <<chat, screen, saved, centre, runs, breaks, base, covered, overrun,
                   overruled, repeated, mixed, broken>>

GiveWay(p) ==
    /\ pc[p] = "retry" /\ lock # Free /\ ~Abandoned
    /\ Goto(p, "idle", NoJob)
    /\ UNCHANGED <<chat, screen, file, saved, centre, runs, breaks, history>>

(* The lock file is removed whatever it names.                               *)
Release(p) ==
    /\ lock' = Free /\ lockAged' = FALSE
    /\ Goto(p, "idle", NoJob)

-----------------------------------------------------------------------------
(* One run.                                                                  *)

Stop(p) ==
    /\ pc[p] = "group" /\ job[p].todo = <<>>
    /\ Release(p)
    /\ UNCHANGED <<chat, screen, saved, centre, runs, breaks, history>>

(* (What was read is dropped with the last group.)                          *)
NextGroup(p) ==
    LET rest == Tail(job[p].todo)
    IN  Goto(p, "group", IF rest = <<>> THEN NoJob
                         ELSE [NoJob EXCEPT !.todo = rest, !.state = job[p].state])

(* Without --force a group is skipped until it has been collected once, and  *)
(* while its interval runs; when the user is at work, every group is.        *)
SkipGroup(p) ==
    /\ pc[p] = "group" /\ p \in Scheduled /\ job[p].todo # <<>>
    /\ NextGroup(p)
    /\ UNCHANGED <<chat, screen, file, saved, centre, runs, breaks, history>>

MayCollect(p, g) == p \in Queued \/ job[p].state[g].last # NoLine

OpenGroup(p) ==
    /\ pc[p] = "group" /\ job[p].todo # <<>>
    /\ LET g == Head(job[p].todo) IN
        /\ MayCollect(p, g)
        /\ screen' = g
        /\ Goto(p, "title", [job[p] EXCEPT !.group = g,
             !.request = IF g \in Bound THEN 1 ELSE job[p].state[g].request])
    /\ UNCHANGED <<chat, file, saved, centre, runs, breaks, history>>

(* Mutant: the title of the chat is not looked at.                           *)
TitleIgnored(p) == TRUE

TitleMatches(p) == screen = job[p].group

CheckTitle(p) ==
    /\ pc[p] = "title" /\ TitleMatches(p)
    /\ Goto(p, "capture", job[p])
    /\ UNCHANGED <<chat, screen, file, saved, centre, runs, breaks, history>>

ReopenGroup(p) ==
    /\ pc[p] = "title" /\ ~TitleMatches(p)
    /\ screen' = job[p].group
    /\ UNCHANGED <<chat, file, saved, centre, pc, job, runs, breaks, history>>

-----------------------------------------------------------------------------
(* A capture: screenshots from the bottom of the chat upwards until one      *)
(* shows the checkpoint's line, or, the first time, from where an operator   *)
(* left the window downwards.                                                *)

Least(S) == CHOOSE i \in S : \A j \in S : i <= j
Greatest(S) == CHOOSE i \in S : \A j \in S : i >= j

Lines(s) == 1..Len(chat[s])
Page(s, w, k) == {i \in Lines(s) : i > Len(chat[s]) - k * w /\ i <= Len(chat[s]) - (k - 1) * w}
PagesWith(s, w, last) == {k \in 1..MaxPages : \E i \in Page(s, w, k) : chat[s][i] = last}
PagesRead(s, w, last) ==
    LET located == PagesWith(s, w, last)
    IN  IF located # {} THEN Least(located) ELSE MaxPages
ReadUpwards(s, w, last) == UNION {Page(s, w, k) : k \in 1..PagesRead(s, w, last)}
ReadDownwards(s, w, from) == {i \in Lines(s) : i >= from /\ i < from + MaxPages * w}

(* Mutant: the checkpoint's line counts as new.                              *)
AfterCheckpointInclusive(s, read, checkpoint) ==
    LET hits == {i \in read : chat[s][i] = checkpoint.last}
    IN  IF hits # {} THEN {i \in read : i >= Least(hits)}
        ELSE {i \in read : chat[s][i] \notin checkpoint.seen}

(* Lines are new after the first one that reads like the checkpoint's, or,   *)
(* without such a line, when nothing seen before reads like them.            *)
AfterCheckpoint(s, read, checkpoint) ==
    LET hits == {i \in read : chat[s][i] = checkpoint.last}
    IN  IF hits # {} THEN {i \in read : i > Least(hits)}
        ELSE {i \in read : chat[s][i] \notin checkpoint.seen}

Signal(s, lines) == \E i \in lines : chat[s][i] \in Signals

(* A capture without any signal goes no further: no push, no checkpoint.     *)
Draft(p, lines) ==
    IF Signal(screen, lines)
    THEN Goto(p, "draft", [job[p] EXCEPT !.shown = screen, !.fresh = lines])
    ELSE NextGroup(p)

CaptureFirst(p) ==
    LET g == job[p].group IN
    /\ pc[p] = "capture" /\ job[p].state[g].last = NoLine
    /\ \E w \in Windows, from \in Lines(screen) : Draft(p, ReadDownwards(screen, w, from))
    /\ UNCHANGED <<chat, screen, file, saved, centre, runs, breaks, history>>

CaptureNew(p) ==
    LET g == job[p].group
        checkpoint == job[p].state[g]
    IN
    /\ pc[p] = "capture" /\ checkpoint.last # NoLine
    /\ \E w \in Windows :
        LET read == ReadUpwards(screen, w, checkpoint.last)
            hit == \E i \in read : chat[screen][i] = checkpoint.last
        IN
        /\ Draft(p, AfterCheckpoint(screen, read, checkpoint))
        /\ overrun' = [overrun EXCEPT ![g] = @ \cup
               IF hit \/ screen # g THEN {} ELSE {i \in Lines(g) : i > covered[g]} \ read]
    /\ UNCHANGED <<chat, screen, file, saved, centre, runs, breaks, base, covered,
                   overruled, repeated, mixed, broken, causes>>

-----------------------------------------------------------------------------
(* What a draft pushes.                                                      *)

Having(p, kind) == {i \in job[p].fresh : chat[job[p].shown][i] \in kind}
About(p, what, i) == what[chat[job[p].shown][i]]
Altered(p) == UNION {About(p, Alters, i) : i \in job[p].fresh}

(* The value of a field that is altered is the change's, even where a later  *)
(* line states another: the collecting push leaves such a field out.         *)
Overruled(p) ==
    {i \in Having(p, Signals \ Changes) : About(p, States, i) \cap Altered(p) # {}}
Stated(p) ==
    {i \in Having(p, Signals) :
        About(p, States, i) # {} /\ About(p, States, i) \cap Altered(p) = {}}

(* Every field that is stated is altered, or every line has a change's words. *)
ChangeOnly(p) ==
    /\ Altered(p) # {}
    /\ \/ \A i \in job[p].fresh : About(p, States, i) \subseteq Altered(p)
       \/ job[p].fresh = Having(p, Worded)

(* The centre takes lines for a group's requirement.                         *)
Deliver(p, lines) ==
    LET g == job[p].group IN
    IF job[p].shown = g
    THEN /\ delivered' = [delivered EXCEPT ![g] = @ \cup lines]
         /\ repeated' = [repeated EXCEPT ![g] = @ \cup (delivered[g] \cap lines)]
         /\ UNCHANGED mixed
    ELSE /\ mixed' = mixed \cup {g} /\ UNCHANGED <<delivered, repeated>>

RequestKnown(p) == job[p].request # 0

Collecting(p) == pc[p] = "draft" /\ ~(ChangeOnly(p) /\ RequestKnown(p))
Changing(p) == pc[p] = "change" \/ (pc[p] = "draft" /\ ~Collecting(p))

(* The collecting push; without a request the centre creates one.            *)
CentreCollects(p) ==
    /\ Collecting(p)
    /\ Deliver(p, Stated(p))
    /\ requests' = [requests EXCEPT ![job[p].group] = IF RequestKnown(p) THEN @ ELSE @ + 1]

(* The change push also holds what is stated, which counts when it comes alone. *)
ChangePush(p) ==
    IF pc[p] = "draft" THEN Stated(p) \cup Having(p, Changes) ELSE Having(p, Changes) \ Stated(p)

CentreChanges(p) ==
    /\ Changing(p)
    /\ Deliver(p, ChangePush(p))
    /\ UNCHANGED requests

PushCollecting(p) ==
    /\ CentreCollects(p)
    /\ Goto(p, IF Altered(p) # {} THEN "change" ELSE "store",
            [job[p] EXCEPT !.request = IF RequestKnown(p) THEN @ ELSE requests'[job[p].group]])
    /\ UNCHANGED <<chat, screen, file, saved, runs, breaks, base, covered, overrun,
                   overruled, broken, causes>>

PushChange(p) ==
    /\ CentreChanges(p)
    /\ Goto(p, "store", job[p])
    /\ UNCHANGED <<chat, screen, file, saved, runs, breaks, base, covered, overrun,
                   overruled, broken, causes>>

(* The centre takes a push, the collector does not hear of it.               *)
AnswerLost(p) ==
    /\ breaks < MaxBreaks /\ breaks' = breaks + 1
    /\ CentreCollects(p) \/ CentreChanges(p)
    /\ broken' = broken \cup {job[p].group}
    /\ NextGroup(p)
    /\ UNCHANGED <<chat, runs, screen, file, saved, base, covered, overrun, overruled,
                   causes>>

(* Mutant: a group's checkpoint is written although its push failed.         *)
AfterFailureStored(p) ==
    IF pc[p] \in {"draft", "change"}
    THEN [saved EXCEPT ![job[p].group] =
            [@ EXCEPT !.last = chat[job[p].shown][Greatest(job[p].fresh)]]]
    ELSE saved

AfterFailure(p) == saved

(* Anything that fails ends the group; its checkpoint stays as it was.       *)
FailGroup(p) ==
    /\ pc[p] \in {"title", "capture", "draft"}
    /\ NextGroup(p)
    /\ saved' = AfterFailure(p)
    /\ UNCHANGED <<chat, screen, file, centre, runs, breaks, history>>

FailBetweenPushes(p) ==
    /\ pc[p] = "change" /\ breaks < MaxBreaks /\ breaks' = breaks + 1
    /\ NextGroup(p)
    /\ saved' = AfterFailure(p)
    /\ broken' = broken \cup {job[p].group}
    /\ UNCHANGED <<chat, runs, screen, file, centre, base, covered, overrun, overruled,
                   repeated, mixed, causes>>

(* The checkpoint: its text is that of the last new line.                    *)
Store(p) ==
    LET g == job[p].group
        old == job[p].state[g]
        new == {chat[job[p].shown][i] : i \in job[p].fresh}
        last == Greatest(job[p].fresh)
    IN
    /\ pc[p] = "store"
    /\ saved' = [saved EXCEPT ![g] =
           [last |-> chat[job[p].shown][last], seen |-> old.seen \cup new, request |-> job[p].request]]
    /\ base' = [base EXCEPT ![g] =
           IF job[p].shown = g /\ old.last = NoLine /\ Least(job[p].fresh) > @
           THEN Least(job[p].fresh) ELSE @]
    /\ overruled' = [overruled EXCEPT ![g] = IF job[p].shown = g THEN @ \cup Overruled(p) ELSE @]
    /\ covered' = [covered EXCEPT ![g] = IF job[p].shown = g /\ last > @ THEN last ELSE @]
    /\ NextGroup(p)
    /\ UNCHANGED <<chat, screen, file, centre, runs, breaks, overrun, repeated, mixed,
                   broken, causes>>

-----------------------------------------------------------------------------
(* The environment: customers, the user of the machine, time, and what kills *)
(* a collector (the server's five minutes, a crash, a reboot).  What is said *)
(* and which chat is open matter only to a capture, so they change before one.*)

Say(g) ==
    /\ Len(chat[g]) < MaxLines[g]
    /\ screen = g /\ \E p \in Collectors : pc[p] = "capture"
    /\ \E t \in Texts : chat' = [chat EXCEPT ![g] = Append(@, t)]
    /\ UNCHANGED <<screen, file, saved, centre, pc, job, runs, breaks, history>>

UserOpens ==
    /\ \E p \in Collectors : pc[p] \in {"title", "capture"}
    /\ \E g \in Groups \ {screen} : screen' = g
    /\ IF \E p \in Collectors : pc[p] = "capture"
       THEN /\ breaks < MaxBreaks /\ breaks' = breaks + 1 /\ causes' = causes \cup {"user"}
       ELSE UNCHANGED <<breaks, causes>>
    /\ UNCHANGED <<chat, file, saved, centre, pc, job, runs, base, covered, overrun,
                   overruled, repeated, mixed, broken>>

ThirtyMinutesPass ==
    /\ lock # Free /\ ~lockAged
    /\ lockAged' = TRUE
    /\ UNCHANGED <<chat, screen, lock, saved, centre, pc, job, runs, breaks, history>>

Kill(p) ==
    /\ p \in InSection /\ breaks < MaxBreaks /\ breaks' = breaks + 1
    /\ lock' = IF lock = p THEN Dead ELSE lock
    /\ broken' = IF pc[p] \in {"change", "store"} THEN broken \cup {job[p].group} ELSE broken
    /\ Goto(p, "idle", NoJob)
    /\ UNCHANGED <<chat, runs, screen, lockAged, saved, centre, base, covered, overrun,
                   overruled, repeated, mixed, causes>>

Locking(p) == TakeFreeLock(p) \/ JudgeLock(p) \/ RemoveJudgedLock(p) \/ GiveWay(p)
Looking(p) ==
    \/ SkipGroup(p) \/ OpenGroup(p) \/ CheckTitle(p) \/ ReopenGroup(p)
    \/ CaptureFirst(p) \/ CaptureNew(p)
Pushing(p) == PushCollecting(p) \/ PushChange(p) \/ Store(p)
Failing(p) == AnswerLost(p) \/ FailGroup(p) \/ FailBetweenPushes(p) \/ Kill(p)

Next ==
    \/ \E p \in Collectors : Locking(p) \/ Looking(p) \/ Pushing(p) \/ Failing(p) \/ Stop(p)
    \/ \E g \in Groups : Say(g)
    \/ UserOpens \/ ThirtyMinutesPass

Spec == Init /\ [][Next]_vars

-----------------------------------------------------------------------------
(* Types: checkpoints know lines the chats have had, and requests that the   *)
(* centre has.                                                               *)
TypeOK ==
    /\ screen \in Groups
    /\ lock \in Collectors \cup {Free, Dead} /\ lockAged \in BOOLEAN
    /\ \A g \in Groups :
        /\ Len(chat[g]) <= MaxLines[g]
        /\ saved[g].last \in {NoLine} \cup saved[g].seen
        /\ saved[g].seen \subseteq UNION {{chat[s][i] : i \in Lines(s)} : s \in Groups}
        /\ saved[g].request \in 0..requests[g]
        /\ delivered[g] \subseteq Lines(g) /\ overruled[g] \subseteq Lines(g)
        /\ base[g] <= covered[g] /\ covered[g] <= Len(chat[g])
    /\ \A p \in Collectors :
        /\ pc[p] \in Places
        /\ pc[p] \in {"title", "capture", "draft", "change", "store"} => job[p].group = Head(job[p].todo)
    /\ runs \in 0..MaxRuns /\ breaks \in 0..MaxBreaks

LockDefeated == causes \cap {"aged", "raced"} # {}

(* Two collectors work at once only after one took a living collector's lock *)
(* for abandoned: because the lock was thirty minutes old, or because it was *)
(* renewed between the look at it and its removal.  A release, which never   *)
(* looks at the lock's owner, is not a third reason.                         *)
OneCollectorAtATime == Cardinality(InSection) <= 1 \/ LockDefeated

(* A requirement gets lines of another group's chat only if the window       *)
(* changed between the title check and the screenshots: the user's doing, or *)
(* a second collector's.                                                     *)
OwnChat == mixed # {} => LockDefeated \/ "user" \in causes

InRepetition(g, i) == \E j, k \in Lines(g) : j < i /\ i <= k /\ chat[g][j] = chat[g][k]

(* What customers said is not lost: of the lines a checkpoint has passed,    *)
(* each that says something has reached the centre, but for a statement of a *)
(* field that another line of its capture asks to change, a line more        *)
(* screenshots away than a capture takes, a line that repeats another's      *)
(* words or lies between two such, and groups whose lines were mixed up.     *)
NothingMissed ==
    \A g \in Groups \ mixed : \A i \in Lines(g) :
        (base[g] <= i /\ i <= covered[g] /\ base[g] > 0 /\ chat[g][i] \in Signals)
        => i \in delivered[g] \cup overrun[g] \cup overruled[g] \/ InRepetition(g, i)

(* What was pushed is pushed again only after a push whose checkpoint was    *)
(* not written, or on repeated words, or when two collectors worked at once, *)
(* not counting what a capture's change push repeats of its collecting push; *)
(* and a group without a configured requirement gets more than one only so.  *)
RepushedOnlyAfterBreak ==
    LockDefeated \/ \A g \in Groups \ broken :
        /\ \A i \in repeated[g] : g \in mixed \/ InRepetition(g, i)
        /\ requests[g] <= 1
=============================================================================
