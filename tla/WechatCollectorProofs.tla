------------------------ MODULE WechatCollectorProofs ------------------------
(* Theorems about WechatCollector, for any groups, collectors and bounds:    *)
(* who works holds the lock, until one of the named causes defeats it; until *)
(* then a requirement only gets lines of its own group's chat, without a     *)
(* break none twice; and nothing that a checkpoint has passed is missing.    *)
EXTENDS WechatCollector, FiniteSetTheorems, WellFoundedInduction, TLAPS

(* Shapes: the functions over the collectors stay such functions.            *)
Shape ==
    /\ pc = [p \in Collectors |-> pc[p]]
    /\ job = [p \in Collectors |-> job[p]]

(* A judged lock that names a collector was thirty minutes old.              *)
Judged(p) == pc[p] = "judged" /\ job[p].verdict \in Collectors => "aged" \in causes

Holds(p) == pc[p] \in Working => lock = p

LockInv ==
    /\ Shape
    /\ \A p \in Collectors : Judged(p)
    /\ LockDefeated \/ \A p \in Collectors : Holds(p)

LEMMA GotoShape ==
  ASSUME Shape, NEW p \in Collectors, NEW place, NEW locals, Goto(p, place, locals)
  PROVE  /\ Shape'
         /\ pc'[p] = place /\ job'[p] = locals
         /\ \A q \in Collectors \ {p} : pc'[q] = pc[q] /\ job'[q] = job[q]
BY DEF Shape, Goto

LEMMA LockInit == Init => LockInv
BY DEF Init, LockInv, Shape, Judged, Holds, Working

(* A step that neither takes nor loses the lock, seen from the collector     *)
(* that makes it.                                                            *)
LEMMA SameLock ==
  ASSUME LockInv, NEW p \in Collectors, NEW place, NEW locals, Goto(p, place, locals),
         UNCHANGED <<lock, causes>>, place # "judged",
         pc[p] \in Working \/ place \notin Working
  PROVE  LockInv'
<1>1. Shape' /\ pc'[p] = place /\ \A q \in Collectors \ {p} : pc'[q] = pc[q] /\ job'[q] = job[q]
  BY GotoShape DEF LockInv
<1>2. \A q \in Collectors : Judged(q)'
  BY <1>1 DEF LockInv, Judged
<1>3. (LockDefeated \/ \A q \in Collectors : Holds(q))'
  BY <1>1 DEF LockInv, Holds, LockDefeated
<1> QED BY <1>1, <1>2, <1>3 DEF LockInv

LEMMA LockStep == LockInv /\ [Next]_vars => LockInv'
<1> SUFFICES ASSUME LockInv, [Next]_vars PROVE LockInv'
  OBVIOUS
<1> USE CollectorAssumption
<1>1. ASSUME UNCHANGED <<lock, causes, pc, job>> PROVE LockInv'
  BY <1>1 DEF LockInv, Shape, Judged, Holds, LockDefeated
<1>2. CASE UNCHANGED vars
  BY <1>1, <1>2 DEF vars, file, history
<1>3. ASSUME NEW p \in Collectors, Locking(p) PROVE LockInv'
  <2>1. CASE TakeFreeLock(p)
    <3>1. PICK locals : Goto(p, "group", locals)
      BY <2>1 DEF TakeFreeLock
    <3>2. Shape' /\ pc'[p] = "group"
          /\ \A q \in Collectors \ {p} : pc'[q] = pc[q] /\ job'[q] = job[q]
      BY <3>1, GotoShape DEF LockInv
    <3>3. lock = Free /\ lock' = p /\ causes' = causes
      BY <2>1 DEF TakeFreeLock, history
    <3>4. \A q \in Collectors : Judged(q)'
      BY <3>2, <3>3 DEF LockInv, Judged
    <3>5. (LockDefeated \/ \A q \in Collectors : Holds(q))'
      BY <3>2, <3>3 DEF LockInv, Holds, LockDefeated
    <3> QED BY <3>2, <3>4, <3>5 DEF LockInv
  <2>2. CASE JudgeLock(p)
    <3>1. Goto(p, "judged", [NoJob EXCEPT !.verdict = lock])
      BY <2>2 DEF JudgeLock
    <3>2. /\ Shape' /\ pc'[p] = "judged" /\ job'[p] = [NoJob EXCEPT !.verdict = lock]
          /\ \A q \in Collectors \ {p} : pc'[q] = pc[q] /\ job'[q] = job[q]
      BY <3>1, GotoShape DEF LockInv
    <3>3. job'[p].verdict = lock
      BY <3>2 DEF NoJob
    <3>4. /\ lock' = lock /\ causes \subseteq causes'
          /\ lock \in Collectors => "aged" \in causes'
      BY <2>2 DEF JudgeLock, file, Abandoned
    <3>5. \A q \in Collectors : Judged(q)'
      BY <3>2, <3>3, <3>4 DEF LockInv, Judged
    <3>6. (LockDefeated \/ \A q \in Collectors : Holds(q))'
      BY <3>2, <3>4 DEF LockInv, Holds, LockDefeated, Working
    <3> QED BY <3>2, <3>5, <3>6 DEF LockInv
  <2>3. CASE RemoveJudgedLock(p)
    <3>1. Goto(p, "retry", NoJob)
      BY <2>3 DEF RemoveJudgedLock
    <3>2. /\ Shape' /\ pc'[p] = "retry"
          /\ \A q \in Collectors \ {p} : pc'[q] = pc[q] /\ job'[q] = job[q]
      BY <3>1, GotoShape DEF LockInv
    <3>3. /\ pc[p] = "judged" /\ causes \subseteq causes'
          /\ lock \in Collectors => lock = job[p].verdict \/ "raced" \in causes'
      BY <2>3 DEF RemoveJudgedLock
    <3>4. \A q \in Collectors : Judged(q)'
      BY <3>2, <3>3 DEF LockInv, Judged
    <3>5. lock \in Collectors => LockDefeated'
      BY <3>3 DEF LockInv, Judged, LockDefeated
    <3>6. (LockDefeated \/ \A q \in Collectors : Holds(q))'
      BY <3>2, <3>3, <3>5 DEF LockInv, Holds, LockDefeated, Working
    <3> QED BY <3>2, <3>4, <3>6 DEF LockInv
  <2>4. CASE GiveWay(p)
    BY <2>4, SameLock DEF GiveWay, file, history, Working
  <2> QED BY <1>3, <2>1, <2>2, <2>3, <2>4 DEF Locking
<1>4. ASSUME NEW p \in Collectors, Looking(p) PROVE LockInv'
  <2>1. CASE SkipGroup(p)
    BY <2>1, SameLock DEF SkipGroup, NextGroup, file, history, Working
  <2>2. CASE OpenGroup(p)
    BY <2>2, SameLock DEF OpenGroup, file, history, Working
  <2>3. CASE CheckTitle(p)
    BY <2>3, SameLock DEF CheckTitle, file, history, Working
  <2>4. CASE ReopenGroup(p)
    BY <2>4, <1>1 DEF ReopenGroup, file, history
  <2>5. ASSUME NEW lines, pc[p] = "capture", Draft(p, lines), UNCHANGED <<lock, causes>>
        PROVE LockInv'
    BY <2>5, SameLock DEF Draft, NextGroup, Working
  <2>6. CASE CaptureFirst(p)
    BY <2>6, <2>5 DEF CaptureFirst, file, history
  <2>7. CASE CaptureNew(p)
    BY <2>7, <2>5 DEF CaptureNew, file
  <2> QED BY <1>4, <2>1, <2>2, <2>3, <2>4, <2>6, <2>7 DEF Looking
<1>5. ASSUME NEW p \in Collectors, Pushing(p) PROVE LockInv'
  <2>1. CASE PushCollecting(p)
    BY <2>1, SameLock DEF PushCollecting, CentreCollects, Collecting, file, Working
  <2>2. CASE PushChange(p)
    BY <2>2, SameLock DEF PushChange, CentreChanges, Changing, file, Working
  <2>3. CASE Store(p)
    BY <2>3, SameLock DEF Store, NextGroup, file, Working
  <2> QED BY <1>5, <2>1, <2>2, <2>3 DEF Pushing
<1>6. ASSUME NEW p \in Collectors, Failing(p) PROVE LockInv'
  <2>1. CASE AnswerLost(p)
    BY <2>1, SameLock DEF AnswerLost, CentreCollects, CentreChanges, Collecting, Changing,
                          NextGroup, file, Working
  <2>2. CASE FailGroup(p)
    BY <2>2, SameLock DEF FailGroup, NextGroup, file, history, Working
  <2>3. CASE FailBetweenPushes(p)
    BY <2>3, SameLock DEF FailBetweenPushes, NextGroup, file, Working
  <2>4. CASE Kill(p)
    <3>1. Goto(p, "idle", NoJob) /\ causes' = causes
          /\ (lock = p \/ lock' = lock) /\ pc[p] \in Working
      BY <2>4 DEF Kill, InSection
    <3>2. /\ Shape' /\ pc'[p] = "idle"
          /\ \A q \in Collectors \ {p} : pc'[q] = pc[q] /\ job'[q] = job[q]
      BY <3>1, GotoShape DEF LockInv
    <3>3. \A q \in Collectors : Judged(q)'
      BY <3>1, <3>2 DEF LockInv, Judged
    <3>4. (LockDefeated \/ \A q \in Collectors : Holds(q))'
      BY <3>1, <3>2 DEF LockInv, Holds, LockDefeated, Working
    <3> QED BY <3>2, <3>3, <3>4 DEF LockInv
  <2> QED BY <1>6, <2>1, <2>2, <2>3, <2>4 DEF Failing
<1>7. ASSUME NEW p \in Collectors, Stop(p) PROVE LockInv'
  <2>1. Goto(p, "idle", NoJob) /\ causes' = causes /\ pc[p] \in Working
    BY <1>7 DEF Stop, Release, history, Working
  <2>2. /\ Shape' /\ pc'[p] = "idle"
        /\ \A q \in Collectors \ {p} : pc'[q] = pc[q] /\ job'[q] = job[q]
    BY <2>1, GotoShape DEF LockInv
  <2>3. \A q \in Collectors : Judged(q)'
    BY <2>1, <2>2 DEF LockInv, Judged
  <2>4. (LockDefeated \/ \A q \in Collectors : Holds(q))'
    BY <2>1, <2>2 DEF LockInv, Holds, LockDefeated, Working
  <2> QED BY <2>2, <2>3, <2>4 DEF LockInv
<1>8. ASSUME NEW g \in Groups, Say(g) PROVE LockInv'
  BY <1>8, <1>1 DEF Say, file, history
<1>9. CASE UserOpens
  <2>1. UNCHANGED <<lock, pc, job>> /\ (LockDefeated' <=> LockDefeated)
        /\ ("aged" \in causes' <=> "aged" \in causes)
    BY <1>9 DEF UserOpens, file, LockDefeated
  <2> QED BY <2>1 DEF LockInv, Shape, Judged, Holds
<1>10. CASE ThirtyMinutesPass
  BY <1>10, <1>1 DEF ThirtyMinutesPass, history
<1> QED BY <1>2, <1>3, <1>4, <1>5, <1>6, <1>7, <1>8, <1>9, <1>10 DEF Next

LEMMA OneFromLock == LockInv => OneCollectorAtATime
<1> SUFFICES ASSUME LockInv, ~LockDefeated PROVE Cardinality(InSection) <= 1
  BY DEF OneCollectorAtATime
<1>1. InSection \subseteq {lock}
  BY DEF LockInv, Holds, InSection
<1>2. IsFiniteSet({lock}) /\ Cardinality({lock}) = 1
  BY FS_Singleton
<1>3. Cardinality(InSection) <= Cardinality({lock})
  BY <1>1, <1>2, FS_Subset
<1> QED BY <1>2, <1>3

(* However many collectors launchd and the server start, and whenever they   *)
(* are killed, two of them use the WeChat window at once only after a lock   *)
(* outlived its thirty minutes or was renewed under a collector's hands.     *)
THEOREM OneCollectorAtATimeHolds == Spec => []OneCollectorAtATime
<1>1. Spec => []LockInv
  BY LockInit, LockStep, PTL DEF Spec
<1> QED BY <1>1, OneFromLock, PTL

-----------------------------------------------------------------------------
(* Whose chat is read.                                                       *)

JobFields == DOMAIN NoJob

JobShape == \A p \in Collectors : DOMAIN job[p] = JobFields

(* What a collector captures, and has captured, is the chat of its group.    *)
Faithful(p) ==
    /\ pc[p] = "capture" => screen = job[p].group
    /\ pc[p] \in {"draft", "change", "store"} => job[p].shown = job[p].group

Disturbed == LockDefeated \/ "user" \in causes

ChatInv ==
    /\ LockInv /\ JobShape
    /\ Disturbed \/ (mixed = {} /\ \A p \in Collectors : Faithful(p))

LEMMA FieldsOfJob ==
  {"verdict", "todo", "state", "group", "shown", "fresh", "request"} = JobFields
BY DEF JobFields, NoJob

LEMMA ChatInit == Init => ChatInv
<1> SUFFICES ASSUME Init PROVE ChatInv
  OBVIOUS
<1>1. LockInv
  BY LockInit
<1>2. JobShape /\ mixed = {} /\ \A p \in Collectors : Faithful(p)
  BY DEF Init, JobShape, Faithful, JobFields
<1> QED BY <1>1, <1>2 DEF ChatInv

(* A collector that goes nowhere it captures or pushes leaves the others' be. *)
LEMMA GoesElsewhere ==
  ASSUME ChatInv, LockInv', NEW p \in Collectors, NEW place, NEW locals, Goto(p, place, locals),
         DOMAIN locals = JobFields, place \notin {"capture", "draft", "change", "store"},
         UNCHANGED screen, causes \subseteq causes', mixed' = mixed \/ Disturbed
  PROVE  ChatInv'
<1>1. /\ pc'[p] = place /\ job'[p] = locals
      /\ \A q \in Collectors \ {p} : pc'[q] = pc[q] /\ job'[q] = job[q]
  BY GotoShape DEF ChatInv, LockInv
<1>2. JobShape'
  BY <1>1 DEF ChatInv, JobShape, JobFields
<1>3. Disturbed => Disturbed'
  BY DEF Disturbed, LockDefeated
<1>4. ASSUME ~Disturbed PROVE \A q \in Collectors : Faithful(q)'
  BY <1>1, <1>4 DEF ChatInv, Faithful
<1> QED BY <1>2, <1>3, <1>4 DEF ChatInv

(* One that stays faithful itself does, too.                                 *)
LEMMA StaysFaithful ==
  ASSUME ChatInv, LockInv', NEW p \in Collectors, NEW place, NEW locals, Goto(p, place, locals),
         DOMAIN locals = JobFields, Disturbed \/ Faithful(p)',
         UNCHANGED <<screen, causes>>, mixed' = mixed \/ Disturbed
  PROVE  ChatInv'
<1>1. /\ pc'[p] = place /\ job'[p] = locals
      /\ \A q \in Collectors \ {p} : pc'[q] = pc[q] /\ job'[q] = job[q]
  BY GotoShape DEF ChatInv, LockInv
<1>2. JobShape'
  BY <1>1 DEF ChatInv, JobShape, JobFields
<1>3. Disturbed => Disturbed'
  BY DEF Disturbed, LockDefeated
<1>4. ASSUME ~Disturbed PROVE \A q \in Collectors : Faithful(q)'
  BY <1>1, <1>4 DEF ChatInv, Faithful
<1> QED BY <1>2, <1>3, <1>4 DEF ChatInv

LEMMA NextGroupFields ==
  ASSUME NEW p \in Collectors, NextGroup(p)
  PROVE  \E place, locals : Goto(p, place, locals) /\ place = "group" /\ DOMAIN locals = JobFields
<1> DEFINE rest == Tail(job[p].todo)
           onward == IF rest = <<>> THEN NoJob
                     ELSE [NoJob EXCEPT !.todo = rest, !.state = job[p].state]
<1>1. Goto(p, "group", onward)
  BY DEF NextGroup
<1>2. DOMAIN onward = JobFields
  BY DEF JobFields, NoJob
<1> QED BY <1>1, <1>2

LEMMA MovesOn ==
  ASSUME ChatInv, LockInv', NEW p \in Collectors, NextGroup(p), UNCHANGED <<screen, causes>>,
         mixed' = mixed \/ Disturbed
  PROVE  ChatInv'
BY NextGroupFields, GoesElsewhere

(* The centre is sent lines of the group's own chat.                         *)
LEMMA DeliverOwn ==
  ASSUME ChatInv, NEW p \in Collectors, NEW lines, Deliver(p, lines),
         pc[p] \in {"draft", "change"}
  PROVE  mixed' = mixed \/ Disturbed
BY DEF ChatInv, Faithful, Deliver

(* The chat a collector opens is no other collector's to read.               *)
LEMMA OpensAlone ==
  ASSUME ChatInv, LockInv', NEW p \in Collectors, pc[p] \in Working, JobShape',
         pc'[p] \notin {"capture", "draft", "change", "store"},
         \A q \in Collectors \ {p} : pc'[q] = pc[q] /\ job'[q] = job[q],
         UNCHANGED <<causes, mixed>>
  PROVE  ChatInv'
<1>1. ASSUME ~Disturbed, NEW q \in Collectors PROVE Faithful(q)'
  <2>1. q = p \/ pc[q] \notin Working
    BY <1>1 DEF ChatInv, LockInv, Holds, Disturbed
  <2> QED BY <2>1 DEF Faithful, Working
<1>2. Disturbed' <=> Disturbed
  BY DEF Disturbed, LockDefeated
<1> QED BY <1>1, <1>2 DEF ChatInv

LEMMA ChatStep == ChatInv /\ [Next]_vars => ChatInv'
<1> SUFFICES ASSUME ChatInv, [Next]_vars PROVE ChatInv'
  OBVIOUS
<1> USE CollectorAssumption
<1>0. LockInv'
  BY LockStep DEF ChatInv
<1>1. ASSUME UNCHANGED <<screen, causes, mixed, pc, job>> PROVE ChatInv'
  BY <1>0, <1>1 DEF ChatInv, JobShape, Faithful, Disturbed, LockDefeated, JobFields
<1>2. CASE UNCHANGED vars
  BY <1>1, <1>2 DEF vars, history
<1>3. ASSUME NEW p \in Collectors, Locking(p) PROVE ChatInv'
  <2>1. CASE TakeFreeLock(p)
    <3>1. PICK todo : Goto(p, "group", [NoJob EXCEPT !.todo = todo, !.state = saved])
      BY <2>1 DEF TakeFreeLock
    <3> DEFINE locals == [NoJob EXCEPT !.todo = todo, !.state = saved]
    <3>2. DOMAIN locals = JobFields
      BY DEF JobFields, NoJob
    <3>3. Goto(p, "group", locals) /\ UNCHANGED <<screen, causes, mixed>>
      BY <2>1, <3>1 DEF TakeFreeLock, history
    <3> HIDE DEF locals
    <3> QED BY <1>0, <3>2, <3>3, GoesElsewhere
  <2>2. CASE JudgeLock(p)
    <3>1. DOMAIN [NoJob EXCEPT !.verdict = lock] = JobFields
      BY DEF JobFields, NoJob
    <3> QED BY <2>2, <1>0, <3>1, GoesElsewhere DEF JudgeLock
  <2>3. CASE RemoveJudgedLock(p)
    BY <2>3, <1>0, GoesElsewhere DEF RemoveJudgedLock, JobFields
  <2>4. CASE GiveWay(p)
    BY <2>4, <1>0, GoesElsewhere DEF GiveWay, history, JobFields
  <2> QED BY <1>3, <2>1, <2>2, <2>3, <2>4 DEF Locking
<1>4. ASSUME NEW p \in Collectors, Looking(p) PROVE ChatInv'
  <2>1. CASE SkipGroup(p)
    BY <2>1, <1>0, MovesOn DEF SkipGroup, history
  <2>2. CASE OpenGroup(p)
    <3> DEFINE g == Head(job[p].todo)
               locals == [job[p] EXCEPT !.group = g,
                 !.request = IF g \in Bound THEN 1 ELSE job[p].state[g].request]
    <3>1. Goto(p, "title", locals) /\ DOMAIN locals = JobFields
      BY <2>2 DEF OpenGroup, ChatInv, JobShape
    <3> HIDE DEF locals
    <3>2. /\ pc'[p] = "title" /\ job'[p] = locals
          /\ \A q \in Collectors \ {p} : pc'[q] = pc[q] /\ job'[q] = job[q]
      BY <3>1, GotoShape DEF ChatInv, LockInv
    <3>3. JobShape'
      BY <3>1, <3>2 DEF ChatInv, JobShape, JobFields
    <3> QED BY <2>2, <1>0, <3>2, <3>3, OpensAlone DEF OpenGroup, history, Working
  <2>3. CASE CheckTitle(p)
    <3>1. Goto(p, "capture", job[p]) /\ DOMAIN job[p] = JobFields /\ screen = job[p].group
      BY <2>3 DEF CheckTitle, ChatInv, JobShape, TitleMatches
    <3>2. pc'[p] = "capture" /\ job'[p] = job[p]
      BY <3>1, GotoShape DEF ChatInv, LockInv
    <3>3. screen' = screen /\ causes' = causes /\ mixed' = mixed
      BY <2>3 DEF CheckTitle, history
    <3>4. Faithful(p)'
      BY <3>1, <3>2, <3>3 DEF Faithful
    <3> QED BY <1>0, <3>1, <3>3, <3>4, StaysFaithful
  <2>4. CASE ReopenGroup(p)
    <3>1. JobShape'
      BY <2>4 DEF ReopenGroup, ChatInv, JobShape, JobFields
    <3> QED BY <2>4, <1>0, <3>1, OpensAlone DEF ReopenGroup, history, Working
  <2>5. ASSUME NEW lines, pc[p] = "capture", Draft(p, lines), UNCHANGED <<screen, causes, mixed>>
        PROVE ChatInv'
    <3>1. CASE NextGroup(p)
      BY <3>1, <2>5, <1>0, MovesOn
    <3>2. CASE Goto(p, "draft", [job[p] EXCEPT !.shown = screen, !.fresh = lines])
      <4> DEFINE locals == [job[p] EXCEPT !.shown = screen, !.fresh = lines]
      <4>1. DOMAIN locals = JobFields /\ locals.shown = screen /\ locals.group = job[p].group
        BY FieldsOfJob DEF ChatInv, JobShape
      <4>2. pc'[p] = "draft" /\ job'[p] = locals
        BY <3>2, GotoShape DEF ChatInv, LockInv
      <4>3. Disturbed \/ screen = job[p].group
        BY <2>5 DEF ChatInv, Faithful
      <4> HIDE DEF locals
      <4>4. Disturbed \/ Faithful(p)'
        BY <4>1, <4>2, <4>3 DEF Faithful
      <4>5. Goto(p, "draft", locals)
        BY <3>2 DEF locals
      <4> QED BY <2>5, <1>0, <4>1, <4>4, <4>5, StaysFaithful
    <3> QED BY <2>5, <3>1, <3>2 DEF Draft
  <2>6. CASE CaptureFirst(p)
    BY <2>6, <2>5 DEF CaptureFirst, history
  <2>7. CASE CaptureNew(p)
    BY <2>7, <2>5 DEF CaptureNew
  <2> QED BY <1>4, <2>1, <2>2, <2>3, <2>4, <2>6, <2>7 DEF Looking
<1>5. ASSUME NEW p \in Collectors, NEW place, NEW locals, Goto(p, place, locals),
             pc[p] \in {"draft", "change"}, place \in {"change", "store"},
             DOMAIN locals = JobFields, locals.group = job[p].group, locals.shown = job[p].shown,
             UNCHANGED <<screen, causes>>, mixed' = mixed \/ Disturbed
      PROVE ChatInv'
  <2>1. pc'[p] = place /\ job'[p] = locals
    BY <1>5, GotoShape DEF ChatInv, LockInv
  <2>2. Disturbed \/ Faithful(p)'
    BY <1>5, <2>1 DEF ChatInv, Faithful
  <2> QED BY <1>0, <1>5, <2>2, StaysFaithful
<1>6. ASSUME NEW p \in Collectors, Pushing(p) PROVE ChatInv'
  <2>1. CASE PushCollecting(p)
    <3>1. pc[p] = "draft" /\ UNCHANGED <<screen, causes>>
      BY <2>1 DEF PushCollecting, CentreCollects, Collecting
    <3>2. mixed' = mixed \/ Disturbed
      BY <2>1, <3>1, DeliverOwn DEF PushCollecting, CentreCollects
    <3> DEFINE request == IF RequestKnown(p) THEN job[p].request ELSE requests'[job[p].group]
               locals == [job[p] EXCEPT !.request = request]
               place == IF Altered(p) # {} THEN "change" ELSE "store"
    <3>3. Goto(p, place, locals)
      BY <2>1 DEF PushCollecting
    <3>4. DOMAIN locals = JobFields /\ locals.group = job[p].group /\ locals.shown = job[p].shown
      BY FieldsOfJob DEF ChatInv, JobShape
    <3>5. place \in {"change", "store"}
      OBVIOUS
    <3> HIDE DEF locals, place
    <3> QED BY <3>1, <3>2, <3>3, <3>4, <3>5, <1>5
  <2>2. CASE PushChange(p)
    <3>1. pc[p] \in {"draft", "change"} /\ UNCHANGED <<screen, causes>>
      BY <2>2 DEF PushChange, CentreChanges, Changing
    <3>2. mixed' = mixed \/ Disturbed
      BY <2>2, <3>1, DeliverOwn DEF PushChange, CentreChanges
    <3>3. Goto(p, "store", job[p]) /\ DOMAIN job[p] = JobFields
      BY <2>2 DEF PushChange, ChatInv, JobShape
    <3> QED BY <3>1, <3>2, <3>3, <1>5
  <2>3. CASE Store(p)
    BY <2>3, <1>0, MovesOn DEF Store
  <2> QED BY <1>6, <2>1, <2>2, <2>3 DEF Pushing
<1>7. ASSUME NEW p \in Collectors, Failing(p) PROVE ChatInv'
  <2>1. CASE AnswerLost(p)
    <3>1. pc[p] \in {"draft", "change"} /\ UNCHANGED <<screen, causes>> /\ NextGroup(p)
      BY <2>1 DEF AnswerLost, CentreCollects, CentreChanges, Collecting, Changing
    <3>2. mixed' = mixed \/ Disturbed
      BY <2>1, <3>1, DeliverOwn DEF AnswerLost, CentreCollects, CentreChanges
    <3> QED BY <3>1, <3>2, <1>0, MovesOn
  <2>2. CASE FailGroup(p)
    BY <2>2, <1>0, MovesOn DEF FailGroup, history
  <2>3. CASE FailBetweenPushes(p)
    BY <2>3, <1>0, MovesOn DEF FailBetweenPushes
  <2>4. CASE Kill(p)
    BY <2>4, <1>0, GoesElsewhere DEF Kill, JobFields
  <2> QED BY <1>7, <2>1, <2>2, <2>3, <2>4 DEF Failing
<1>8. ASSUME NEW p \in Collectors, Stop(p) PROVE ChatInv'
  BY <1>8, <1>0, GoesElsewhere DEF Stop, Release, history, JobFields
<1>9. ASSUME NEW g \in Groups, Say(g) PROVE ChatInv'
  BY <1>9, <1>1 DEF Say, history
<1>10. CASE UserOpens
  <2>1. UNCHANGED <<pc, job, mixed>>
    BY <1>10 DEF UserOpens
  <2>2. CASE \E p \in Collectors : pc[p] = "capture"
    <3>1. Disturbed'
      BY <1>10, <2>2 DEF UserOpens, Disturbed
    <3> QED BY <1>0, <2>1, <3>1 DEF ChatInv, JobShape, JobFields
  <2>3. CASE ~ \E p \in Collectors : pc[p] = "capture"
    <3>1. causes' = causes
      BY <1>10, <2>3 DEF UserOpens
    <3> QED BY <1>0, <2>1, <2>3, <3>1
            DEF ChatInv, JobShape, JobFields, Faithful, Disturbed, LockDefeated
  <2> QED BY <2>2, <2>3
<1>11. CASE ThirtyMinutesPass
  BY <1>11, <1>1 DEF ThirtyMinutesPass, history
<1> QED BY <1>2, <1>3, <1>4, <1>6, <1>7, <1>8, <1>9, <1>10, <1>11 DEF Next

(* A requirement never gets what was said in another group, unless the lock  *)
(* was defeated or the user opened another chat while one was read.          *)
THEOREM OwnChatHolds == Spec => []OwnChat
<1>1. Spec => []ChatInv
  BY ChatInit, ChatStep, PTL DEF Spec
<1>2. ChatInv => OwnChat
  BY DEF ChatInv, OwnChat, Disturbed
<1> QED BY <1>1, <1>2, PTL

-----------------------------------------------------------------------------
(* What everything is: checkpoints, jobs, and the lines a capture holds.     *)
Checkpoints == [last : Texts \cup {NoLine}, seen : SUBSET Texts, request : Nat]
Jobs == [verdict : Collectors \cup {Free, Dead}, todo : Seq(Groups),
         state : [Groups -> Checkpoints], group : Groups \cup {NoLine},
         shown : Groups \cup {NoLine}, fresh : SUBSET Nat, request : Nat]
Opened == {"title", "capture", "draft", "change", "store"}
Captured == {"draft", "change", "store"}

JobOK(p) ==
    /\ pc[p] \in Opened => job[p].group \in Groups /\ job[p].todo # <<>>
    /\ pc[p] \in Captured => /\ job[p].shown \in Groups /\ job[p].fresh # {}
                             /\ job[p].fresh \subseteq Lines(job[p].shown)

JobsOK ==
    /\ pc \in [Collectors -> Places] /\ job \in [Collectors -> Jobs]
    /\ \A p \in Collectors : JobOK(p)

DataOK ==
    /\ chat \in [Groups -> Seq(Texts)] /\ screen \in Groups
    /\ lock \in Collectors \cup {Free, Dead}
    /\ saved \in [Groups -> Checkpoints] /\ requests \in [Groups -> Nat]
    /\ delivered \in [Groups -> SUBSET Nat] /\ repeated \in [Groups -> SUBSET Nat]
    /\ overrun \in [Groups -> SUBSET Nat] /\ overruled \in [Groups -> SUBSET Nat]
    /\ base \in [Groups -> Nat] /\ covered \in [Groups -> Nat]
    /\ \A g \in Groups : covered[g] <= Len(chat[g])

TypeInv == DataOK /\ JobsOK

LEMMA LeastIsLeast ==
  ASSUME NEW S \in SUBSET Nat, S # {}
  PROVE  Least(S) \in S /\ \A j \in S : Least(S) <= j
<1>1. PICK i \in S : \A j \in S : ~(<<j, i>> \in OpToRel(<, Nat))
  BY WFMin, NatLessThanWellFounded, Zenon
<1>2. \A j \in S : ~(j < i)
  BY <1>1, Zenon DEF OpToRel
<1>3. \A j \in S : i <= j
  BY <1>2
<1> QED BY <1>3 DEF Least

LEMMA GreatestIsGreatest ==
  ASSUME NEW n \in Nat, NEW S \in SUBSET (1..n), S # {}
  PROVE  Greatest(S) \in S /\ \A j \in S : Greatest(S) >= j
<1> DEFINE T == {n - i : i \in S}
<1>1. T \in SUBSET Nat
  OBVIOUS
<1>2. T # {}
  OBVIOUS
<1>3. Least(T) \in T /\ \A j \in T : Least(T) <= j
  BY <1>1, <1>2, LeastIsLeast
<1>4. PICK i \in S : Least(T) = n - i
  BY <1>3
<1>5. \A j \in S : n - i <= n - j
  BY <1>3, <1>4
<1>6. \A j \in S : i >= j
  BY <1>5
<1> QED BY <1>6 DEF Greatest

(* Between its first and its last line a collector has, of a capture, lines  *)
(* of the chat.                                                              *)
LEMMA FreshLines ==
  ASSUME TypeInv, NEW p \in Collectors, pc[p] \in Captured
  PROVE  LET s == job[p].shown IN
         /\ s \in Groups /\ Len(chat[s]) \in Nat
         /\ job[p].fresh \in SUBSET Lines(s) /\ job[p].fresh # {}
         /\ Least(job[p].fresh) \in job[p].fresh
         /\ \A i \in job[p].fresh : Least(job[p].fresh) <= i
         /\ Greatest(job[p].fresh) \in job[p].fresh
         /\ \A i \in job[p].fresh : Greatest(job[p].fresh) >= i
<1>1. /\ job[p].shown \in Groups /\ job[p].fresh \in SUBSET Lines(job[p].shown)
      /\ job[p].fresh # {} /\ Len(chat[job[p].shown]) \in Nat
  BY DEF TypeInv, DataOK, JobsOK, JobOK
<1>2. job[p].fresh \in SUBSET Nat
  BY <1>1 DEF Lines
<1> QED BY <1>1, <1>2, LeastIsLeast, GreatestIsGreatest DEF Lines

LEMMA NoJobType == NoJob \in Jobs /\ NoJob.state = [g \in Groups |-> NoState]
<1>1. [g \in Groups |-> NoState] \in [Groups -> Checkpoints]
  BY DEF NoState, Checkpoints
<1> QED BY <1>1 DEF NoJob, Jobs

LEMMA TypeInit == Init => TypeInv
<1> SUFFICES ASSUME Init PROVE TypeInv
  OBVIOUS
<1>1. /\ saved \in [Groups -> Checkpoints] /\ requests \in [Groups -> Nat]
      /\ chat \in [Groups -> Seq(Texts)] /\ \A g \in Groups : chat[g] = <<>>
  BY DEF Init, NoState, Checkpoints
<1>2. pc \in [Collectors -> Places] /\ job \in [Collectors -> Jobs]
  BY NoJobType DEF Init, Places
<1>3. \A p \in Collectors : JobOK(p)
  BY DEF Init, JobOK, Opened, Captured
<1> QED BY <1>1, <1>2, <1>3 DEF Init, TypeInv, DataOK, JobsOK

LEMMA NextGroupType ==
  ASSUME NEW p \in Collectors, job[p] \in Jobs, job[p].todo # <<>>, NextGroup(p)
  PROVE  \E locals \in Jobs : /\ Goto(p, "group", locals)
                              /\ locals.state \in {job[p].state, [g \in Groups |-> NoState]}
<1> DEFINE rest == Tail(job[p].todo)
           onward == [NoJob EXCEPT !.todo = rest, !.state = job[p].state]
<1>1. rest \in Seq(Groups)
  BY DEF Jobs
<1>2. onward \in Jobs /\ onward.state = job[p].state
  BY <1>1, NoJobType DEF Jobs
<1>3. Goto(p, "group", NoJob) \/ Goto(p, "group", onward)
  BY DEF NextGroup
<1> QED BY <1>2, <1>3, NoJobType

LEMMA GotoType ==
  ASSUME TypeInv, NEW p \in Collectors, NEW place \in Places, NEW locals \in Jobs,
         Goto(p, place, locals), chat' = chat,
         place \in Opened => locals.group \in Groups /\ locals.todo # <<>>,
         place \in Captured => /\ locals.shown \in Groups /\ locals.fresh # {}
                               /\ locals.fresh \subseteq Lines(locals.shown)
  PROVE  JobsOK'
<1>1. /\ pc' \in [Collectors -> Places] /\ job' \in [Collectors -> Jobs]
      /\ pc'[p] = place /\ job'[p] = locals
      /\ \A q \in Collectors \ {p} : pc'[q] = pc[q] /\ job'[q] = job[q]
  BY DEF TypeInv, JobsOK, Goto
<1>2. \A s \in Groups : Lines(s)' = Lines(s)
  BY DEF Lines
<1>3. ASSUME NEW q \in Collectors PROVE JobOK(q)'
  <2>1. CASE q = p
    BY <1>1, <1>2, <2>1 DEF JobOK
  <2>2. CASE q # p
    BY <1>1, <1>2, <2>2 DEF JobOK, TypeInv, JobsOK
  <2> QED BY <2>1, <2>2
<1> QED BY <1>1, <1>3 DEF JobsOK

LEMMA LeavesType ==
  ASSUME TypeInv, NEW p \in Collectors, NEW place \in Places \ Opened, NEW locals \in Jobs,
         Goto(p, place, locals), chat' = chat
  PROVE  JobsOK'
<1>1. place \notin Captured
  BY DEF Captured, Opened
<1> QED BY <1>1, GotoType

LEMMA MovesOnType ==
  ASSUME TypeInv, NEW p \in Collectors, job[p].todo # <<>>, NextGroup(p), chat' = chat
  PROVE  JobsOK'
<1>1. job[p] \in Jobs /\ "group" \in Places \ Opened
  BY DEF TypeInv, JobsOK, Places, Opened
<1> QED BY <1>1, NextGroupType, LeavesType

LEMMA DeliverType ==
  ASSUME TypeInv, NEW p \in Collectors, pc[p] \in Captured, NEW lines \in SUBSET Nat,
         Deliver(p, lines)
  PROVE  /\ delivered' \in [Groups -> SUBSET Nat] /\ repeated' \in [Groups -> SUBSET Nat]
         /\ mixed \subseteq mixed'
         /\ \A g \in Groups : delivered[g] \subseteq delivered'[g]
         /\ job[p].shown # job[p].group => job[p].group \in mixed'
         /\ job[p].shown = job[p].group => lines \subseteq delivered'[job[p].group]
<1>1. /\ job[p].group \in Groups /\ delivered \in [Groups -> SUBSET Nat]
      /\ repeated \in [Groups -> SUBSET Nat]
  BY DEF TypeInv, DataOK, JobsOK, JobOK, Captured, Opened
<1> QED BY <1>1 DEF Deliver

(* What is pushed, or left out of a push, are lines of the capture.          *)
LEMMA PushType ==
  ASSUME TypeInv, NEW p \in Collectors
  PROVE  {Stated(p), ChangePush(p), Overruled(p)} \subseteq SUBSET Nat
<1>1. \A kind : Having(p, kind) \in SUBSET Nat
  BY DEF TypeInv, JobsOK, Jobs, Having
<1> QED BY <1>1 DEF Stated, ChangePush, Overruled

LEMMA TypeStep == TypeInv /\ [Next]_vars => TypeInv'
<1> SUFFICES ASSUME TypeInv, [Next]_vars PROVE TypeInv'
  OBVIOUS
<1> USE CollectorAssumption
<1>1. ASSUME DataOK', UNCHANGED <<chat, pc, job>> PROVE TypeInv'
  BY <1>1 DEF TypeInv, JobsOK, JobOK, Lines
<1>2. ASSUME UNCHANGED <<chat, saved, requests, delivered, repeated, overrun, overruled, base,
                         covered>>,
             screen' \in Groups, lock' \in Collectors \cup {Free, Dead}
      PROVE  DataOK'
  BY <1>2 DEF TypeInv, DataOK
<1>3. CASE UNCHANGED vars
  <2>1. DataOK'
    BY <1>2, <1>3 DEF vars, file, centre, history, TypeInv, DataOK
  <2> QED BY <1>1, <1>3, <2>1 DEF vars
<1>4. ASSUME NEW p \in Collectors
      PROVE  /\ job[p] \in Jobs /\ job[p].state \in [Groups -> Checkpoints]
             /\ NoJob \in Jobs /\ pc[p] \in Places
             /\ pc[p] \in Opened => job[p].group \in Groups /\ job[p].todo # <<>>
             /\ pc[p] \in Captured => pc[p] \in Opened
  BY <1>4, NoJobType DEF TypeInv, JobsOK, JobOK, Jobs, Captured, Opened
<1>5. ASSUME NEW p \in Collectors, Locking(p) PROVE TypeInv'
  <2>1. DataOK'
    BY <1>2, <1>5
    DEF Locking, TakeFreeLock, JudgeLock, RemoveJudgedLock, GiveWay, file, centre, history,
        TypeInv, DataOK
  <2>2. chat' = chat
    BY <1>5 DEF Locking, TakeFreeLock, JudgeLock, RemoveJudgedLock, GiveWay
  <2>3. CASE TakeFreeLock(p)
    <3>1. PICK todo \in Seq(Groups) : Goto(p, "group", [NoJob EXCEPT !.todo = todo, !.state = saved])
      <4>1. \A g \in Groups : <<g>> \in Seq(Groups)
        OBVIOUS
      <4>2. \A todo \in IF p \in Queued THEN {<<g>> : g \in Groups} ELSE {Configured} :
              todo \in Seq(Groups)
        BY <4>1
      <4> QED BY <2>3, <4>2 DEF TakeFreeLock
    <3> DEFINE locals == [NoJob EXCEPT !.todo = todo, !.state = saved]
    <3>2. locals \in Jobs
      BY <1>4, NoJobType DEF Jobs, TypeInv, DataOK
    <3> HIDE DEF locals
    <3>3. Goto(p, "group", locals)
      BY <3>1 DEF locals
    <3> QED BY <2>1, <2>2, <3>2, <3>3, LeavesType DEF TypeInv, Places, Opened
  <2>4. CASE JudgeLock(p)
    <3> DEFINE locals == [NoJob EXCEPT !.verdict = lock]
    <3>1. locals \in Jobs
      BY NoJobType DEF Jobs, TypeInv, DataOK
    <3>2. Goto(p, "judged", locals)
      BY <2>4 DEF JudgeLock
    <3> HIDE DEF locals
    <3> QED BY <2>1, <2>2, <3>1, <3>2, LeavesType DEF TypeInv, Places, Opened
  <2>5. CASE RemoveJudgedLock(p)
    BY <2>1, <2>2, <2>5, NoJobType, LeavesType DEF RemoveJudgedLock, TypeInv, Places, Opened
  <2>6. CASE GiveWay(p)
    BY <2>1, <2>2, <2>6, NoJobType, LeavesType DEF GiveWay, TypeInv, Places, Opened
  <2> QED BY <1>5, <2>3, <2>4, <2>5, <2>6 DEF Locking
<1>6. ASSUME NEW p \in Collectors, SkipGroup(p) \/ FailGroup(p) \/ FailBetweenPushes(p)
      PROVE  TypeInv'
  <2>1. DataOK'
    BY <1>2, <1>6
    DEF SkipGroup, FailGroup, FailBetweenPushes, AfterFailure, file, centre, history,
        TypeInv, DataOK
  <2>2. chat' = chat /\ NextGroup(p) /\ job[p].todo # <<>>
    BY <1>4, <1>6 DEF SkipGroup, FailGroup, FailBetweenPushes, Opened
  <2> QED BY <2>1, <2>2, MovesOnType DEF TypeInv
<1>7. ASSUME NEW p \in Collectors, OpenGroup(p) \/ CheckTitle(p) \/ ReopenGroup(p)
      PROVE  TypeInv'
  <2>1. CASE OpenGroup(p)
    <3> DEFINE g == Head(job[p].todo)
               locals == [job[p] EXCEPT !.group = g,
                 !.request = IF g \in Bound THEN 1 ELSE job[p].state[g].request]
    <3>1. job[p].todo # <<>> /\ job[p].todo \in Seq(Groups) /\ g \in Groups
      BY <1>4, <2>1 DEF OpenGroup, Jobs
    <3>2. job[p].state[g].request \in Nat
      BY <1>4, <3>1 DEF Checkpoints
    <3>3. locals \in Jobs /\ locals.group \in Groups /\ locals.todo # <<>>
      BY <1>4, <3>1, <3>2 DEF Jobs
    <3>4. Goto(p, "title", locals) /\ chat' = chat /\ screen' = g
      BY <2>1 DEF OpenGroup
    <3>5. DataOK'
      BY <1>2, <2>1, <3>1, <3>4 DEF OpenGroup, file, centre, history, TypeInv, DataOK
    <3> HIDE DEF locals
    <3> QED BY <3>3, <3>4, <3>5, GotoType DEF TypeInv, Places, Captured
  <2>2. CASE CheckTitle(p)
    <3>1. DataOK'
      BY <1>2, <2>2 DEF CheckTitle, file, centre, history, TypeInv, DataOK
    <3>2. job[p].group \in Groups /\ job[p].todo # <<>> /\ chat' = chat
          /\ Goto(p, "capture", job[p])
      BY <1>4, <2>2 DEF CheckTitle, Opened
    <3> QED BY <1>4, <3>1, <3>2, GotoType DEF TypeInv, Places, Captured
  <2>3. CASE ReopenGroup(p)
    <3>1. screen' \in Groups
      BY <1>4, <2>3 DEF ReopenGroup, Opened
    <3>2. DataOK'
      BY <1>2, <2>3, <3>1 DEF ReopenGroup, file, centre, history, TypeInv, DataOK
    <3> QED BY <1>1, <2>3, <3>2 DEF ReopenGroup
  <2> QED BY <1>7, <2>1, <2>2, <2>3
<1>8. ASSUME NEW p \in Collectors, NEW lines \in SUBSET Lines(screen), pc[p] = "capture",
             Draft(p, lines), chat' = chat
      PROVE  JobsOK'
  <2>1. CASE Signal(screen, lines)
    <3> DEFINE locals == [job[p] EXCEPT !.shown = screen, !.fresh = lines]
    <3>1. screen \in Groups /\ Lines(screen) \subseteq Nat /\ lines # {}
      BY <2>1 DEF TypeInv, DataOK, Lines, Signal
    <3>2. locals \in Jobs /\ locals.shown = screen /\ locals.fresh = lines
          /\ locals.group \in Groups /\ locals.todo # <<>>
      BY <1>4, <1>8, <3>1 DEF Jobs, Opened
    <3>3. Goto(p, "draft", locals)
      BY <1>8, <2>1 DEF Draft
    <3> HIDE DEF locals
    <3> QED BY <1>8, <3>1, <3>2, <3>3, GotoType DEF Places
  <2>2. CASE ~Signal(screen, lines)
    BY <1>4, <1>8, <2>2, MovesOnType DEF Draft, Opened
  <2> QED BY <2>1, <2>2
<1>9. ASSUME NEW p \in Collectors, CaptureFirst(p) PROVE TypeInv'
  <2>1. DataOK'
    BY <1>2, <1>9 DEF CaptureFirst, file, centre, history, TypeInv, DataOK
  <2>2. PICK w, from : Draft(p, ReadDownwards(screen, w, from))
    BY <1>9 DEF CaptureFirst
  <2>3. ReadDownwards(screen, w, from) \in SUBSET Lines(screen)
    BY DEF ReadDownwards
  <2> QED BY <1>8, <1>9, <2>1, <2>2, <2>3 DEF CaptureFirst, TypeInv
<1>10. ASSUME NEW p \in Collectors, CaptureNew(p) PROVE TypeInv'
  <2> DEFINE g == job[p].group
             checkpoint == job[p].state[g]
  <2>1. PICK w :
          LET read == ReadUpwards(screen, w, checkpoint.last)
              hit == \E i \in read : chat[screen][i] = checkpoint.last
          IN  /\ Draft(p, AfterCheckpoint(screen, read, checkpoint))
              /\ overrun' = [overrun EXCEPT ![g] = @ \cup
                   IF hit \/ screen # g THEN {} ELSE {i \in Lines(g) : i > covered[g]} \ read]
    BY <1>10 DEF CaptureNew
  <2>2. \A read : read \subseteq Lines(screen) =>
          AfterCheckpoint(screen, read, checkpoint) \in SUBSET Lines(screen)
    BY DEF AfterCheckpoint
  <2>3. ReadUpwards(screen, w, checkpoint.last) \subseteq Lines(screen)
    BY DEF ReadUpwards, Page
  <2>4. overrun' \in [Groups -> SUBSET Nat]
    <3> DEFINE read == ReadUpwards(screen, w, checkpoint.last)
               hit == \E i \in read : chat[screen][i] = checkpoint.last
               out == IF hit \/ screen # g THEN {} ELSE {i \in Lines(g) : i > covered[g]} \ read
    <3>1. out \in SUBSET Nat
      BY DEF Lines
    <3>2. overrun' = [overrun EXCEPT ![g] = @ \cup out]
      BY <2>1
    <3> HIDE DEF out
    <3> QED BY <3>1, <3>2 DEF TypeInv, DataOK
  <2>5. DataOK'
    BY <1>10, <2>4 DEF CaptureNew, file, centre, TypeInv, DataOK
  <2> QED BY <1>8, <1>10, <2>1, <2>2, <2>3, <2>5 DEF CaptureNew, TypeInv
<1>11. ASSUME NEW p \in Collectors, CentreCollects(p) \/ CentreChanges(p),
              UNCHANGED <<chat, screen, saved, overrun, overruled, base, covered>>,
              lock' = lock
       PROVE  DataOK' /\ requests' \in [Groups -> Nat] /\ pc[p] \in Captured
  <2>1. pc[p] \in Captured
    BY <1>11 DEF CentreCollects, CentreChanges, Collecting, Changing, Captured
  <2>2. requests' \in [Groups -> Nat]
    <3>1. job[p].group \in Groups /\ requests \in [Groups -> Nat]
      BY <1>4, <2>1 DEF TypeInv, DataOK
    <3>2. requests' \in {requests, [requests EXCEPT ![job[p].group] = @ + 1]}
      BY <1>11, <3>1 DEF CentreCollects, CentreChanges
    <3>3. requests[job[p].group] + 1 \in Nat
      BY <3>1
    <3>4. [requests EXCEPT ![job[p].group] = @ + 1] \in [Groups -> Nat]
      BY <3>1, <3>3
    <3> QED BY <3>1, <3>2, <3>4
  <2>3. delivered' \in [Groups -> SUBSET Nat] /\ repeated' \in [Groups -> SUBSET Nat]
    BY <1>11, <2>1, DeliverType, PushType DEF CentreCollects, CentreChanges
  <2> QED BY <1>11, <2>1, <2>2, <2>3 DEF TypeInv, DataOK
<1>12. ASSUME NEW p \in Collectors, Pushing(p) \/ AnswerLost(p) PROVE TypeInv'
  <2>1. CASE PushCollecting(p)
    <3>1. DataOK' /\ requests' \in [Groups -> Nat] /\ pc[p] \in Captured /\ chat' = chat
      BY <1>11, <2>1 DEF PushCollecting, file
    <3> DEFINE request == IF RequestKnown(p) THEN job[p].request ELSE requests'[job[p].group]
               locals == [job[p] EXCEPT !.request = request]
               place == IF Altered(p) # {} THEN "change" ELSE "store"
    <3>2. request \in Nat
      BY <1>4, <3>1 DEF Jobs
    <3> HIDE DEF request
    <3>3. /\ locals \in Jobs /\ locals.group = job[p].group /\ locals.shown = job[p].shown
          /\ locals.fresh = job[p].fresh /\ locals.todo = job[p].todo
      BY <1>4, <3>2 DEF Jobs
    <3>4. Goto(p, place, locals) /\ place \in Places
      BY <2>1 DEF PushCollecting, Places, request
    <3> HIDE DEF locals, place
    <3> QED BY <1>4, <3>1, <3>3, <3>4, GotoType DEF TypeInv, JobsOK, JobOK
  <2>2. CASE PushChange(p)
    <3>1. DataOK' /\ pc[p] \in Captured /\ chat' = chat
      BY <1>11, <2>2 DEF PushChange, file
    <3>2. Goto(p, "store", job[p]) /\ "store" \in Places
      BY <2>2 DEF PushChange, Places
    <3> QED BY <1>4, <3>1, <3>2, GotoType DEF TypeInv, JobsOK, JobOK
  <2>3. CASE AnswerLost(p)
    <3>1. DataOK' /\ pc[p] \in Captured /\ chat' = chat /\ NextGroup(p)
      BY <1>11, <2>3 DEF AnswerLost, file
    <3> QED BY <1>4, <3>1, MovesOnType DEF TypeInv
  <2>4. CASE Store(p)
    <3> DEFINE g == job[p].group
               old == job[p].state[g]
               new == {chat[job[p].shown][i] : i \in job[p].fresh}
               last == Greatest(job[p].fresh)
               first == Least(job[p].fresh)
    <3>1. pc[p] \in Captured /\ chat' = chat /\ NextGroup(p)
      BY <2>4 DEF Store, Captured
    <3>2. /\ job[p].shown \in Groups /\ job[p].fresh \in SUBSET Lines(job[p].shown)
          /\ first \in Nat /\ last \in 1..Len(chat[job[p].shown])
      BY <3>1, FreshLines DEF Lines
    <3>3. g \in Groups /\ old \in Checkpoints
      BY <1>4, <3>1
    <3>4. new \subseteq Texts /\ chat[job[p].shown][last] \in Texts
      <4>1. chat[job[p].shown] \in Seq(Texts)
        BY <3>2 DEF TypeInv, DataOK
      <4>2. \A i \in Lines(job[p].shown) : chat[job[p].shown][i] \in Texts
        BY <4>1 DEF Lines
      <4> QED BY <3>2, <4>2 DEF Lines
    <3>5. [last |-> chat[job[p].shown][last], seen |-> old.seen \cup new,
           request |-> job[p].request] \in Checkpoints
      BY <1>4, <3>3, <3>4 DEF Checkpoints, Jobs
    <3> HIDE DEF first, last, new, old
    <3>6. saved' \in [Groups -> Checkpoints]
      BY <2>4, <3>5 DEF Store, TypeInv, DataOK, last, new, old
    <3>7. base' \in [Groups -> Nat]
      <4>1. base' = [base EXCEPT ![g] =
               IF job[p].shown = g /\ old.last = NoLine /\ first > base[g] THEN first ELSE base[g]]
        BY <2>4 DEF Store, first, old, TypeInv, DataOK
      <4> QED BY <3>2, <4>1 DEF TypeInv, DataOK
    <3>8. covered' \in [Groups -> Nat] /\ \A h \in Groups : covered'[h] <= Len(chat[h])
      <4>1. covered' = [covered EXCEPT ![g] =
               IF job[p].shown = g /\ last > covered[g] THEN last ELSE covered[g]]
        BY <2>4 DEF Store, last
      <4>2. covered \in [Groups -> Nat] /\ \A h \in Groups : covered[h] <= Len(chat[h])
        BY DEF TypeInv, DataOK
      <4>3. covered' \in [Groups -> Nat]
        BY <3>2, <3>3, <4>1, <4>2
      <4>4. \A h \in Groups : covered'[h] <= Len(chat[h])
        BY <3>2, <3>3, <4>1, <4>2
      <4> QED BY <4>3, <4>4
    <3>10. overruled' \in [Groups -> SUBSET Nat]
      <4>1. Overruled(p) \in SUBSET Nat
        BY PushType
      <4>2. overruled' = [overruled EXCEPT ![g] =
               IF job[p].shown = g THEN overruled[g] \cup Overruled(p) ELSE overruled[g]]
        BY <2>4 DEF Store, TypeInv, DataOK
      <4> QED BY <3>3, <4>1, <4>2 DEF TypeInv, DataOK
    <3>11. DataOK'
      BY <2>4, <3>6, <3>7, <3>8, <3>10 DEF Store, file, centre, TypeInv, DataOK
    <3> QED BY <1>4, <3>1, <3>11, MovesOnType DEF TypeInv
  <2> QED BY <1>12, <2>1, <2>2, <2>3, <2>4 DEF Pushing
<1>13. ASSUME NEW p \in Collectors, Kill(p) \/ Stop(p) PROVE TypeInv'
  <2>1. DataOK'
    BY <1>2, <1>13 DEF Kill, Stop, Release, centre, history, TypeInv, DataOK
  <2>2. Goto(p, "idle", NoJob) /\ chat' = chat
    BY <1>13 DEF Kill, Stop, Release
  <2> QED BY <2>1, <2>2, NoJobType, LeavesType DEF TypeInv, Places, Opened
<1>14. ASSUME NEW g \in Groups, Say(g) PROVE TypeInv'
  <2>1. PICK t \in Texts : chat' = [chat EXCEPT ![g] = Append(@, t)]
    BY <1>14 DEF Say
  <2>2. /\ chat' \in [Groups -> Seq(Texts)]
        /\ \A h \in Groups : Len(chat[h]) <= Len(chat'[h])
    BY <2>1 DEF TypeInv, DataOK
  <2>3. \A h \in Groups : covered[h] <= Len(chat'[h]) /\ Lines(h) \subseteq Lines(h)'
    BY <2>2 DEF TypeInv, DataOK, Lines
  <2>4. DataOK'
    BY <1>14, <2>2, <2>3 DEF Say, file, centre, history, TypeInv, DataOK
  <2>5. JobsOK'
    BY <1>14, <2>3 DEF Say, TypeInv, JobsOK, JobOK
  <2> QED BY <2>4, <2>5 DEF TypeInv
<1>15. CASE UserOpens \/ ThirtyMinutesPass
  <2>1. DataOK'
    BY <1>2, <1>15
    DEF UserOpens, ThirtyMinutesPass, file, centre, history, TypeInv, DataOK
  <2> QED BY <1>1, <1>15, <2>1 DEF UserOpens, ThirtyMinutesPass
<1> QED
  BY <1>3, <1>5, <1>6, <1>7, <1>9, <1>10, <1>12, <1>13, <1>14, <1>15
  DEF Next, Looking, Failing

-----------------------------------------------------------------------------
(* What customers said.  A checkpoint knows only texts of lines that are     *)
(* covered; of a capture in hand, every line it will cover is among its new  *)
(* lines, out of its reach, covered before, or in a repetition.              *)
Known(g, t) == \E j \in Lines(g) : j <= covered[g] /\ chat[g][j] = t
CheckpointKnown(g, c) == (c.last # NoLine => Known(g, c.last)) /\ \A t \in c.seen : Known(g, t)
Due(p, i) ==
    LET g == job[p].group IN
    /\ chat[g][i] \in Signals /\ i <= Greatest(job[p].fresh)
    /\ job[p].state[g].last = NoLine => i >= Least(job[p].fresh)
InHand(p) ==
    LET g == job[p].group IN
    pc[p] \in Captured /\ g \notin mixed =>
        /\ pc[p] \in {"change", "store"} => job[p].shown = g
        /\ job[p].shown = g =>
            /\ \A i \in Lines(g) : Due(p, i) =>
                  i \in job[p].fresh \cup overrun[g] \/ i <= covered[g] \/ InRepetition(g, i)
            /\ pc[p] = "change" => Stated(p) \subseteq delivered[g]
            /\ pc[p] = "store" => Having(p, Signals) \subseteq delivered[g] \cup Overruled(p)

ReadInv ==
    /\ \A g \in Groups \ mixed :
        /\ covered[g] > 0 => base[g] > 0
        /\ CheckpointKnown(g, saved[g])
        /\ \A p \in Collectors : CheckpointKnown(g, job[p].state[g])
    /\ \A p \in Collectors : InHand(p)
    /\ NothingMissed

(* What no step takes back.                                                  *)
Grows ==
    /\ mixed \subseteq mixed'
    /\ \A g \in Groups :
        /\ Lines(g) \subseteq Lines(g)' /\ \A i \in Lines(g) : chat'[g][i] = chat[g][i]
        /\ delivered[g] \subseteq delivered'[g] /\ overrun[g] \subseteq overrun'[g]
        /\ overruled[g] \subseteq overruled'[g]
        /\ covered[g] <= covered'[g]

LEMMA ReadInit == Init => ReadInv
<1> SUFFICES ASSUME Init PROVE ReadInv
  OBVIOUS
<1>1. \A g \in Groups : covered[g] = 0 /\ saved[g] = NoState
  BY DEF Init
<1>2. \A p \in Collectors : pc[p] = "idle" /\ job[p].state = [g \in Groups |-> NoState]
  BY NoJobType DEF Init
<1>3. \A g \in Groups : CheckpointKnown(g, NoState)
  BY DEF CheckpointKnown, NoState
<1>4. \A p \in Collectors : InHand(p)
  BY <1>2 DEF InHand, Captured
<1>5. NothingMissed
  BY <1>1 DEF NothingMissed, Lines, Init
<1> QED BY <1>1, <1>2, <1>3, <1>4, <1>5 DEF ReadInv

LEMMA GrowsStep == TypeInv /\ [Next]_vars => Grows
<1> SUFFICES ASSUME TypeInv, [Next]_vars PROVE Grows
  OBVIOUS
<1> USE CollectorAssumption
<1>1. /\ chat \in [Groups -> Seq(Texts)]
      /\ delivered \in [Groups -> SUBSET Nat] /\ overrun \in [Groups -> SUBSET Nat]
      /\ overruled \in [Groups -> SUBSET Nat] /\ covered \in [Groups -> Nat]
  BY DEF TypeInv, DataOK
<1>2. ASSUME UNCHANGED <<chat, delivered, mixed, overrun, overruled, covered>> PROVE Grows
  BY <1>1, <1>2 DEF Grows, Lines
<1>3. CASE UNCHANGED vars
  BY <1>2, <1>3 DEF vars, centre, history
<1>4. ASSUME NEW p \in Collectors, Locking(p) \/ Stop(p) \/ Kill(p) \/ FailGroup(p)
             \/ FailBetweenPushes(p)
      PROVE Grows
  BY <1>2, <1>4
  DEF Locking, TakeFreeLock, JudgeLock, RemoveJudgedLock, GiveWay, Stop, Kill, FailGroup,
      FailBetweenPushes, centre, history
<1>5. ASSUME NEW p \in Collectors, Looking(p) PROVE Grows
  <2>1. CASE CaptureNew(p)
    <3>1. UNCHANGED <<chat, delivered, mixed, overruled, covered>>
          /\ \E out : overrun' = [overrun EXCEPT ![job[p].group] = @ \cup out]
      BY <2>1 DEF CaptureNew, centre
    <3>2. \A g \in Groups : overrun[g] \subseteq overrun'[g]
      BY <1>1, <3>1
    <3> QED BY <1>1, <3>1, <3>2 DEF Grows, Lines
  <2>2. CASE ~CaptureNew(p)
    BY <1>2, <1>5, <2>2
    DEF Looking, SkipGroup, OpenGroup, CheckTitle, ReopenGroup, CaptureFirst, centre, history
  <2> QED BY <2>1, <2>2
<1>6. ASSUME NEW p \in Collectors, PushCollecting(p) \/ PushChange(p) \/ AnswerLost(p)
      PROVE Grows
  <2>1. UNCHANGED <<chat, overrun, overruled, covered>> /\ (CentreCollects(p) \/ CentreChanges(p))
    BY <1>6 DEF PushCollecting, PushChange, AnswerLost
  <2>2. pc[p] \in Captured
    BY <2>1 DEF CentreCollects, CentreChanges, Collecting, Changing, Captured
  <2>3. mixed \subseteq mixed' /\ \A g \in Groups : delivered[g] \subseteq delivered'[g]
    BY <2>1, <2>2, DeliverType, PushType DEF CentreCollects, CentreChanges
  <2> QED BY <1>1, <2>1, <2>3 DEF Grows, Lines
<1>7. ASSUME NEW p \in Collectors, Store(p) PROVE Grows
  <2> DEFINE last == Greatest(job[p].fresh)
  <2>1. UNCHANGED <<chat, delivered, overrun, mixed>>
        /\ covered' = [covered EXCEPT ![job[p].group] =
             IF job[p].shown = job[p].group /\ last > covered[job[p].group]
             THEN last ELSE covered[job[p].group]]
        /\ \E lines : overruled' = [overruled EXCEPT ![job[p].group] =
              IF job[p].shown = job[p].group THEN @ \cup lines ELSE @]
    BY <1>7, Zenon DEF Store, centre
  <2>2. last \in Nat
    BY <1>7, FreshLines DEF Store, Captured, Lines
  <2> HIDE DEF last
  <2>3. \A g \in Groups : covered[g] <= covered'[g]
    BY <1>1, <2>1, <2>2
  <2>4. \A g \in Groups : overruled[g] \subseteq overruled'[g]
    BY <1>1, <2>1
  <2> QED BY <1>1, <2>1, <2>3, <2>4 DEF Grows, Lines
<1>8. ASSUME NEW g \in Groups, Say(g) PROVE Grows
  <2>1. PICK t \in Texts : chat' = [chat EXCEPT ![g] = Append(@, t)]
    BY <1>8 DEF Say
  <2>2. \A h \in Groups : Lines(h) \subseteq Lines(h)' /\ \A i \in Lines(h) : chat'[h][i] = chat[h][i]
    BY <1>1, <2>1 DEF Lines
  <2>3. UNCHANGED <<delivered, overrun, overruled, mixed, covered>>
    BY <1>8 DEF Say, centre, history
  <2>4. \A h \in Groups : covered[h] <= covered[h]
    BY <1>1
  <2> QED BY <2>2, <2>3, <2>4 DEF Grows
<1>9. CASE UserOpens \/ ThirtyMinutesPass
  BY <1>2, <1>9 DEF UserOpens, ThirtyMinutesPass, centre, history
<1> QED
  BY <1>3, <1>4, <1>5, <1>6, <1>7, <1>8, <1>9 DEF Next, Pushing, Failing

(* What was known stays known, and a capture in hand in hand.                *)
LEMMA KnownKept ==
  ASSUME TypeInv, TypeInv', Grows, NEW g \in Groups
  PROVE  /\ \A t : Known(g, t) => Known(g, t)'
         /\ \A c : CheckpointKnown(g, c) => CheckpointKnown(g, c)'
         /\ \A i : InRepetition(g, i) => InRepetition(g, i)'
<1>1. covered[g] \in Nat /\ covered'[g] \in Nat /\ Lines(g) \subseteq Nat
  <2>1. covered \in [Groups -> Nat] /\ chat \in [Groups -> Seq(Texts)]
    BY DEF TypeInv, DataOK
  <2>2. covered' \in [Groups -> Nat]
    BY DEF TypeInv, DataOK
  <2> QED BY <2>1, <2>2 DEF Lines
<1>2. \A t : Known(g, t) => Known(g, t)'
  BY <1>1 DEF Grows, Known
<1>3. \A c : CheckpointKnown(g, c) => CheckpointKnown(g, c)'
  BY <1>2 DEF CheckpointKnown
<1>4. \A i : InRepetition(g, i) => InRepetition(g, i)'
  BY DEF Grows, InRepetition
<1> QED BY <1>2, <1>3, <1>4

(* What a capture pushes and leaves out depends on its lines alone.          *)
LEMMA SameCapture ==
  ASSUME NEW q, job'[q].fresh = job[q].fresh, job'[q].shown = job[q].shown,
         \A i \in job[q].fresh : chat'[job[q].shown][i] = chat[job[q].shown][i]
  PROVE  /\ Having(q, Signals)' = Having(q, Signals)
         /\ Having(q, Changes)' = Having(q, Changes)
         /\ Stated(q)' = Stated(q) /\ Overruled(q)' = Overruled(q)
<1>1. \A kind : Having(q, kind)' = Having(q, kind)
  BY DEF Having
<1>2. \A what : \A i \in job[q].fresh : About(q, what, i)' = About(q, what, i)
  BY DEF About
<1>3. Altered(q)' = Altered(q)
  BY <1>2 DEF Altered
<1>4. Having(q, Signals)' = Having(q, Signals) /\ Having(q, Changes)' = Having(q, Changes)
      /\ Having(q, Signals \ Changes)' = Having(q, Signals \ Changes)
  BY <1>1 DEF Signals, Changes
<1>5. \A kind : \A i \in Having(q, kind) : i \in job[q].fresh
  BY DEF Having
<1>6. Stated(q)' = Stated(q)
  BY <1>2, <1>3, <1>4, <1>5 DEF Stated
<1>7. Overruled(q)' = Overruled(q)
  BY <1>2, <1>3, <1>4, <1>5 DEF Overruled
<1> QED BY <1>4, <1>6, <1>7

(* Each line of a capture that says something is stated, a change, or        *)
(* overruled by one; and without a change there is nothing to overrule.      *)
LEMMA EachLine ==
  ASSUME NEW p
  PROVE  /\ Having(p, Signals) \subseteq Stated(p) \cup Having(p, Changes) \cup Overruled(p)
         /\ Altered(p) = {} => Having(p, Changes) = {} /\ Overruled(p) = {}
<1>1. ASSUME NEW i \in Having(p, Signals), i \notin Having(p, Changes)
      PROVE  i \in Stated(p) \cup Overruled(p)
  <2>1. i \in Having(p, Signals \ Changes) /\ About(p, States, i) # {}
    BY <1>1 DEF Having, Signals, About
  <2> QED BY <2>1 DEF Stated, Overruled
<1>2. ASSUME Altered(p) = {} PROVE Having(p, Changes) = {}
  <2>1. \A i \in Having(p, Changes) : i \in job[p].fresh /\ About(p, Alters, i) # {}
    BY DEF Having, Changes, About
  <2> QED BY <1>2, <2>1 DEF Altered
<1>3. ASSUME Altered(p) = {} PROVE Overruled(p) = {}
  BY <1>3 DEF Overruled
<1> QED BY <1>1, <1>2, <1>3

LEMMA InHandKept ==
  ASSUME TypeInv, TypeInv', Grows, NEW q \in Collectors, InHand(q),
         pc'[q] = pc[q], job'[q] = job[q]
  PROVE  InHand(q)'
<1> DEFINE g == job[q].group
<1> SUFFICES ASSUME pc[q] \in Captured, g \notin mixed, job[q].shown = g
             PROVE  /\ \A i \in Lines(g)' : Due(q, i)' =>
                         i \in job[q].fresh \cup overrun'[g] \/ i <= covered'[g]
                         \/ InRepetition(g, i)'
                    /\ pc[q] = "change" => Stated(q)' \subseteq delivered'[g]
                    /\ pc[q] = "store" =>
                         Having(q, Signals)' \subseteq delivered'[g] \cup Overruled(q)'
  BY DEF InHand, Grows
<1>1. g \in Groups /\ covered[g] \in Nat /\ covered'[g] \in Nat /\ Len(chat[g]) \in Nat
  <2>1. g \in Groups
    BY DEF TypeInv, JobsOK, JobOK, Captured, Opened
  <2>2. covered \in [Groups -> Nat] /\ chat \in [Groups -> Seq(Texts)]
    BY DEF TypeInv, DataOK
  <2>3. covered' \in [Groups -> Nat]
    BY DEF TypeInv, DataOK
  <2> QED BY <2>1, <2>2, <2>3
<1>2. /\ job[q].fresh \in SUBSET Lines(g) /\ Greatest(job[q].fresh) \in job[q].fresh
  BY FreshLines
<1>3. ASSUME NEW i \in Lines(g)', Due(q, i)'
      PROVE  i \in job[q].fresh \cup overrun'[g] \/ i <= covered'[g] \/ InRepetition(g, i)'
  <2>1. i \in Lines(g)
    BY <1>1, <1>2, <1>3 DEF Due, Lines
  <2>2. Due(q, i)
    BY <1>1, <1>3, <2>1 DEF Due, Grows
  <2>3. i \in job[q].fresh \cup overrun[g] \/ i <= covered[g] \/ InRepetition(g, i)
    BY <2>1, <2>2 DEF InHand
  <2> QED BY <1>1, <2>1, <2>3, KnownKept DEF Grows, Lines
<1>4. /\ Having(q, Signals)' = Having(q, Signals)
      /\ Stated(q)' = Stated(q) /\ Overruled(q)' = Overruled(q)
  BY <1>1, <1>2, SameCapture DEF Grows
<1> QED BY <1>1, <1>3, <1>4 DEF InHand, Grows

(* A step that stores nothing leaves what was read accounted for, if every   *)
(* collector has in hand what it should.                                     *)
LEMMA NothingStored ==
  ASSUME TypeInv, TypeInv', ReadInv, Grows, UNCHANGED <<saved, base, covered>>,
         \A q \in Collectors :
            /\ InHand(q)'
            /\ job'[q].state \in {job[q].state, saved, [g \in Groups |-> NoState]}
  PROVE  ReadInv'
<1>1. ASSUME NEW g \in Groups \ mixed'
      PROVE  /\ covered'[g] > 0 => base'[g] > 0
             /\ CheckpointKnown(g, saved[g])'
             /\ \A q \in Collectors : CheckpointKnown(g, job[q].state[g])'
  <2>1. g \in Groups \ mixed
    BY <1>1 DEF Grows
  <2>2. \A c : CheckpointKnown(g, c) => CheckpointKnown(g, c)'
    BY <2>1, KnownKept
  <2>3. ASSUME NEW c \in {saved[g], NoState} PROVE CheckpointKnown(g, c)'
    <3>1. CheckpointKnown(g, c)
      BY <2>1, <2>3 DEF ReadInv, CheckpointKnown, NoState
    <3> QED BY <2>2, <3>1
  <2>4. ASSUME NEW q \in Collectors PROVE CheckpointKnown(g, job[q].state[g])'
    <3>1. PICK c \in {job[q].state[g], saved[g], NoState} : job'[q].state[g] = c
      BY <2>1
    <3>2. CheckpointKnown(g, c)
      BY <2>1, <3>1 DEF ReadInv, CheckpointKnown, NoState
    <3>3. CheckpointKnown(g, c)'
      BY <2>2, <3>2
    <3> QED BY <3>1, <3>3 DEF CheckpointKnown, Known
  <2>5. CheckpointKnown(g, saved[g])'
    BY <2>3 DEF CheckpointKnown, Known
  <2> QED BY <2>1, <2>4, <2>5 DEF ReadInv
<1>2. NothingMissed'
  <2> SUFFICES ASSUME NEW g \in Groups \ mixed', NEW i \in Lines(g)',
                      base[g] <= i, i <= covered[g], base[g] > 0, chat'[g][i] \in Signals
               PROVE  i \in delivered'[g] \cup overrun'[g] \cup overruled'[g]
                      \/ InRepetition(g, i)'
    BY DEF NothingMissed
  <2>1. g \in Groups \ mixed /\ i \in Lines(g) /\ chat'[g][i] = chat[g][i]
    <3>1. covered \in [Groups -> Nat] /\ covered[g] <= Len(chat[g])
          /\ chat \in [Groups -> Seq(Texts)]
      BY DEF TypeInv, DataOK
    <3>2. i \in Nat /\ i > 0
      BY DEF Lines
    <3>3. i \in Lines(g)
      BY <3>1, <3>2 DEF Lines
    <3> QED BY <3>3 DEF Grows
  <2>2. i \in delivered[g] \cup overrun[g] \cup overruled[g] \/ InRepetition(g, i)
    BY <2>1 DEF ReadInv, NothingMissed
  <2>3. InRepetition(g, i) => InRepetition(g, i)'
    BY <2>1, KnownKept
  <2> QED BY <2>1, <2>2, <2>3 DEF Grows
<1> QED BY <1>1, <1>2 DEF ReadInv

LEMMA ReadKept ==
  ASSUME TypeInv, TypeInv', ReadInv, Grows, UNCHANGED <<saved, base, covered>>,
         NEW p \in Collectors, NEW place, NEW locals, Goto(p, place, locals),
         locals.state \in {job[p].state, saved, [g \in Groups |-> NoState]},
         InHand(p)'
  PROVE  ReadInv'
<1>1. /\ pc'[p] = place /\ job'[p] = locals
      /\ \A q \in Collectors \ {p} : pc'[q] = pc[q] /\ job'[q] = job[q]
  BY DEF TypeInv, JobsOK, Goto
<1>2. \A q \in Collectors : InHand(q)'
  BY <1>1, InHandKept DEF ReadInv
<1>3. \A q \in Collectors : job'[q].state \in {job[q].state, saved, [g \in Groups |-> NoState]}
  BY <1>1
<1> QED BY <1>2, <1>3, NothingStored

LEMMA ReadUntouched ==
  ASSUME TypeInv, TypeInv', ReadInv, Grows, UNCHANGED <<saved, base, covered, pc, job>>
  PROVE  ReadInv'
<1>1. \A q \in Collectors : InHand(q)'
  BY InHandKept DEF ReadInv
<1> QED BY <1>1, NothingStored

LEMMA ReadLeaves ==
  ASSUME TypeInv, TypeInv', ReadInv, Grows, UNCHANGED <<saved, base, covered>>,
         NEW p \in Collectors, NEW place, place \notin Captured, NEW locals,
         Goto(p, place, locals),
         locals.state \in {job[p].state, saved, [g \in Groups |-> NoState]}
  PROVE  ReadInv'
<1>1. InHand(p)'
  BY DEF InHand, Goto, TypeInv, JobsOK
<1> QED BY <1>1, ReadKept

LEMMA ReadMovesOn ==
  ASSUME TypeInv, TypeInv', ReadInv, Grows, UNCHANGED <<saved, base, covered>>,
         NEW p \in Collectors, job[p].todo # <<>>, NextGroup(p)
  PROVE  ReadInv'
<1>1. job[p] \in Jobs /\ "group" \notin Captured
  BY DEF TypeInv, JobsOK, Captured
<1> QED BY <1>1, NextGroupType, ReadLeaves

(* The screenshots taken upwards leave no line out between the first they    *)
(* show and the bottom of the chat.                                          *)
LEMMA ReadUpwardsClosed ==
  ASSUME NEW s, NEW w \in Nat, NEW last, Len(chat[s]) \in Nat,
         NEW i \in ReadUpwards(s, w, last), NEW k \in Lines(s), i <= k
  PROVE  k \in ReadUpwards(s, w, last)
<1> DEFINE n == PagesRead(s, w, last)
           L == Len(chat[s])
           up(b) == L - b * w
<1>1. n \in Nat
  <2> DEFINE located == PagesWith(s, w, last)
  <2>1. MaxPages \in Nat /\ located \in SUBSET Nat
    BY CollectorAssumption DEF PagesWith
  <2> HIDE DEF located
  <2>2. located # {} => Least(located) \in located
    BY <2>1, LeastIsLeast
  <2> QED BY <2>1, <2>2 DEF PagesRead, located
<1>2. L \in Nat /\ k \in 1..L /\ i \in Nat
  BY DEF Lines, ReadUpwards, Page
<1>3. \A b \in Nat : up(b) \in Int
  OBVIOUS
<1>4. up(0) = L
  <2>1. 0 * w = 0
    OBVIOUS
  <2>2. up(0) = L - 0
    BY <2>1, Zenon
  <2>3. L - 0 = L
    BY <1>2
  <2> QED BY <2>2, <2>3
<1>5. PICK a \in 1..n : i > up(a)
  BY DEF ReadUpwards, Page
<1>6. ASSUME NEW b \in 1..n, k > up(b), k <= up(b - 1) PROVE k \in ReadUpwards(s, w, last)
  <2>1. k \in Page(s, w, b)
    BY <1>6, Zenon DEF Page
  <2> QED BY <2>1 DEF ReadUpwards
<1> HIDE DEF up, n, L
<1> DEFINE reaching == {b \in 1..a : k > up(b)}
<1>7. a \in Nat /\ up(a) \in Int
  BY <1>1, <1>3, <1>5
<1>8. a \in reaching /\ reaching \in SUBSET Nat
  BY <1>1, <1>2, <1>5, <1>7
<1>9. Least(reaching) \in reaching /\ \A c \in reaching : Least(reaching) <= c
  BY <1>8, LeastIsLeast
<1>10. PICK b \in reaching : \A c \in reaching : b <= c
  BY <1>9
<1>11. b \in 1..n /\ b - 1 \in Nat /\ up(b - 1) \in Int
  BY <1>1, <1>3, <1>7, <1>10
<1>12. k <= up(b - 1)
  <2>1. CASE b = 1
    BY <1>2, <1>4, <2>1
  <2>2. CASE b # 1
    <3>1. b - 1 \in 1..a /\ b - 1 \notin reaching
      BY <1>7, <1>10, <1>11, <2>2
    <3> QED BY <1>2, <1>11, <3>1
  <2> QED BY <2>1, <2>2
<1> QED BY <1>6, <1>10, <1>11, <1>12

(* What a capture leaves out is out of its reach, covered or repeated.       *)
LEMMA FirstInHand ==
  ASSUME TypeInv, TypeInv', ReadInv, Grows, NEW p \in Collectors, CaptureFirst(p)
  PROVE  ReadInv'
<1> DEFINE g == job[p].group
<1>1. /\ chat' = chat /\ UNCHANGED <<saved, base, covered>>
      /\ pc[p] = "capture" /\ job[p].state[g].last = NoLine /\ screen \in Groups
      /\ job[p] \in Jobs /\ job[p].todo # <<>> /\ job \in [Collectors -> Jobs]
      /\ pc \in [Collectors -> Places]
  BY DEF CaptureFirst, history, TypeInv, DataOK, JobsOK, JobOK, Opened
<1>2. PICK w \in Windows, from \in Lines(screen) : Draft(p, ReadDownwards(screen, w, from))
  BY DEF CaptureFirst
<1> DEFINE lines == ReadDownwards(screen, w, from)
           end == from + MaxPages * w
           locals == [job[p] EXCEPT !.shown = screen, !.fresh = lines]
<1>3. from \in Nat /\ end \in Nat
  BY CollectorAssumption DEF Lines
<1>4. lines = {i \in Lines(screen) : i >= from /\ i < end}
  BY DEF ReadDownwards
<1>5. CASE NextGroup(p)
  BY <1>1, <1>5, ReadMovesOn
<1>6. CASE Goto(p, "draft", locals)
  <2>1. /\ locals.group = g /\ locals.shown = screen /\ locals.fresh = lines
        /\ locals.state = job[p].state
    BY <1>1 DEF Jobs
  <2>2. pc'[p] = "draft" /\ job'[p] = locals
    BY <1>1, <1>6 DEF Goto
  <2>3. /\ lines \in SUBSET Lines(screen) /\ lines # {}
        /\ Greatest(lines) \in lines /\ Least(lines) \in lines
    <3>1. lines = job'[p].fresh /\ screen = job'[p].shown /\ pc'[p] \in Captured
      BY <2>1, <2>2 DEF Captured
    <3>2. lines \in SUBSET Lines(screen) /\ lines # {}
      BY <3>1, <1>1 DEF TypeInv, JobsOK, JobOK, Lines
    <3>3. Lines(screen) \subseteq Nat /\ Len(chat[screen]) \in Nat
      BY <1>1 DEF TypeInv, DataOK, Lines
    <3> QED BY <3>2, <3>3, LeastIsLeast, GreatestIsGreatest DEF Lines
  <2> HIDE DEF locals, lines, end
  <2>4. ASSUME NEW i \in Lines(screen), i <= Greatest(lines), i >= Least(lines)
        PROVE  i \in lines
    BY <1>3, <1>4, <2>3, <2>4 DEF Lines
  <2>5. InHand(p)'
    BY <1>1, <2>1, <2>2, <2>4 DEF InHand, Due, Lines
  <2> QED BY <1>1, <1>6, <2>1, <2>5, ReadKept
<1> QED BY <1>2, <1>5, <1>6 DEF Draft

LEMMA NewInHand ==
  ASSUME TypeInv, TypeInv', ReadInv, Grows, NEW p \in Collectors, CaptureNew(p)
  PROVE  ReadInv'
<1> DEFINE g == job[p].group
           c == job[p].state[g]
<1>1. /\ chat' = chat /\ UNCHANGED <<saved, base, covered>>
      /\ pc[p] = "capture" /\ c.last # NoLine /\ screen \in Groups
      /\ job[p] \in Jobs /\ job[p].todo # <<>> /\ job \in [Collectors -> Jobs]
      /\ pc \in [Collectors -> Places] /\ g \in Groups
  BY DEF CaptureNew, TypeInv, DataOK, JobsOK, JobOK, Opened
<1>2. PICK w \in Windows :
        LET read == ReadUpwards(screen, w, c.last)
            hit == \E i \in read : chat[screen][i] = c.last
        IN  /\ Draft(p, AfterCheckpoint(screen, read, c))
            /\ overrun' = [overrun EXCEPT ![g] = @ \cup
                 IF hit \/ screen # g THEN {} ELSE {i \in Lines(g) : i > covered[g]} \ read]
  BY DEF CaptureNew
<1> DEFINE read == ReadUpwards(screen, w, c.last)
           hits == {i \in read : chat[screen][i] = c.last}
           lines == AfterCheckpoint(screen, read, c)
           locals == [job[p] EXCEPT !.shown = screen, !.fresh = lines]
<1>3. w \in Nat /\ read \subseteq Lines(screen) /\ Lines(screen) \subseteq Nat
      /\ Len(chat[screen]) \in Nat
  BY <1>1, CollectorAssumption DEF ReadUpwards, Page, Lines, TypeInv, DataOK
<1>4. \A i \in read, k \in Lines(screen) : i <= k => k \in read
  BY <1>3, ReadUpwardsClosed
<1>5. /\ hits # {} => lines = {i \in read : i > Least(hits)} /\ Least(hits) \in hits
      /\ hits = {} => lines = {i \in read : chat[screen][i] \notin c.seen}
      /\ hits = {} /\ screen = g => {i \in Lines(g) : i > covered[g]} \ read \subseteq overrun'[g]
  <2>1. hits # {} => Least(hits) \in hits
    BY <1>3, LeastIsLeast
  <2>2. hits = {} /\ screen = g => {i \in Lines(g) : i > covered[g]} \ read \subseteq overrun'[g]
    BY <1>1, <1>2 DEF TypeInv, DataOK
  <2> QED BY <2>1, <2>2 DEF AfterCheckpoint
<1>6. CASE NextGroup(p)
  BY <1>1, <1>6, ReadMovesOn
<1>7. CASE Goto(p, "draft", locals)
  <2>1. /\ locals.group = g /\ locals.shown = screen /\ locals.fresh = lines
        /\ locals.state = job[p].state
    BY <1>1 DEF Jobs
  <2>2. pc'[p] = "draft" /\ job'[p] = locals
    BY <1>1, <1>7 DEF Goto
  <2>3. lines # {} /\ Greatest(lines) \in Lines(screen)
    <3>1. lines = job'[p].fresh /\ screen = job'[p].shown /\ pc'[p] \in Captured
      BY <2>1, <2>2 DEF Captured
    <3>2. /\ lines # {} /\ lines \in SUBSET Lines(screen)
      BY <3>1, <1>1 DEF TypeInv, JobsOK, JobOK, Lines
    <3> QED BY <1>3, <3>2, GreatestIsGreatest DEF Lines
  <2> HIDE DEF locals, lines, read
  <2>4. ASSUME g \notin mixed, screen = g, NEW i \in Lines(g), i <= Greatest(lines)
        PROVE  i \in lines \cup overrun'[g] \/ i <= covered[g] \/ InRepetition(g, i)
    <3>1. Lines(g) \subseteq Nat /\ covered[g] \in Nat
      BY <1>1 DEF Lines, TypeInv, DataOK
    <3>2. \A j, k \in Lines(g) : j < i /\ i <= k /\ chat[g][j] = chat[g][k] => InRepetition(g, i)
      BY DEF InRepetition
    <3>3. CheckpointKnown(g, c)
      BY <1>1, <2>4 DEF ReadInv
    <3>4. CASE hits # {}
      <4> DEFINE h == Least(hits)
      <4>1. h \in read /\ chat[g][h] = c.last /\ h \in Lines(g)
        BY <1>3, <1>5, <2>4, <3>4
      <4>2. PICK j \in Lines(g) : j <= covered[g] /\ chat[g][j] = c.last
        BY <1>1, <3>3 DEF CheckpointKnown, Known
      <4> HIDE DEF h, hits
      <4>3. CASE i > h
        BY <1>4, <1>5, <2>4, <3>1, <3>4, <4>1, <4>3 DEF h
      <4>4. CASE i <= h
        BY <1>1, <3>1, <3>2, <4>1, <4>2, <4>4
      <4> QED BY <3>1, <4>1, <4>3, <4>4
    <3>5. CASE hits = {}
      <4>1. CASE i \in read /\ chat[g][i] \in c.seen
        <5>1. PICK j \in Lines(g) : j <= covered[g] /\ chat[g][j] = chat[g][i]
          BY <3>3, <4>1 DEF CheckpointKnown, Known
        <5> QED BY <1>1, <3>1, <3>2, <5>1
      <4>2. CASE i \in read /\ chat[g][i] \notin c.seen
        BY <1>5, <2>4, <3>5, <4>2
      <4>3. CASE i \notin read
        BY <1>1, <1>5, <2>4, <3>1, <3>5, <4>3
      <4> QED BY <4>1, <4>2, <4>3
    <3> QED BY <3>4, <3>5
  <2>5. InHand(p)'
    BY <1>1, <2>1, <2>2, <2>4 DEF InHand, Due, Grows, Lines, InRepetition
  <2> QED BY <1>1, <1>7, <2>1, <2>5, ReadKept
<1> QED BY <1>2, <1>6, <1>7 DEF Draft

(* A push delivers what its place promises.                                  *)
LEMMA PushedInHand ==
  ASSUME TypeInv, TypeInv', ReadInv, Grows, NEW p \in Collectors,
         PushCollecting(p) \/ PushChange(p)
  PROVE  ReadInv'
<1> DEFINE g == job[p].group
<1>1. /\ UNCHANGED <<chat, saved, base, covered, overrun>> /\ pc[p] \in Captured
      /\ CentreCollects(p) \/ CentreChanges(p)
  BY DEF PushCollecting, PushChange, CentreCollects, CentreChanges, Collecting, Changing,
     Captured
<1>2. job[p] \in Jobs /\ job \in [Collectors -> Jobs] /\ pc \in [Collectors -> Places]
  BY DEF TypeInv, JobsOK
<1>3. PICK place, locals :
         /\ place \in {"change", "store"} /\ Goto(p, place, locals)
         /\ locals.group = g /\ locals.shown = job[p].shown /\ locals.fresh = job[p].fresh
         /\ locals.state = job[p].state
         /\ PushCollecting(p) => (place = "store" => Altered(p) = {})
         /\ PushChange(p) => place = "store"
  <2>1. CASE PushCollecting(p)
    <3> DEFINE request == IF RequestKnown(p) THEN job[p].request ELSE requests'[g]
               locals == [job[p] EXCEPT !.request = request]
               place == IF Altered(p) # {} THEN "change" ELSE "store"
    <3>1. Goto(p, place, locals) /\ ~PushChange(p)
      BY <2>1 DEF PushCollecting, PushChange, CentreCollects, CentreChanges, Collecting, Changing
    <3>2. /\ locals.group = g /\ locals.shown = job[p].shown /\ locals.fresh = job[p].fresh
          /\ locals.state = job[p].state
      BY <1>2 DEF Jobs
    <3>3. place \in {"change", "store"} /\ (place = "store" => Altered(p) = {})
      OBVIOUS
    <3> HIDE DEF locals, place
    <3> QED BY <3>1, <3>2, <3>3
  <2>2. CASE ~PushCollecting(p)
    BY <2>2, Zenon DEF PushChange
  <2> QED BY <2>1, <2>2
<1>4. pc'[p] = place /\ job'[p] = locals
  BY <1>2, <1>3 DEF Goto
<1>5. /\ Having(p, Signals)' = Having(p, Signals)
      /\ Stated(p)' = Stated(p) /\ Overruled(p)' = Overruled(p)
  BY <1>1, <1>3, <1>4, SameCapture
<1>6. /\ job[p].shown # g => g \in mixed'
      /\ job[p].shown = g /\ PushCollecting(p) => Stated(p) \subseteq delivered'[g]
      /\ job[p].shown = g /\ PushChange(p) => ChangePush(p) \subseteq delivered'[g]
  BY <1>1, DeliverType, PushType
  DEF PushCollecting, PushChange, CentreCollects, CentreChanges
<1>7. g \in Groups /\ delivered[g] \subseteq delivered'[g]
  <2>1. g \in Groups
    BY <1>1 DEF TypeInv, JobsOK, JobOK, Captured, Opened
  <2> QED BY <2>1 DEF Grows
<1>8. /\ Having(p, Signals) \subseteq Stated(p) \cup Having(p, Changes) \cup Overruled(p)
      /\ Altered(p) = {} => Having(p, Changes) = {} /\ Overruled(p) = {}
  BY EachLine
<1>9. ASSUME g \notin mixed'
      PROVE  /\ job[p].shown = g
             /\ place = "change" => Stated(p) \subseteq delivered'[g]
             /\ place = "store" => Having(p, Signals) \subseteq delivered'[g] \cup Overruled(p)
  <2>1. job[p].shown = g /\ g \notin mixed
    BY <1>6, <1>9 DEF Grows
  <2>2. CASE PushCollecting(p)
    BY <1>3, <1>6, <1>8, <2>1, <2>2
  <2>3. CASE PushChange(p)
    <3>1. pc[p] \in {"draft", "change"}
      BY <2>3 DEF PushChange, CentreChanges, Changing
    <3>2. Stated(p) \cup Having(p, Changes) \subseteq delivered'[g]
      <4>1. CASE pc[p] = "change"
        <5>1. Stated(p) \subseteq delivered[g]
          BY <1>1, <2>1, <4>1 DEF ReadInv, InHand
        <5> QED BY <1>6, <1>7, <2>1, <2>3, <4>1, <5>1 DEF ChangePush
      <4>2. CASE pc[p] = "draft"
        BY <1>6, <2>1, <2>3, <4>2 DEF ChangePush
      <4> QED BY <3>1, <4>1, <4>2
    <3> QED BY <1>3, <1>8, <2>1, <2>3, <3>2
  <2> QED BY <2>1, <2>2, <2>3
<1>10. ASSUME g \notin mixed', NEW i \in Lines(g), chat[g][i] \in Signals,
              i <= Greatest(job[p].fresh),
              job[p].state[g].last = NoLine => i >= Least(job[p].fresh)
       PROVE  i \in job[p].fresh \cup overrun[g] \/ i <= covered[g] \/ InRepetition(g, i)
  <2>1. job[p].shown = g /\ g \notin mixed /\ Due(p, i)
    BY <1>9, <1>10 DEF Grows, Due
  <2> QED BY <1>1, <2>1 DEF ReadInv, InHand
<1>11. InHand(p)'
  BY <1>1, <1>3, <1>4, <1>5, <1>9, <1>10 DEF InHand, Due, Lines, InRepetition
<1> QED BY <1>1, <1>3, <1>11, ReadKept

(* What a checkpoint newly covers was in hand.                               *)
LEMMA StoredRead ==
  ASSUME TypeInv, TypeInv', ReadInv, Grows, NEW p \in Collectors, Store(p)
  PROVE  ReadInv'
<1> DEFINE g == job[p].group
           old == job[p].state[g]
           first == Least(job[p].fresh)
           last == Greatest(job[p].fresh)
           new == {chat[job[p].shown][i] : i \in job[p].fresh}
<1>1. /\ pc[p] = "store" /\ pc[p] \in Captured /\ NextGroup(p)
      /\ UNCHANGED <<chat, delivered, overrun, mixed>>
      /\ saved' = [saved EXCEPT ![g] =
           [last |-> chat[job[p].shown][last], seen |-> old.seen \cup new, request |-> job[p].request]]
      /\ base' = [base EXCEPT ![g] =
           IF job[p].shown = g /\ old.last = NoLine /\ first > base[g] THEN first ELSE base[g]]
      /\ covered' = [covered EXCEPT ![g] =
           IF job[p].shown = g /\ last > covered[g] THEN last ELSE covered[g]]
  BY DEF Store, centre, Captured
<1>2. /\ saved \in [Groups -> Checkpoints] /\ base \in [Groups -> Nat]
      /\ covered \in [Groups -> Nat] /\ chat \in [Groups -> Seq(Texts)]
      /\ g \in Groups /\ job[p].todo # <<>> /\ job[p] \in Jobs
      /\ overruled \in [Groups -> SUBSET Nat]
  BY <1>1 DEF TypeInv, DataOK, JobsOK, JobOK, Captured, Opened
<1>3. PICK locals : /\ Goto(p, "group", locals)
                    /\ locals.state \in {job[p].state, [h \in Groups |-> NoState]}
  BY <1>1, <1>2, NextGroupType
<1>4. /\ pc'[p] = "group" /\ job'[p] = locals
      /\ \A q \in Collectors \ {p} : pc'[q] = pc[q] /\ job'[q] = job[q]
  BY <1>3 DEF Goto, TypeInv, JobsOK
<1>5. ASSUME NEW q \in Collectors PROVE InHand(q)'
  <2>1. CASE q = p
    BY <1>4, <2>1 DEF InHand, Captured
  <2>2. CASE q # p
    BY <1>4, <2>2, InHandKept DEF ReadInv
  <2> QED BY <2>1, <2>2
<1>6. ASSUME NEW h \in Groups \ mixed', NEW q \in Collectors
      PROVE  CheckpointKnown(h, job[q].state[h])'
  <2>1. PICK c \in {job[q].state[h], NoState} : job'[q].state[h] = c
    BY <1>3, <1>4
  <2>2. CheckpointKnown(h, c)
    BY <1>1, <1>6, <2>1 DEF ReadInv, CheckpointKnown, NoState
  <2>3. CheckpointKnown(h, c)'
    BY <2>2, KnownKept
  <2> QED BY <2>1, <2>3 DEF CheckpointKnown, Known
<1>7. ASSUME NEW h \in Groups \ mixed', h # g
      PROVE  /\ covered'[h] > 0 => base'[h] > 0
             /\ CheckpointKnown(h, saved[h])'
             /\ base'[h] = base[h] /\ covered'[h] = covered[h]
  <2>1. saved'[h] = saved[h] /\ base'[h] = base[h] /\ covered'[h] = covered[h]
    BY <1>1, <1>2, <1>7
  <2>2. CheckpointKnown(h, saved[h]) /\ (covered[h] > 0 => base[h] > 0)
    BY <1>1, <1>7 DEF ReadInv
  <2>3. \A c : CheckpointKnown(h, c) => CheckpointKnown(h, c)'
    BY <1>7, KnownKept
  <2>4. CheckpointKnown(h, saved[h])'
    BY <2>1, <2>2, <2>3 DEF CheckpointKnown, Known
  <2> QED BY <2>1, <2>2, <2>4
<1>8. ASSUME g \notin mixed
      PROVE  /\ job[p].shown = g
             /\ job[p].fresh \subseteq Lines(g)
             /\ first \in job[p].fresh /\ last \in job[p].fresh
             /\ \A i \in job[p].fresh : first <= i /\ i <= last
             /\ Lines(g) \subseteq Nat \ {0}
             /\ CheckpointKnown(g, old)
             /\ covered[g] > 0 => base[g] > 0
             /\ Having(p, Signals) \subseteq delivered[g] \cup overruled'[g]
             /\ \A i \in Lines(g) : Due(p, i) =>
                   i \in job[p].fresh \cup overrun[g] \/ i <= covered[g] \/ InRepetition(g, i)
  <2>1. job[p].shown = g
    BY <1>1, <1>8 DEF ReadInv, InHand
  <2>2. Lines(g) \subseteq Nat \ {0}
    BY DEF Lines
  <2>3. /\ job[p].fresh \subseteq Lines(g)
        /\ first \in job[p].fresh /\ last \in job[p].fresh
        /\ \A i \in job[p].fresh : first <= i /\ last >= i
    BY <1>1, <2>1, FreshLines
  <2>4. \A i \in job[p].fresh : i <= last
    BY <2>2, <2>3
  <2>5. CheckpointKnown(g, old) /\ (covered[g] > 0 => base[g] > 0)
    BY <1>2, <1>8 DEF ReadInv
  <2>6. /\ Having(p, Signals) \subseteq delivered[g] \cup Overruled(p)
        /\ \A i \in Lines(g) : Due(p, i) =>
              i \in job[p].fresh \cup overrun[g] \/ i <= covered[g] \/ InRepetition(g, i)
    BY <1>1, <1>8, <2>1 DEF ReadInv, InHand
  <2>7. Overruled(p) \subseteq overruled'[g]
    BY <1>2, <2>1 DEF Store
  <2> QED BY <2>1, <2>2, <2>3, <2>4, <2>5, <2>6, <2>7
<1> HIDE DEF first, last
<1>9. ASSUME g \notin mixed
      PROVE  /\ covered'[g] \in {covered[g], last} /\ last <= covered'[g]
             /\ base'[g] > 0 /\ base[g] <= base'[g] /\ base'[g] \in Nat
             /\ old.last = NoLine => first <= base'[g]
  <2>1. first \in Nat \ {0} /\ last \in Nat /\ base[g] \in Nat /\ covered[g] \in Nat
    BY <1>2, <1>8, <1>9
  <2>2. /\ covered'[g] = IF last > covered[g] THEN last ELSE covered[g]
        /\ base'[g] = IF old.last = NoLine /\ first > base[g] THEN first ELSE base[g]
    BY <1>1, <1>2, <1>8, <1>9
  <2>3. old.last # NoLine => base[g] > 0
    <3>1. old.last # NoLine => \E j \in Lines(g) : j <= covered[g]
      BY <1>8, <1>9 DEF CheckpointKnown, Known
    <3> QED BY <1>8, <1>9, <2>1, <3>1
  <2> QED BY <2>1, <2>2, <2>3
<1>10. ASSUME NEW h \in Groups, h = g, h \notin mixed PROVE CheckpointKnown(h, saved[h])'
  <2>1. saved'[h].last = chat[h][last] /\ saved'[h].seen = old.seen \cup new
    BY <1>1, <1>2, <1>8, <1>10
  <2>2. ASSUME NEW i \in job[p].fresh, NEW t, t = chat[h][i] PROVE Known(h, t)'
    <3>1. i \in Lines(h) /\ i <= covered'[h]
      <4>1. i \in Nat /\ last \in Nat /\ covered[g] \in Nat
        BY <1>2, <1>8, <1>10
      <4> QED BY <1>8, <1>9, <1>10, <4>1
    <3> QED BY <1>1, <2>2, <3>1 DEF Known, Lines
  <2>3. PICK c : c = old
    OBVIOUS
  <2>4. \A t \in c.seen : Known(h, t)'
    <3>1. CheckpointKnown(h, c)'
      BY <1>8, <1>10, <2>3, KnownKept
    <3> QED BY <3>1 DEF CheckpointKnown
  <2>5. \A t \in new : Known(h, t)'
    BY <1>8, <1>10, <2>2
  <2>6. \A t : t = chat[h][last] => Known(h, t)'
    BY <1>8, <1>10, <2>2
  <2>7. \A t \in saved'[h].seen : Known(h, t)'
    BY <2>1, <2>3, <2>4, <2>5
  <2>8. Known(h, saved[h].last)'
    BY <2>1, <2>6 DEF Known
  <2> HIDE DEF new
  <2> QED BY <2>7, <2>8 DEF CheckpointKnown
<1>11. ASSUME NEW h \in Groups \ mixed, NEW i \in Lines(h), base'[h] <= i, i <= covered'[h],
              base'[h] > 0, chat[h][i] \in Signals
       PROVE  i \in delivered[h] \cup overrun[h] \cup overruled'[h] \/ InRepetition(h, i)
  <2>1. ASSUME base[h] <= i, i <= covered[h], base[h] > 0
        PROVE  i \in delivered[h] \cup overrun[h] \cup overruled'[h] \/ InRepetition(h, i)
    BY <1>11, <2>1 DEF ReadInv, NothingMissed, Grows
  <2>2. CASE h # g
    BY <1>1, <1>7, <1>11, <2>1, <2>2
  <2>3. CASE h = g
    <3>1. /\ i \in Nat /\ i > 0 /\ covered[g] \in Nat /\ base[g] \in Nat
          /\ first \in Nat /\ last \in Nat
      BY <1>2, <1>8, <1>11, <2>3
    <3>2. CASE i <= covered[g]
      BY <1>8, <1>9, <1>11, <2>1, <2>3, <3>1, <3>2
    <3>3. CASE i > covered[g]
      <4>1. i <= last /\ (old.last = NoLine => i >= first)
        BY <1>9, <1>11, <2>3, <3>1, <3>3
      <4>2. Due(p, i)
        BY <1>11, <2>3, <4>1 DEF Due, first, last
      <4>3. i \in job[p].fresh => i \in Having(p, Signals)
        BY <1>8, <1>11, <2>3 DEF Having
      <4> QED BY <1>8, <1>11, <2>3, <3>1, <3>3, <4>2, <4>3
    <3> QED BY <3>1, <3>2, <3>3
  <2> QED BY <2>2, <2>3
<1>12. NothingMissed'
  BY <1>1, <1>11 DEF NothingMissed, InRepetition, Lines
<1>13. ASSUME NEW h \in Groups \ mixed'
       PROVE  /\ covered'[h] > 0 => base'[h] > 0
              /\ CheckpointKnown(h, saved[h])'
  <2>1. CASE h = g
    BY <1>1, <1>9, <1>10, <1>13, <2>1
  <2>2. CASE h # g
    BY <1>7, <1>13, <2>2
  <2> QED BY <2>1, <2>2
<1> QED BY <1>5, <1>6, <1>12, <1>13 DEF ReadInv

LEMMA ReadStep == TypeInv /\ TypeInv' /\ ReadInv /\ [Next]_vars => ReadInv'
<1> SUFFICES ASSUME TypeInv, TypeInv', ReadInv, [Next]_vars PROVE ReadInv'
  OBVIOUS
<1>1. Grows
  BY GrowsStep
<1>2. CASE UNCHANGED vars
  BY <1>1, <1>2, ReadUntouched DEF vars, history
<1>3. ASSUME NEW p \in Collectors
      PROVE  /\ NoJob.state = [g \in Groups |-> NoState]
             /\ NoJob \in Jobs /\ job[p] \in Jobs
             /\ pc[p] \in Opened => job[p].todo # <<>>
  BY NoJobType DEF TypeInv, JobsOK, JobOK
<1>4. ASSUME NEW p \in Collectors, Locking(p) PROVE ReadInv'
  <2>1. UNCHANGED <<saved, base, covered>>
    BY <1>4 DEF Locking, TakeFreeLock, JudgeLock, RemoveJudgedLock, GiveWay, history
  <2>2. CASE TakeFreeLock(p)
    <3>1. PICK todo : Goto(p, "group", [NoJob EXCEPT !.todo = todo, !.state = saved])
      BY <2>2 DEF TakeFreeLock
    <3> DEFINE locals == [NoJob EXCEPT !.todo = todo, !.state = saved]
    <3>2. locals.state = saved /\ "group" \notin Captured
      BY <1>3 DEF Jobs, Captured
    <3>3. Goto(p, "group", locals)
      BY <3>1
    <3> HIDE DEF locals
    <3> QED BY <1>1, <2>1, <3>2, <3>3, ReadLeaves
  <2>3. CASE JudgeLock(p)
    <3> DEFINE locals == [NoJob EXCEPT !.verdict = lock]
    <3>1. locals.state = [g \in Groups |-> NoState] /\ "judged" \notin Captured
      BY <1>3 DEF Jobs, Captured
    <3>2. Goto(p, "judged", locals)
      BY <2>3 DEF JudgeLock
    <3> HIDE DEF locals
    <3> QED BY <1>1, <2>1, <3>1, <3>2, ReadLeaves
  <2>4. CASE RemoveJudgedLock(p) \/ GiveWay(p)
    <3>1. PICK place \in {"retry", "idle"} : Goto(p, place, NoJob)
      BY <2>4, Zenon DEF RemoveJudgedLock, GiveWay
    <3>2. place \notin Captured
      BY DEF Captured
    <3> QED BY <1>1, <1>3, <2>1, <3>1, <3>2, ReadLeaves
  <2> QED BY <1>4, <2>2, <2>3, <2>4 DEF Locking
<1>5. ASSUME NEW p \in Collectors, Stop(p) \/ Kill(p) PROVE ReadInv'
  <2>1. UNCHANGED <<saved, base, covered>> /\ Goto(p, "idle", NoJob) /\ "idle" \notin Captured
    BY <1>5 DEF Stop, Kill, Release, history, Captured
  <2> QED BY <1>1, <1>3, <2>1, ReadLeaves
<1>6. ASSUME NEW p \in Collectors,
             SkipGroup(p) \/ FailGroup(p) \/ FailBetweenPushes(p) \/ AnswerLost(p)
      PROVE  ReadInv'
  <2>1. UNCHANGED <<saved, base, covered>> /\ NextGroup(p)
    BY <1>6 DEF SkipGroup, FailGroup, FailBetweenPushes, AfterFailure, AnswerLost, history
  <2>2. job[p].todo # <<>>
    BY <1>3, <1>6
    DEF SkipGroup, FailGroup, FailBetweenPushes, AnswerLost, CentreCollects, CentreChanges,
        Collecting, Changing, Opened
  <2> QED BY <1>1, <2>1, <2>2, ReadMovesOn
<1>7. ASSUME NEW p \in Collectors, OpenGroup(p) \/ CheckTitle(p) \/ ReopenGroup(p)
      PROVE  ReadInv'
  <2>1. UNCHANGED <<saved, base, covered>>
    BY <1>7 DEF OpenGroup, CheckTitle, ReopenGroup, history
  <2>2. CASE OpenGroup(p)
    <3> DEFINE g == Head(job[p].todo)
               locals == [job[p] EXCEPT !.group = g,
                 !.request = IF g \in Bound THEN 1 ELSE job[p].state[g].request]
    <3>1. locals.state = job[p].state /\ "title" \notin Captured
      BY <1>3 DEF Jobs, Captured
    <3>2. Goto(p, "title", locals)
      BY <2>2 DEF OpenGroup
    <3> HIDE DEF locals
    <3> QED BY <1>1, <2>1, <3>1, <3>2, ReadLeaves
  <2>3. CASE CheckTitle(p)
    <3>1. Goto(p, "capture", job[p]) /\ "capture" \notin Captured
      BY <2>3 DEF CheckTitle, Captured
    <3> QED BY <1>1, <2>1, <3>1, ReadLeaves
  <2>4. CASE ReopenGroup(p)
    BY <1>1, <2>1, <2>4, ReadUntouched DEF ReopenGroup
  <2> QED BY <1>7, <2>2, <2>3, <2>4
<1>8. ASSUME (\E g \in Groups : Say(g)) \/ UserOpens \/ ThirtyMinutesPass PROVE ReadInv'
  BY <1>1, <1>8, ReadUntouched DEF Say, UserOpens, ThirtyMinutesPass, history
<1> QED
  BY <1>1, <1>2, <1>4, <1>5, <1>6, <1>7, <1>8, FirstInHand, NewInHand, PushedInHand, StoredRead
  DEF Next, Looking, Pushing, Failing

(* What customers said is not lost, for any groups, chats, window sizes and  *)
(* collectors, the two at once that a defeated lock lets through included:   *)
(* of the lines a checkpoint has passed, each that states something has      *)
(* reached the centre, but for the ones NothingMissed names.                 *)
THEOREM NothingMissedHolds == Spec => []NothingMissed
<1>1. Spec => []TypeInv
  BY TypeInit, TypeStep, PTL DEF Spec
<1>2. TypeInv /\ TypeInv' /\ ReadInv /\ [Next]_vars => ReadInv'
  BY ReadStep
<1>3. Spec => []ReadInv
  BY <1>1, <1>2, ReadInit, PTL DEF Spec
<1>4. ReadInv => NothingMissed
  BY DEF ReadInv
<1> QED BY <1>3, <1>4, PTL

-----------------------------------------------------------------------------
(* What was pushed is pushed again only after a break.  Assumed is that the  *)
(* configuration, which the program takes as it is, names each group once:   *)
(* of a group that is named twice the second turn works with the checkpoint  *)
(* from before the first.                                                    *)
Distinct(groups) == \A i, j \in DOMAIN groups : groups[i] = groups[j] => i = j
EachGroupOnce == Distinct(Configured)

Pushed == {"change", "store"}
Pusher(p, g) == pc[p] \in Pushed /\ job[p].group = g

(* A collector at work has the checkpoints of the groups it has left as they *)
(* are; and of what it captured in its group's chat, what it has still to    *)
(* push was not pushed before, except in a repetition.                       *)
Unpushed(p) == CASE pc[p] = "draft" -> Having(p, Signals)
                 [] pc[p] = "change" -> Having(p, Changes) \ Stated(p)
                 [] OTHER -> {}
Carries(p) ==
    LET g == job[p].group IN
    pc[p] \in Working =>
        /\ Distinct(job[p].todo)
        /\ \A i \in DOMAIN job[p].todo :
              job[p].todo[i] \notin broken => job[p].state[job[p].todo[i]] = saved[job[p].todo[i]]
        /\ pc[p] \in Opened =>
              /\ g = Head(job[p].todo)
              /\ pc[p] \notin Pushed =>
                    job[p].request = IF g \in Bound THEN 1 ELSE job[p].state[g].request
        /\ pc[p] \in Captured /\ job[p].shown = g /\ g \notin broken \cup mixed =>
              /\ \A i \in delivered[g] : i <= Greatest(job[p].fresh)
              /\ \A i \in Unpushed(p) \cap delivered[g] : InRepetition(g, i)

(* Of a group: its one request, which the checkpoint names unless a collector*)
(* is between the push and the checkpoint; the checkpoint's line, behind all *)
(* that was delivered; and no line a second time.                            *)
OneRequest(g) ==
    /\ requests[g] <= 1
    /\ g \in Bound => requests[g] = 1
    /\ \A p \in Collectors : Pusher(p, g) => job[p].request = requests[g]
    /\ (\A p \in Collectors : ~Pusher(p, g)) /\ g \notin Bound => requests[g] = saved[g].request
Behind(g) ==
    g \notin mixed /\ (\A p \in Collectors : ~Pusher(p, g)) =>
        IF saved[g].last = NoLine THEN delivered[g] = {}
        ELSE \E last \in Lines(g) : /\ chat[g][last] = saved[g].last
                                    /\ \A i \in delivered[g] : i <= last
NeverTwice(g) == g \notin mixed => \A i \in repeated[g] : InRepetition(g, i)
GroupOK(g) == OneRequest(g) /\ Behind(g) /\ NeverTwice(g)

PushInv ==
    LockDefeated \/ /\ \A p \in Collectors : Carries(p)
                    /\ \A g \in Groups \ broken : GroupOK(g)

LEMMA PushInit == Init => PushInv
<1> SUFFICES ASSUME Init PROVE PushInv
  OBVIOUS
<1>1. \A p \in Collectors : Carries(p) /\ \A g \in Groups : ~Pusher(p, g)
  BY DEF Init, Carries, Working, Pusher, Pushed
<1>2. ASSUME NEW g \in Groups PROVE GroupOK(g)
  BY <1>1 DEF Init, GroupOK, OneRequest, Behind, NeverTwice, NoState
<1> QED BY <1>1, <1>2 DEF PushInv

(* While the lock is undefeated one collector works.                         *)
LEMMA WorksAlone ==
  ASSUME LockInv, ~LockDefeated, NEW p \in Collectors, pc[p] \in Working
  PROVE  \A q \in Collectors \ {p} : pc[q] \notin Working
BY DEF LockInv, Holds

(* What a collector carries it still carries after others' steps, and what a *)
(* group has it keeps when nothing of it is pushed or stored.                *)
LEMMA CarriesKept ==
  ASSUME TypeInv, TypeInv', Grows, broken \subseteq broken', UNCHANGED <<saved, delivered>>,
         NEW q \in Collectors, Carries(q), pc'[q] = pc[q], job'[q] = job[q]
  PROVE  Carries(q)'
<1> DEFINE g == job[q].group
<1> SUFFICES ASSUME pc[q] \in Captured, job[q].shown = g, g \notin broken \cup mixed
             PROVE  \A i \in Unpushed(q)' \cap delivered[g] : InRepetition(g, i)'
  BY DEF Carries, Grows
<1>1. g \in Groups
  BY DEF TypeInv, JobsOK, JobOK, Captured, Opened
<1>2. job[q].fresh \in SUBSET Lines(g)
  BY FreshLines
<1>3. Unpushed(q)' = Unpushed(q)
  BY <1>1, <1>2, SameCapture DEF Unpushed, Grows
<1>4. \A i \in Unpushed(q) \cap delivered[g] : InRepetition(g, i)
  BY DEF Carries, Captured, Working
<1> QED BY <1>1, <1>3, <1>4, KnownKept DEF Grows

LEMMA GroupKept ==
  ASSUME TypeInv, TypeInv', Grows, NEW g \in Groups, GroupOK(g),
         saved'[g] = saved[g], requests'[g] = requests[g],
         delivered'[g] = delivered[g], repeated'[g] = repeated[g],
         \A q \in Collectors : /\ Pusher(q, g)' <=> Pusher(q, g)
                               /\ Pusher(q, g) => job'[q].request = job[q].request
  PROVE  GroupOK(g)'
<1>1. OneRequest(g)'
  BY DEF GroupOK, OneRequest
<1>2. Behind(g)'
  BY DEF GroupOK, Behind, Grows
<1>3. NeverTwice(g)'
  BY KnownKept DEF GroupOK, NeverTwice, Grows
<1> QED BY <1>1, <1>2, <1>3 DEF GroupOK

LEMMA PushUntouched ==
  ASSUME TypeInv, TypeInv', PushInv, Grows, ~LockDefeated, broken \subseteq broken',
         UNCHANGED <<saved, requests, delivered, repeated, pc, job>>
  PROVE  PushInv'
<1>1. \A q \in Collectors : Carries(q)'
  BY CarriesKept DEF PushInv
<1>2. ASSUME NEW g \in Groups \ broken' PROVE GroupOK(g)'
  <2>1. \A q \in Collectors : Pusher(q, g)' <=> Pusher(q, g)
    BY DEF Pusher
  <2> QED BY <2>1, GroupKept DEF PushInv
<1> QED BY <1>1, <1>2 DEF PushInv

LEMMA PushLeaves ==
  ASSUME TypeInv, TypeInv', PushInv, Grows, ~LockDefeated, broken \subseteq broken',
         UNCHANGED <<saved, requests, delivered, repeated>>,
         NEW p \in Collectors, NEW place, NEW locals, Goto(p, place, locals), place \notin Pushed,
         pc[p] \in Pushed => job[p].group \in broken', Carries(p)'
  PROVE  PushInv'
<1>1. /\ pc'[p] = place /\ job'[p] = locals
      /\ \A q \in Collectors \ {p} : pc'[q] = pc[q] /\ job'[q] = job[q]
  BY DEF TypeInv, JobsOK, Goto
<1>2. \A q \in Collectors : Carries(q)'
  BY <1>1, CarriesKept DEF PushInv
<1>3. ASSUME NEW g \in Groups \ broken' PROVE GroupOK(g)'
  <2>1. ASSUME NEW q \in Collectors
        PROVE  /\ Pusher(q, g)' <=> Pusher(q, g)
               /\ Pusher(q, g) => job'[q].request = job[q].request
    BY <1>1, <1>3 DEF Pusher
  <2> QED BY <2>1, GroupKept DEF PushInv
<1> QED BY <1>2, <1>3 DEF PushInv

(* The next group: what is left of the list is still distinct.               *)
LEMMA CarriesOn ==
  ASSUME TypeInv, NEW p \in Collectors, Carries(p), pc[p] \in Working, job[p].todo # <<>>,
         NextGroup(p), broken \subseteq broken',
         \A g \in Groups : g # Head(job[p].todo) => saved'[g] = saved[g]
  PROVE  Carries(p)'
<1> DEFINE todo == job[p].todo
           rest == Tail(todo)
           onward == [NoJob EXCEPT !.todo = rest, !.state = job[p].state]
<1>1. todo \in Seq(Groups) /\ todo # <<>> /\ job[p] \in Jobs
  BY DEF TypeInv, JobsOK, Jobs
<1>2. /\ onward.todo = rest /\ onward.state = job[p].state /\ NoJob.todo = <<>>
  BY DEF NoJob
<1>3. pc'[p] = "group" /\ job'[p] = IF rest = <<>> THEN NoJob ELSE onward
  BY DEF NextGroup, Goto, TypeInv, JobsOK
<1>4. job'[p].todo = rest /\ (rest # <<>> => job'[p].state = job[p].state)
  BY <1>2, <1>3
<1>5. /\ DOMAIN rest = 1..Len(todo) - 1 /\ Len(todo) \in Nat /\ Len(todo) > 0
      /\ \A i \in DOMAIN rest : i + 1 \in DOMAIN todo /\ rest[i] = todo[i + 1]
      /\ Head(todo) = todo[1] /\ DOMAIN todo = 1..Len(todo)
  BY <1>1
<1> HIDE DEF rest, onward
<1>6. Distinct(todo)
  BY DEF Carries
<1>7. ASSUME NEW i, NEW j, i \in DOMAIN rest, j \in DOMAIN rest, rest[i] = rest[j] PROVE i = j
  <2>1. i + 1 = j + 1
    BY <1>5, <1>6, <1>7 DEF Distinct
  <2> QED BY <1>5, <1>7, <2>1
<1>8. ASSUME NEW i \in DOMAIN rest
      PROVE  /\ rest[i] \in Groups /\ rest[i] # Head(todo)
             /\ rest[i] \notin broken => job[p].state[rest[i]] = saved[rest[i]]
  <2>1. i + 1 \in DOMAIN todo /\ 1 \in DOMAIN todo /\ i + 1 # 1
    BY <1>5, <1>8
  <2>2. rest[i] # Head(todo)
    BY <1>5, <1>6, <1>8, <2>1 DEF Distinct
  <2>3. rest[i] \in Groups
    BY <1>1, <1>5, <1>8, <2>1
  <2>4. rest[i] \notin broken => job[p].state[rest[i]] = saved[rest[i]]
    BY <1>5, <1>8, <2>1 DEF Carries
  <2> QED BY <2>2, <2>3, <2>4
<1>9. Distinct(rest)
  BY <1>7 DEF Distinct
<1>10. ASSUME NEW i \in DOMAIN rest, rest[i] \notin broken'
       PROVE  job'[p].state[rest[i]] = saved'[rest[i]]
  <2>1. rest # <<>>
    BY <1>5, <1>10
  <2> QED BY <1>4, <1>8, <1>10, <2>1
<1> QED BY <1>3, <1>4, <1>9, <1>10 DEF Carries, Opened, Captured

LEMMA PushMovesOn ==
  ASSUME TypeInv, TypeInv', PushInv, Grows, ~LockDefeated, broken \subseteq broken',
         UNCHANGED <<saved, requests, delivered, repeated>>,
         NEW p \in Collectors, pc[p] \in Working, job[p].todo # <<>>, NextGroup(p),
         pc[p] \in Pushed => job[p].group \in broken'
  PROVE  PushInv'
<1>1. Carries(p)'
  BY CarriesOn DEF PushInv
<1>2. \E locals : Goto(p, "group", locals)
  BY NextGroupType DEF TypeInv, JobsOK
<1>3. "group" \notin Pushed
  BY DEF Pushed
<1> QED BY <1>1, <1>2, <1>3, PushLeaves

(* Of a group that a lone collector is about to capture, or has captured and *)
(* not pushed, the checkpoint is the one it has and behind all delivered.    *)
LEMMA HeadBehind ==
  ASSUME TypeInv, LockInv, PushInv, ~LockDefeated, NEW p \in Collectors,
         pc[p] \in Opened \ Pushed, job[p].group \notin broken
  PROVE  LET g == job[p].group IN
         /\ g \in Groups /\ job[p].state[g] = saved[g]
         /\ \A q \in Collectors : ~Pusher(q, g)
         /\ GroupOK(g)
<1> DEFINE g == job[p].group
           todo == job[p].todo
<1>1. /\ pc[p] \in Working /\ g \in Groups /\ todo \in Seq(Groups) /\ todo # <<>>
      /\ g = Head(todo) /\ Carries(p)
  BY DEF TypeInv, JobsOK, JobOK, Jobs, PushInv, Carries, Opened, Working
<1>2. 1 \in DOMAIN todo /\ todo[1] = g
  BY <1>1
<1>3. job[p].state[g] = saved[g]
  BY <1>1, <1>2 DEF Carries
<1>4. \A q \in Collectors : ~Pusher(q, g)
  BY <1>1, WorksAlone DEF Pusher, Pushed, Working
<1> QED BY <1>1, <1>3, <1>4 DEF PushInv

(* A collector comes to a draft with lines that were not pushed before.      *)
LEMMA PushDrafts ==
  ASSUME TypeInv, TypeInv', PushInv, Grows, ~LockDefeated, broken \subseteq broken', mixed' = mixed,
         UNCHANGED <<chat, saved, requests, delivered, repeated>>,
         NEW p \in Collectors, pc[p] = "capture", NEW lines,
         Goto(p, "draft", [job[p] EXCEPT !.shown = screen, !.fresh = lines]),
         screen = job[p].group /\ job[p].group \notin broken \cup mixed =>
            /\ \A i \in delivered[screen] : i <= Greatest(lines)
            /\ \A i \in lines \cap delivered[screen] : InRepetition(screen, i)
  PROVE  PushInv'
<1> DEFINE locals == [job[p] EXCEPT !.shown = screen, !.fresh = lines]
           g == job[p].group
<1>1. /\ locals.group = g /\ locals.shown = screen /\ locals.fresh = lines
      /\ locals.state = job[p].state /\ locals.todo = job[p].todo
      /\ locals.request = job[p].request
  BY DEF TypeInv, JobsOK, Jobs
<1> HIDE DEF locals
<1>2. pc'[p] = "draft" /\ job'[p] = locals /\ Goto(p, "draft", locals)
  BY DEF TypeInv, JobsOK, Goto, locals
<1>3. Unpushed(p)' \subseteq lines
  BY <1>1, <1>2 DEF Unpushed, Having
<1>4. Carries(p) /\ pc[p] \in Working /\ pc[p] \in Opened /\ pc[p] \notin Pushed
  BY DEF PushInv, Working, Opened, Pushed
<1>5. ASSUME screen = g, g \notin broken' \cup mixed'
      PROVE  /\ \A i \in delivered'[g] : i <= Greatest(lines)
             /\ \A i \in Unpushed(p)' \cap delivered'[g] : InRepetition(g, i)
  BY <1>3, <1>5
<1>6. Carries(p)'
  BY <1>1, <1>2, <1>4, <1>5 DEF Carries, InRepetition, Lines
<1> QED BY <1>2, <1>4, <1>6, PushLeaves DEF Pushed

LEMMA FirstPush ==
  ASSUME TypeInv, TypeInv', LockInv, PushInv, Grows, ~LockDefeated, NEW p \in Collectors,
         CaptureFirst(p)
  PROVE  PushInv'
<1> DEFINE g == job[p].group
<1>1. /\ UNCHANGED <<chat, saved, requests, delivered, repeated, broken, mixed>>
      /\ pc[p] = "capture" /\ job[p].state[g].last = NoLine
      /\ pc[p] \in Opened \ Pushed /\ pc[p] \in Working
      /\ job[p].todo # <<>>
  BY DEF CaptureFirst, centre, history, TypeInv, JobsOK, JobOK, Opened, Pushed, Working
<1>2. PICK lines : Draft(p, lines)
  BY DEF CaptureFirst
<1>3. CASE NextGroup(p)
  BY <1>1, <1>3, PushMovesOn
<1>4. CASE Goto(p, "draft", [job[p] EXCEPT !.shown = screen, !.fresh = lines])
  <2>1. g \notin broken \cup mixed => delivered[g] = {}
    BY <1>1, HeadBehind DEF GroupOK, Behind
  <2> QED BY <1>1, <1>4, <2>1, PushDrafts
<1> QED BY <1>2, <1>3, <1>4 DEF Draft

LEMMA NewPush ==
  ASSUME TypeInv, TypeInv', LockInv, PushInv, Grows, ~LockDefeated, NEW p \in Collectors,
         CaptureNew(p)
  PROVE  PushInv'
<1> DEFINE g == job[p].group
           c == job[p].state[g]
<1>1. /\ UNCHANGED <<chat, saved, requests, delivered, repeated, broken, mixed>>
      /\ pc[p] = "capture" /\ c.last # NoLine
      /\ pc[p] \in Opened \ Pushed /\ pc[p] \in Working
      /\ job[p].todo # <<>> /\ screen \in Groups
      /\ pc \in [Collectors -> Places] /\ job[p] \in Jobs /\ job \in [Collectors -> Jobs]
  BY DEF CaptureNew, centre, TypeInv, DataOK, JobsOK, JobOK, Opened, Pushed, Working
<1>2. PICK w \in Windows :
        Draft(p, AfterCheckpoint(screen, ReadUpwards(screen, w, c.last), c))
  BY DEF CaptureNew
<1> DEFINE read == ReadUpwards(screen, w, c.last)
           hits == {i \in read : chat[screen][i] = c.last}
           lines == AfterCheckpoint(screen, read, c)
           locals == [job[p] EXCEPT !.shown = screen, !.fresh = lines]
<1>3. w \in Nat /\ read \subseteq Lines(screen) /\ Lines(screen) \subseteq Nat
      /\ Len(chat[screen]) \in Nat
  BY <1>1, CollectorAssumption DEF ReadUpwards, Page, Lines, TypeInv, DataOK
<1>4. \A i \in read, k \in Lines(screen) : i <= k => k \in read
  BY <1>3, ReadUpwardsClosed
<1>5. /\ hits # {} => lines = {i \in read : i > Least(hits)} /\ Least(hits) \in hits
      /\ hits = {} => lines \subseteq read
  <2>1. hits # {} => Least(hits) \in hits
    BY <1>3, LeastIsLeast
  <2> QED BY <2>1 DEF AfterCheckpoint
<1>6. CASE NextGroup(p)
  BY <1>1, <1>6, PushMovesOn
<1>7. CASE Goto(p, "draft", locals)
  <2>1. lines # {} /\ lines \subseteq Lines(screen)
        /\ Greatest(lines) \in lines /\ \A i \in lines : Greatest(lines) >= i
    <3>1. pc'[p] = "draft" /\ job'[p] = locals /\ locals.fresh = lines /\ locals.shown = screen
      BY <1>1, <1>7 DEF Goto, Jobs
    <3> HIDE DEF lines, locals
    <3>2. pc'[p] \in Captured /\ lines = job'[p].fresh /\ screen = job'[p].shown
      BY <3>1 DEF Captured
    <3>3. lines # {} /\ lines \in SUBSET Lines(screen)
      BY <3>2, <1>1 DEF TypeInv, JobsOK, JobOK, Lines
    <3> QED BY <1>3, <3>3, GreatestIsGreatest DEF Lines
  <2> HIDE DEF lines, read
  <2>2. ASSUME screen = g, g \notin broken \cup mixed
        PROVE  /\ \A i \in delivered[g] : i <= Greatest(lines)
               /\ \A i \in lines \cap delivered[g] : InRepetition(g, i)
    <3>1. PICK last \in Lines(g) : /\ chat[g][last] = c.last
                                   /\ \A i \in delivered[g] : i <= last
      BY <1>1, <2>2, HeadBehind DEF GroupOK, Behind
    <3>2. delivered[g] \subseteq Nat /\ last \in Nat /\ Greatest(lines) \in Nat
      BY <1>1, <1>3, <2>1, <2>2, <3>1 DEF TypeInv, DataOK
    <3>3. CASE hits # {}
      <4> DEFINE h == Least(hits)
      <4>1. h \in read /\ h \in Lines(g) /\ h \in Nat /\ chat[g][h] = c.last
            /\ lines = {i \in read : i > h}
        BY <1>3, <1>5, <2>2, <3>3
      <4> HIDE DEF h, hits
      <4>2. last <= Greatest(lines)
        <5>1. CASE last <= h
          <6>1. Greatest(lines) > h
            BY <2>1, <4>1
          <6> QED BY <3>2, <4>1, <5>1, <6>1
        <5>2. CASE last > h
          <6>1. last \in lines
            BY <1>4, <2>2, <3>1, <3>2, <4>1, <5>2
          <6> QED BY <2>1, <3>2, <6>1
        <5> QED BY <3>2, <4>1, <5>1, <5>2
      <4>3. \A i \in lines \cap delivered[g] : h < i /\ i <= last
        BY <3>1, <3>2, <4>1
      <4> QED BY <3>1, <3>2, <4>1, <4>2, <4>3 DEF InRepetition
    <3>4. CASE hits = {}
      <4>1. \A i \in read : i > last
        <5>1. last \notin read
          BY <2>2, <3>1, <3>4
        <5> QED BY <1>3, <1>4, <2>2, <3>1, <3>2, <5>1
      <4>2. \A i \in lines : i > last
        BY <1>5, <3>4, <4>1
      <4> QED BY <2>1, <3>1, <3>2, <4>2
    <3> QED BY <3>3, <3>4
  <2> QED BY <1>1, <1>7, <2>2, PushDrafts
<1> QED BY <1>2, <1>6, <1>7 DEF Draft

(* What a push leaves behind: the group's one request, and lines that were   *)
(* not pushed before.                                                        *)
LEMMA PushPushes ==
  ASSUME TypeInv, TypeInv', LockInv, PushInv, Grows, ~LockDefeated,
         NEW p \in Collectors, PushCollecting(p) \/ PushChange(p)
  PROVE  PushInv'
<1> DEFINE g == job[p].group
<1>1. /\ UNCHANGED <<chat, saved, broken>> /\ pc[p] \in Captured /\ pc[p] \in Working
      /\ pc[p] \in Opened /\ pc[p] \in {"draft", "change"}
  BY DEF PushCollecting, PushChange, CentreCollects, CentreChanges, Collecting, Changing,
     Captured, Working, Opened
<1>2. /\ job[p] \in Jobs /\ job \in [Collectors -> Jobs] /\ pc \in [Collectors -> Places]
      /\ g \in Groups /\ Carries(p) /\ requests \in [Groups -> Nat]
      /\ delivered \in [Groups -> SUBSET Nat] /\ repeated \in [Groups -> SUBSET Nat]
  BY <1>1 DEF TypeInv, DataOK, JobsOK, JobOK, PushInv
<1> DEFINE collecting == PushCollecting(p)
           lines == IF collecting THEN Stated(p) ELSE ChangePush(p)
<1>3. /\ Deliver(p, lines)
      /\ ~collecting => PushChange(p) /\ requests' = requests
      /\ collecting => /\ pc[p] = "draft"
                       /\ requests' = [requests EXCEPT ![g] = IF RequestKnown(p) THEN @ ELSE @ + 1]
  BY DEF PushCollecting, PushChange, CentreCollects, CentreChanges, Collecting
<1>4. PICK place, locals :
         /\ Goto(p, place, locals) /\ place \in Pushed
         /\ locals.group = g /\ locals.shown = job[p].shown /\ locals.fresh = job[p].fresh
         /\ locals.state = job[p].state /\ locals.todo = job[p].todo
         /\ ~collecting => place = "store" /\ locals.request = job[p].request
         /\ collecting => locals.request = IF RequestKnown(p) THEN job[p].request ELSE requests'[g]
  <2>1. CASE collecting
    <3> DEFINE request == IF RequestKnown(p) THEN job[p].request ELSE requests'[g]
               locals == [job[p] EXCEPT !.request = request]
               place == IF Altered(p) # {} THEN "change" ELSE "store"
    <3>1. Goto(p, place, locals)
      BY <2>1 DEF PushCollecting
    <3>2. /\ locals.group = g /\ locals.shown = job[p].shown /\ locals.fresh = job[p].fresh
          /\ locals.state = job[p].state /\ locals.todo = job[p].todo
          /\ locals.request = request
      BY <1>2 DEF Jobs
    <3>3. place \in Pushed
      BY DEF Pushed
    <3> HIDE DEF locals, place
    <3> QED BY <2>1, <3>1, <3>2, <3>3
  <2>2. CASE ~collecting
    <3>1. Goto(p, "store", job[p])
      BY <1>3, <2>2 DEF PushChange
    <3> QED BY <2>2, <3>1 DEF Pushed
  <2> QED BY <2>1, <2>2
<1>5. /\ pc'[p] = place /\ job'[p] = locals /\ place \in Working
      /\ \A q \in Collectors \ {p} : pc'[q] = pc[q] /\ job'[q] = job[q] /\ pc[q] \notin Working
  BY <1>1, <1>2, <1>4, WorksAlone DEF Goto, Pushed, Working
<1>6. \A h \in Groups \ {g} : /\ requests'[h] = requests[h] /\ delivered'[h] = delivered[h]
                              /\ repeated'[h] = repeated[h]
  BY <1>2, <1>3 DEF Deliver
<1>7. \A h : \A q \in Collectors : Pusher(q, h)' <=> (q = p /\ h = g)
  BY <1>4, <1>5 DEF Pusher, Pushed, Working
<1>8. ASSUME NEW h \in Groups \ broken', h # g PROVE GroupOK(h)'
  <2>1. \A q \in Collectors : ~Pusher(q, h)
    BY <1>5, <1>8 DEF Pusher, Pushed, Working
  <2> QED BY <1>1, <1>6, <1>7, <1>8, <2>1, GroupKept DEF PushInv
<1>9. Having(p, Changes)' = Having(p, Changes) /\ Stated(p)' = Stated(p)
  BY <1>1, <1>4, <1>5, SameCapture
<1>10. ASSUME g \notin broken
       PROVE  /\ requests'[g] <= 1 /\ (g \in Bound => requests'[g] = 1)
              /\ locals.request = requests'[g]
  <2>1. OneRequest(g) /\ requests[g] \in Nat /\ job[p].request \in Nat
    BY <1>1, <1>2, <1>10 DEF PushInv, GroupOK, Jobs
  <2>2. CASE pc[p] = "change"
    BY <1>3, <1>4, <2>1, <2>2 DEF OneRequest, Pusher, Pushed
  <2>3. CASE pc[p] = "draft"
    <3>1. pc[p] \in Opened \ Pushed
      BY <2>3 DEF Opened, Pushed
    <3>2. job[p].state[g] = saved[g] /\ \A q \in Collectors : ~Pusher(q, g)
      BY <1>10, <3>1, HeadBehind
    <3>3. job[p].request = IF g \in Bound THEN 1 ELSE saved[g].request
      BY <1>1, <1>2, <3>1, <3>2 DEF Carries
    <3>4. job[p].request = requests[g]
      BY <2>1, <3>2, <3>3 DEF OneRequest
    <3>5. requests[g] <= 1 /\ (g \in Bound => requests[g] = 1)
      BY <2>1 DEF OneRequest
    <3>6. CASE collecting
      <4>1. requests'[g] = IF RequestKnown(p) THEN requests[g] ELSE requests[g] + 1
        BY <1>2, <1>3, <3>6
      <4> QED BY <1>4, <2>1, <3>4, <3>5, <3>6, <4>1 DEF RequestKnown
    <3>7. CASE ~collecting
      BY <1>3, <1>4, <3>4, <3>5, <3>7
    <3> QED BY <3>6, <3>7
  <2> QED BY <1>1, <2>2, <2>3
<1>11. ASSUME g \notin broken \cup mixed'
       PROVE  /\ job[p].shown = g /\ g \notin broken \cup mixed
              /\ delivered'[g] = delivered[g] \cup lines
              /\ repeated'[g] = repeated[g] \cup (delivered[g] \cap lines)
              /\ lines \subseteq Unpushed(p)
              /\ \A i \in Unpushed(p) \cap delivered[g] : InRepetition(g, i)
              /\ \A i \in delivered'[g] : i <= Greatest(job[p].fresh)
  <2>1. /\ job[p].shown = g /\ g \notin broken \cup mixed
        /\ delivered'[g] = delivered[g] \cup lines
        /\ repeated'[g] = repeated[g] \cup (delivered[g] \cap lines)
    BY <1>2, <1>3, <1>11 DEF Deliver, Grows
  <2>2. lines \subseteq Unpushed(p)
    BY <1>1, <1>3 DEF Unpushed, ChangePush, Stated, Having, Signals
  <2>3. /\ \A i \in Unpushed(p) \cap delivered[g] : InRepetition(g, i)
        /\ \A i \in delivered[g] : i <= Greatest(job[p].fresh)
    BY <1>1, <1>2, <2>1 DEF Carries
  <2>4. \A i \in job[p].fresh : i <= Greatest(job[p].fresh)
    <3>1. /\ job[p].fresh \in SUBSET Lines(job[p].shown)
          /\ \A i \in job[p].fresh : Greatest(job[p].fresh) >= i
          /\ Greatest(job[p].fresh) \in job[p].fresh
      BY <1>1, FreshLines
    <3> QED BY <3>1 DEF Lines
  <2>5. lines \subseteq job[p].fresh
    BY DEF ChangePush, Stated, Having
  <2> QED BY <2>1, <2>2, <2>3, <2>4, <2>5
<1>12. ASSUME NEW h \in Groups, h = g, h \notin broken' PROVE GroupOK(h)'
  <2>1. OneRequest(h)'
    BY <1>1, <1>5, <1>7, <1>10, <1>12 DEF OneRequest
  <2>2. Behind(h)'
    BY <1>7, <1>12 DEF Behind
  <2>3. ASSUME h \notin mixed', NEW i \in repeated'[h] PROVE InRepetition(h, i)'
    <3>1. i \in repeated[h] \/ i \in Unpushed(p) \cap delivered[h]
      BY <1>1, <1>11, <1>12, <2>3
    <3>2. h \notin mixed /\ NeverTwice(h)
      BY <1>1, <1>12, <2>3 DEF Grows, PushInv, GroupOK
    <3>3. InRepetition(h, i)
      BY <1>1, <1>11, <1>12, <2>3, <3>1, <3>2 DEF NeverTwice
    <3> QED BY <3>3, KnownKept
  <2> QED BY <2>1, <2>2, <2>3 DEF GroupOK, NeverTwice
<1>13. ASSUME g \notin broken \cup mixed'
       PROVE  \A i \in Unpushed(p)' \cap delivered'[g] : InRepetition(g, i)
  <2>1. CASE place = "change"
    <3>1. collecting /\ pc[p] = "draft"
      BY <1>3, <1>4, <2>1
    <3>2. Unpushed(p)' = Having(p, Changes) \ Stated(p)
      BY <1>5, <1>9, <2>1 DEF Unpushed
    <3>3. /\ (Having(p, Changes) \ Stated(p)) \cap lines = {}
          /\ Having(p, Changes) \ Stated(p) \subseteq Unpushed(p)
      BY <3>1 DEF Having, Unpushed, Signals
    <3> QED BY <1>11, <1>13, <3>2, <3>3
  <2>2. CASE place # "change"
    <3>1. Unpushed(p)' = {}
      BY <1>4, <1>5, <2>2 DEF Unpushed, Pushed
    <3> QED BY <3>1
  <2> QED BY <2>1, <2>2
<1>14. Carries(p)'
  <2> HIDE DEF lines
  <2>1. job'[p].group = g /\ job'[p].todo = job[p].todo /\ job'[p].state = job[p].state
        /\ job'[p].fresh = job[p].fresh
    BY <1>4, <1>5
  <2>2. \A i : InRepetition(g, i) => InRepetition(job[p].group, i)'
    BY <1>1, <2>1 DEF InRepetition, Lines
  <2> QED
    BY <1>1, <1>2, <1>4, <1>5, <1>11, <1>13, <2>1, <2>2 DEF Carries, Pushed
<1>15. \A q \in Collectors : Carries(q)'
  BY <1>5, <1>14 DEF Carries
<1> QED BY <1>8, <1>12, <1>15 DEF PushInv

(* A lost answer leaves the group among the broken ones.                     *)
LEMMA PushUnheard ==
  ASSUME TypeInv, TypeInv', LockInv, PushInv, Grows, ~LockDefeated, NEW p \in Collectors,
         AnswerLost(p)
  PROVE  PushInv'
<1> DEFINE g == job[p].group
<1>1. /\ UNCHANGED <<chat, saved>> /\ pc[p] \in Working /\ pc[p] \in Opened
      /\ broken' = broken \cup {g} /\ NextGroup(p)
      /\ CentreCollects(p) \/ CentreChanges(p)
  BY DEF AnswerLost, CentreCollects, CentreChanges, Collecting, Changing, Working, Opened
<1>2. /\ job[p] \in Jobs /\ job[p].todo # <<>> /\ g \in Groups /\ Carries(p)
      /\ job \in [Collectors -> Jobs] /\ pc \in [Collectors -> Places]
  BY <1>1 DEF TypeInv, JobsOK, JobOK, PushInv
<1>3. PICK locals : Goto(p, "group", locals)
  BY <1>1, <1>2, NextGroupType
<1>4. /\ pc'[p] = "group"
      /\ \A q \in Collectors \ {p} : pc'[q] = pc[q] /\ job'[q] = job[q] /\ pc[q] \notin Working
  BY <1>1, <1>2, <1>3, WorksAlone DEF Goto
<1>5. Carries(p)'
  BY <1>1, <1>2, CarriesOn
<1>6. \A q \in Collectors : Carries(q)'
  BY <1>4, <1>5 DEF Carries
<1>7. ASSUME NEW h \in Groups \ broken' PROVE GroupOK(h)'
  <2>1. h # g /\ h \notin broken
    BY <1>1, <1>7
  <2>2. /\ requests'[h] = requests[h] /\ delivered'[h] = delivered[h]
        /\ repeated'[h] = repeated[h]
    <3>1. /\ requests \in [Groups -> Nat] /\ delivered \in [Groups -> SUBSET Nat]
          /\ repeated \in [Groups -> SUBSET Nat]
      BY DEF TypeInv, DataOK
    <3> QED BY <1>1, <2>1, <3>1 DEF CentreCollects, CentreChanges, Deliver
  <2>3. \A q \in Collectors : ~Pusher(q, h) /\ ~Pusher(q, h)'
    BY <1>4, <2>1 DEF Pusher, Pushed, Working
  <2> QED BY <1>1, <2>1, <2>2, <2>3, GroupKept DEF PushInv
<1> QED BY <1>6, <1>7 DEF PushInv

(* A checkpoint is written behind all that was delivered.                    *)
LEMMA PushStored ==
  ASSUME TypeInv, TypeInv', LockInv, PushInv, ReadInv, Grows, ~LockDefeated,
         NEW p \in Collectors, Store(p)
  PROVE  PushInv'
<1> DEFINE g == job[p].group
           last == Greatest(job[p].fresh)
<1>1. /\ UNCHANGED <<chat, requests, delivered, repeated, mixed, broken>>
      /\ pc[p] = "store" /\ pc[p] \in Working /\ pc[p] \in Opened /\ pc[p] \in Captured
      /\ pc[p] \in Pushed /\ NextGroup(p)
  BY DEF Store, centre, Working, Opened, Captured, Pushed
<1>2. /\ job[p] \in Jobs /\ job[p].todo # <<>> /\ g \in Groups /\ Carries(p)
      /\ job \in [Collectors -> Jobs] /\ pc \in [Collectors -> Places]
      /\ saved \in [Groups -> Checkpoints] /\ chat \in [Groups -> Seq(Texts)]
  BY <1>1 DEF TypeInv, DataOK, JobsOK, JobOK, PushInv
<1>3. /\ saved'[g].last = chat[job[p].shown][last] /\ saved'[g].request = job[p].request
      /\ \A h \in Groups : h # g => saved'[h] = saved[h]
  BY <1>2 DEF Store
<1>4. PICK locals : Goto(p, "group", locals)
  BY <1>1, <1>2, NextGroupType
<1>5. /\ pc'[p] = "group"
      /\ \A q \in Collectors \ {p} : pc'[q] = pc[q] /\ job'[q] = job[q] /\ pc[q] \notin Working
  BY <1>1, <1>2, <1>4, WorksAlone DEF Goto
<1>6. g = Head(job[p].todo)
  BY <1>1, <1>2 DEF Carries
<1>7. Carries(p)'
  BY <1>1, <1>2, <1>3, <1>6, CarriesOn
<1>8. \A q \in Collectors : Carries(q)'
  BY <1>5, <1>7 DEF Carries
<1>9. \A h : \A q \in Collectors : ~Pusher(q, h)'
  BY <1>5 DEF Pusher, Pushed, Working
<1>10. ASSUME NEW h \in Groups \ broken', h # g PROVE GroupOK(h)'
  <2>1. \A q \in Collectors : ~Pusher(q, h)
    BY <1>5, <1>10 DEF Pusher, Pushed, Working
  <2> QED BY <1>1, <1>3, <1>9, <1>10, <2>1, GroupKept DEF PushInv
<1>11. ASSUME NEW h \in Groups \ broken', h = g PROVE GroupOK(h)'
  <2>1. GroupOK(h) /\ h \notin broken
    BY <1>1, <1>11 DEF PushInv
  <2>2. Pusher(p, h)
    BY <1>1, <1>11 DEF Pusher
  <2>3. OneRequest(h)'
    BY <1>1, <1>3, <1>9, <1>11, <2>1, <2>2 DEF GroupOK, OneRequest
  <2>4. NeverTwice(h)'
    BY <1>1, <2>1, KnownKept DEF GroupOK, NeverTwice
  <2>5. ASSUME h \notin mixed
        PROVE  /\ last \in Lines(h) /\ chat[h][last] = saved'[h].last
               /\ saved'[h].last # NoLine
               /\ \A i \in delivered[h] : i <= last
    <3>1. job[p].shown = g
      BY <1>1, <1>11, <2>5 DEF ReadInv, InHand
    <3>2. last \in job[p].fresh /\ job[p].fresh \in SUBSET Lines(g)
      BY <1>1, <3>1, FreshLines
    <3>3. \A i \in delivered[h] : i <= last
      BY <1>1, <1>2, <1>11, <2>1, <2>5, <3>1 DEF Carries
    <3> HIDE DEF last
    <3>4. chat[g][last] \in Texts
      BY <1>2, <3>2 DEF Lines
    <3> QED BY <1>3, <1>11, <3>1, <3>2, <3>3, <3>4, CollectorAssumption
  <2> HIDE DEF last
  <2>6. Behind(h)'
    BY <1>1, <2>5 DEF Behind, Lines
  <2> QED BY <2>3, <2>4, <2>6 DEF GroupOK
<1> QED BY <1>8, <1>10, <1>11 DEF PushInv

LEMMA PushStep ==
  ASSUME EachGroupOnce,
         TypeInv, TypeInv', LockInv, ReadInv, PushInv, [Next]_vars
  PROVE  PushInv'
<1>1. Grows
  BY GrowsStep
<1>2. causes \subseteq causes' /\ broken \subseteq broken'
  <2>1. CASE UNCHANGED vars
    BY <2>1 DEF vars, history
  <2>2. ASSUME NEW p \in Collectors, Locking(p) \/ Looking(p) \/ Stop(p)
        PROVE  causes \subseteq causes' /\ broken \subseteq broken'
    BY <2>2
    DEF Locking, TakeFreeLock, JudgeLock, RemoveJudgedLock, GiveWay, Looking, SkipGroup,
        OpenGroup, CheckTitle, ReopenGroup, CaptureFirst, CaptureNew, Stop, history
  <2>3. ASSUME NEW p \in Collectors, Pushing(p) \/ Failing(p)
        PROVE  causes \subseteq causes' /\ broken \subseteq broken'
    BY <2>3
    DEF Pushing, PushCollecting, PushChange, Store, Failing, AnswerLost, FailGroup,
        FailBetweenPushes, Kill, history
  <2>4. CASE (\E g \in Groups : Say(g)) \/ UserOpens \/ ThirtyMinutesPass
    BY <2>4 DEF Say, UserOpens, ThirtyMinutesPass, history
  <2> QED BY <2>1, <2>2, <2>3, <2>4 DEF Next
<1>3. CASE LockDefeated
  BY <1>2, <1>3 DEF PushInv, LockDefeated
<1>4. CASE ~LockDefeated
  <2> USE <1>4
  <2>1. CASE UNCHANGED vars \/ (\E g \in Groups : Say(g)) \/ UserOpens \/ ThirtyMinutesPass
    BY <1>1, <1>2, <2>1, PushUntouched
    DEF vars, Say, UserOpens, ThirtyMinutesPass, centre, history
  <2>2. ASSUME NEW p \in Collectors
        PROVE  /\ job[p] \in Jobs /\ NoJob \in Jobs /\ job[p].todo \in Seq(Groups) /\ Carries(p)
               /\ pc[p] \in Opened => job[p].todo # <<>>
               /\ pc' \in [Collectors -> Places] /\ pc \in [Collectors -> Places]
               /\ job \in [Collectors -> Jobs]
    BY NoJobType DEF TypeInv, JobsOK, JobOK, Jobs, PushInv
  <2>3. ASSUME NEW p \in Collectors, NEW place, NEW locals, Goto(p, place, locals),
               place \notin Working
        PROVE  Carries(p)' /\ place \notin Pushed
    BY <2>2, <2>3 DEF Goto, Carries, Pushed, Working
  <2>4. ASSUME NEW p \in Collectors, Locking(p) PROVE PushInv'
    <3>1. /\ UNCHANGED <<saved, requests, delivered, repeated, broken>> /\ pc[p] \notin Pushed
      BY <2>4 DEF Locking, TakeFreeLock, JudgeLock, RemoveJudgedLock, GiveWay, centre, history,
         Pushed
    <3>2. CASE TakeFreeLock(p)
      <4>1. PICK todo : /\ todo \in Seq(Groups) /\ Distinct(todo)
                        /\ Goto(p, "group", [NoJob EXCEPT !.todo = todo, !.state = saved])
        <5>1. \A g \in Groups : <<g>> \in Seq(Groups) /\ Distinct(<<g>>)
          BY DEF Distinct
        <5>2. Configured \in Seq(Groups) /\ Distinct(Configured)
          BY CollectorAssumption DEF EachGroupOnce
        <5> QED BY <3>2, <5>1, <5>2 DEF TakeFreeLock
      <4> DEFINE locals == [NoJob EXCEPT !.todo = todo, !.state = saved]
      <4>2. locals.todo = todo /\ locals.state = saved
        BY <2>2 DEF Jobs
      <4>3. Goto(p, "group", locals)
        BY <4>1
      <4> HIDE DEF locals
      <4>4. pc'[p] = "group" /\ job'[p] = locals
        BY <2>2, <4>3 DEF Goto
      <4>5. Carries(p)'
        BY <3>1, <4>1, <4>2, <4>4 DEF Carries, Opened, Captured
      <4> QED BY <1>1, <1>2, <3>1, <4>3, <4>5, PushLeaves DEF Pushed
    <3>3. CASE ~TakeFreeLock(p)
      <4>1. PICK place \in {"judged", "retry", "idle"}, locals \in {NoJob, [NoJob EXCEPT !.verdict = lock]} :
               Goto(p, place, locals)
        BY <2>4, <3>3, Zenon DEF Locking, JudgeLock, RemoveJudgedLock, GiveWay
      <4>2. place \notin Working
        BY DEF Working
      <4> QED BY <1>1, <1>2, <2>3, <3>1, <4>1, <4>2, PushLeaves
    <3> QED BY <3>2, <3>3
  <2>5. ASSUME NEW p \in Collectors, Stop(p) \/ Kill(p) PROVE PushInv'
    <3>1. /\ UNCHANGED <<saved, requests, delivered, repeated>> /\ Goto(p, "idle", NoJob)
          /\ "idle" \notin Working
          /\ pc[p] \in Pushed => job[p].group \in broken'
      BY <2>5 DEF Stop, Kill, Release, centre, history, Pushed, Working
    <3> QED BY <1>1, <1>2, <2>3, <3>1, PushLeaves
  <2>6. ASSUME NEW p \in Collectors, SkipGroup(p) \/ FailGroup(p) \/ FailBetweenPushes(p)
        PROVE  PushInv'
    <3>1. /\ UNCHANGED <<saved, requests, delivered, repeated>> /\ NextGroup(p)
          /\ pc[p] \in Working /\ (pc[p] \in Pushed => job[p].group \in broken')
      BY <2>6 DEF SkipGroup, FailGroup, FailBetweenPushes, AfterFailure, centre, history, Pushed,
         Working
    <3>2. job[p].todo # <<>>
      BY <2>2, <2>6 DEF SkipGroup, FailGroup, FailBetweenPushes, Opened
    <3> QED BY <1>1, <1>2, <3>1, <3>2, PushMovesOn
  <2>7. ASSUME NEW p \in Collectors, OpenGroup(p) \/ CheckTitle(p) \/ ReopenGroup(p)
        PROVE  PushInv'
    <3>1. /\ UNCHANGED <<saved, requests, delivered, repeated, broken>> /\ pc[p] \notin Pushed
          /\ pc[p] \in Working
      BY <2>7 DEF OpenGroup, CheckTitle, ReopenGroup, centre, history, Pushed, Working
    <3>2. CASE OpenGroup(p)
      <4> DEFINE g == Head(job[p].todo)
                 request == IF g \in Bound THEN 1 ELSE job[p].state[g].request
                 locals == [job[p] EXCEPT !.group = g, !.request = request]
      <4>1. /\ locals.todo = job[p].todo /\ locals.state = job[p].state /\ locals.group = g
            /\ locals.request = request
        BY <2>2 DEF Jobs
      <4>2. Goto(p, "title", locals)
        BY <3>2 DEF OpenGroup
      <4> HIDE DEF locals
      <4>3. pc'[p] = "title" /\ job'[p] = locals
        BY <2>2, <4>2 DEF Goto
      <4>4. Carries(p)'
        BY <2>2, <3>1, <4>1, <4>3 DEF Carries, Captured
      <4> QED BY <1>1, <1>2, <3>1, <4>2, <4>4, PushLeaves DEF Pushed
    <3>3. CASE CheckTitle(p)
      <4>1. Goto(p, "capture", job[p]) /\ pc[p] = "title"
        BY <3>3 DEF CheckTitle
      <4>2. pc'[p] = "capture" /\ job'[p] = job[p]
        BY <2>2, <4>1 DEF Goto
      <4>3. Carries(p)'
        BY <2>2, <3>1, <4>1, <4>2 DEF Carries, Captured, Opened, Pushed, Working
      <4> QED BY <1>1, <1>2, <3>1, <4>1, <4>3, PushLeaves DEF Pushed
    <3>4. CASE ReopenGroup(p)
      BY <1>1, <1>2, <3>1, <3>4, PushUntouched DEF ReopenGroup
    <3> QED BY <2>7, <3>2, <3>3, <3>4
  <2> QED
    BY <1>1, <2>1, <2>4, <2>5, <2>6, <2>7, FirstPush, NewPush, PushPushes, PushUnheard, PushStored
    DEF Next, Looking, Pushing, Failing
<1> QED BY <1>3, <1>4

(* What was pushed is pushed again, and a second request made, only after a  *)
(* push whose checkpoint was not written, on repeated words, or when two     *)
(* collectors worked at once, for any groups, chats and windows.             *)
THEOREM RepushedOnlyAfterBreakHolds ==
  ASSUME EachGroupOnce
  PROVE  Spec => []RepushedOnlyAfterBreak
<1>1. Spec => []TypeInv
  BY TypeInit, TypeStep, PTL DEF Spec
<1>2. Spec => []LockInv
  BY LockInit, LockStep, PTL DEF Spec
<1>3. TypeInv /\ TypeInv' /\ ReadInv /\ [Next]_vars => ReadInv'
  BY ReadStep
<1>4. Spec => []ReadInv
  BY <1>1, <1>3, ReadInit, PTL DEF Spec
<1>5. TypeInv /\ TypeInv' /\ LockInv /\ ReadInv /\ PushInv /\ [Next]_vars => PushInv'
  BY PushStep
<1>6. Spec => []PushInv
  BY <1>1, <1>2, <1>4, <1>5, PushInit, PTL DEF Spec
<1>7. PushInv => RepushedOnlyAfterBreak
  BY DEF PushInv, GroupOK, OneRequest, NeverTwice, RepushedOnlyAfterBreak
<1> QED BY <1>6, <1>7, PTL

=============================================================================
