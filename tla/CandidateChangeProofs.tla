------------------------ MODULE CandidateChangeProofs ------------------------
(***************************************************************************)
(* What holds of change sets for any number of requests, candidates and    *)
(* changes: the state is well formed and every change set that is carried  *)
(* out is in the hands of one request; what may still be applied has not   *)
(* touched the platform; nothing is left half applied but by a restart or  *)
(* an end that could not be written; nothing is overwritten unseen; and    *)
(* what counts as applied is on the platform.                              *)
(***************************************************************************)
EXTENDS CandidateChange, SequenceTheorems, TLAPS

Open == {"waiting_review", "conflict"}
Places == {"asked", "baseline", "same", "other", "items", "read", "save", "end"}

(* The inductive form: how far a request has come is the status of its       *)
(* change set, unless it was applied on a status that had changed; and what  *)
(* it has still to do are items of the change set.                           *)
Flow ==
    /\ touched \subseteq DOMAIN changes
    /\ \A h \in Working :
          LET n == job[h].of IN
          /\ job[h].at = "items" => job[h].todo \subseteq Items(changes[n])
          /\ n \notin overtaken /\ job[h].at \in {"baseline", "same", "other"} => changes[n].status \in Open
          /\ n \notin overtaken /\ job[h].at \in {"items", "read", "save", "end"} => changes[n].status = "applying"

Inv == TypeOK /\ Flow /\ OpenMeansUntouched /\ ApplyingIsHeld

(* A step of the specification, by what it does to requests and change sets. *)
Beside ==
    \/ SessionEnds
    \/ \E p \in Candidates : Begin(p) \/ \E v \in Data \cup {Absent} : HandChange(p, v)

LEMMA StepCases ==
    ASSUME [Next]_vars
    PROVE  \/ \E after \in Proposals, kept \in Kept : Preview(after, kept)
           \/ \E h \in Handlers, n \in Ids : ApplyRead(h, n)
           \/ \E h \in Handlers : Proceed(h)
           \/ Beside \/ ServerRestart \/ UNCHANGED vars
BY Zenon DEF Next, Beside

-----------------------------------------------------------------------------
(* Requests and the change sets they hold.                                   *)

LEMMA JobFields ==
    ASSUME JobsOK, NEW h \in Handlers, job[h].at # "idle"
    PROVE  /\ job[h] \in Jobs \ {Idle}
           /\ job[h].of \in DOMAIN changes /\ job[h].of \in Ids /\ job[h].at \in Places
           /\ job[h].status \in Statuses /\ job[h].todo \subseteq Candidates
           /\ job[h].failed \in BOOLEAN /\ job[h].roomed \in BOOLEAN /\ job[h].read \in ReadRosters
<1>1. job[h] \in Jobs /\ job[h] # Idle
  BY DEF JobsOK, Idle
<1>. QED BY <1>1 DEF Jobs, JobsOK, Places

(* A request that goes on keeps its change set.                              *)
LEMMA Onward ==
    ASSUME JobsOK, NEW h \in Working, NEW j \in Jobs,
           j.at \in Places \ {"asked"}, j.of = job[h].of,
           job' = [job EXCEPT ![h] = j],
           UNCHANGED candidateChangeInFlight, DOMAIN changes' = DOMAIN changes
    PROVE  JobsOK' /\ Working' = Working /\ (\A g \in Handlers : g # h => job'[g] = job[g]) /\ job'[h] = j
<1>1. h \in Handlers /\ job \in [Handlers -> Jobs]
  BY DEF Working, JobsOK
<1>2. job'[h] = j /\ \A g \in Handlers : g # h => job'[g] = job[g]
  BY <1>1
<1>3. Working' = Working
  BY <1>1, <1>2 DEF Working, Places
<1>4. \A g \in Working : job'[g].of = job[g].of
  BY <1>2 DEF Working
<1>5. {job'[g].of : g \in Working'} = {job[g].of : g \in Working}
  BY <1>3, <1>4
<1>6. job' \in [Handlers -> Jobs]
  BY <1>1
<1>7. \A g \in Handlers : job'[g].at # "idle" => job'[g].of \in DOMAIN changes'
  BY <1>1, <1>2 DEF JobsOK, Working
<1>8. \A f, g \in Working' : job'[f].of = job'[g].of => f = g
  BY <1>3, <1>4 DEF JobsOK
<1>. QED BY <1>2, <1>3, <1>5, <1>6, <1>7, <1>8 DEF JobsOK

(* A request that ends gives its change set back.                            *)
LEMMA Ended ==
    ASSUME JobsOK, NEW h \in Working, Leaves(h), DOMAIN changes' = DOMAIN changes
    PROVE  /\ JobsOK' /\ Working' = Working \ {h}
           /\ \A g \in Handlers : g # h => job'[g] = job[g]
           /\ \A g \in Working' : job[g].of # job[h].of
<1>1. h \in Handlers /\ job \in [Handlers -> Jobs] /\ Idle \in Jobs /\ Idle.at = "idle"
  BY DEF Working, JobsOK, Jobs, Idle
<1>2. job'[h] = Idle /\ (\A g \in Handlers : g # h => job'[g] = job[g]) /\ job' \in [Handlers -> Jobs]
  BY <1>1 DEF Leaves
<1>3. Working' = Working \ {h}
  BY <1>1, <1>2 DEF Working
<1>4. \A g \in Working' : job'[g].of = job[g].of /\ job[g].of # job[h].of
  BY <1>2, <1>3 DEF Working, JobsOK
<1>5. {job'[g].of : g \in Working'} = {job[g].of : g \in Working} \ {job[h].of}
  BY <1>3, <1>4
<1>6. candidateChangeInFlight' = {job'[g].of : g \in Working'}
  BY <1>5 DEF Leaves, JobsOK
<1>7. \A g \in Handlers : job'[g].at # "idle" => job'[g].of \in DOMAIN changes'
  BY <1>1, <1>2 DEF JobsOK
<1>8. \A f, g \in Working' : job'[f].of = job'[g].of => f = g
  BY <1>3, <1>4 DEF JobsOK
<1>. QED BY <1>2, <1>3, <1>4, <1>6, <1>7, <1>8 DEF JobsOK

(* A request that waits holds nothing.                                       *)
LEMMA Waits ==
    ASSUME JobsOK, NEW h \in Handlers \ Working, NEW j \in Jobs, j.at \in {"idle", "asked"},
           j.at = "asked" => j.of \in DOMAIN changes,
           job' = [job EXCEPT ![h] = j], UNCHANGED candidateChangeInFlight, DOMAIN changes' = DOMAIN changes
    PROVE  JobsOK' /\ Working' = Working /\ \A g \in Working : job'[g] = job[g]
<1>1. h \in Handlers /\ job \in [Handlers -> Jobs]
  BY DEF JobsOK
<1>2. job'[h] = j /\ (\A g \in Handlers : g # h => job'[g] = job[g]) /\ job' \in [Handlers -> Jobs]
  BY <1>1
<1>3. Working' = Working /\ \A g \in Working : job'[g] = job[g]
  BY <1>1, <1>2 DEF Working
<1>4. {job'[g].of : g \in Working'} = {job[g].of : g \in Working}
  BY <1>3
<1>5. \A g \in Handlers : job'[g].at # "idle" => job'[g].of \in DOMAIN changes'
  BY <1>1, <1>2 DEF JobsOK
<1>. QED BY <1>2, <1>3, <1>4, <1>5 DEF JobsOK

(* A request that takes a free change set holds it alone.                    *)
LEMMA Enters ==
    ASSUME JobsOK, NEW h \in Handlers, job[h].at = "asked", job[h].of \notin candidateChangeInFlight,
           Goes(h, "baseline"), candidateChangeInFlight' = candidateChangeInFlight \cup {job[h].of},
           DOMAIN changes' = DOMAIN changes
    PROVE  /\ JobsOK' /\ Working' = Working \cup {h}
           /\ \A g \in Working : job'[g] = job[g] /\ job[g].of # job[h].of
           /\ job'[h].at = "baseline" /\ job'[h].of = job[h].of /\ job'[h].todo = job[h].todo
<1>1. job \in [Handlers -> Jobs] /\ h \notin Working
  BY DEF JobsOK, Working
<1>2. job[h] \in Jobs \ {Idle}
  BY JobFields
<1>3. /\ job'[h] = [job[h] EXCEPT !.at = "baseline"]
      /\ \A g \in Handlers : g # h => job'[g] = job[g]
  BY <1>1 DEF Goes
<1>4. /\ job'[h] \in Jobs /\ job'[h].at = "baseline" /\ job'[h].of = job[h].of
      /\ job'[h].todo = job[h].todo
  BY <1>2, <1>3 DEF Jobs
<1>5. job' \in [Handlers -> Jobs]
  BY <1>1, <1>3, <1>4 DEF Goes
<1>6. Working' = Working \cup {h}
  BY <1>1, <1>3, <1>4 DEF Working
<1>7. \A g \in Working : job'[g] = job[g] /\ job[g].of # job[h].of
  BY <1>1, <1>3 DEF JobsOK, Working
<1>8. {job'[g].of : g \in Working'} = {job[g].of : g \in Working} \cup {job[h].of}
  BY <1>4, <1>6, <1>7
<1>9. \A g \in Handlers : job'[g].at # "idle" => job'[g].of \in DOMAIN changes'
  BY <1>1, <1>3, <1>4 DEF JobsOK
<1>10. \A f, g \in Working' : job'[f].of = job'[g].of => f = g
  BY <1>4, <1>6, <1>7 DEF JobsOK
<1>. QED BY <1>4, <1>5, <1>6, <1>7, <1>8, <1>9, <1>10 DEF JobsOK

(* Storing a status changes nothing else.                                    *)
LEMMA Stored ==
    ASSUME ChangesOK, NEW n \in DOMAIN changes, NEW s \in Statuses,
           changes' = [changes EXCEPT ![n].status = s]
    PROVE  /\ ChangesOK' /\ DOMAIN changes' = DOMAIN changes
           /\ changes'[n].status = s /\ Items(changes'[n]) = Items(changes[n])
           /\ changes'[n].before = changes[n].before /\ changes'[n].after = changes[n].after
           /\ \A m \in DOMAIN changes : m # n => changes'[m] = changes[m]
<1>. DEFINE C == ChangeSets
            c == [changes[n] EXCEPT !.status = s]
<1>1. changes \in Seq(C) /\ Len(changes) \in Nat /\ DOMAIN changes = 1..Len(changes) /\ n \in 1..Len(changes)
  BY DEF ChangesOK
<1>2. changes[n] \in C
  BY <1>1
<1>3. c \in C /\ c.status = s /\ c.before = changes[n].before /\ c.after = changes[n].after
  BY <1>2 DEF ChangeSets
<1>4. changes' = [changes EXCEPT ![n] = c]
  OBVIOUS
<1>. HIDE DEF C, c
<1>5. changes' \in Seq(C) /\ Len(changes') = Len(changes) /\ DOMAIN changes' = DOMAIN changes
  BY <1>1, <1>3, <1>4
<1>6. changes'[n] = c /\ \A m \in DOMAIN changes : m # n => changes'[m] = changes[m]
  BY <1>1, <1>4
<1>7. \A m \in DOMAIN changes' : changes'[m].before = changes[m].before /\ changes'[m].after = changes[m].after
  BY <1>3, <1>5, <1>6
<1>8. ChangesOK'
  BY <1>5, <1>7 DEF ChangesOK, C
<1>9. Items(changes'[n]) = Items(changes[n])
  BY <1>3, <1>6 DEF Items, Adds, Edits, Deletes
<1>. QED BY <1>3, <1>5, <1>6, <1>8, <1>9

-----------------------------------------------------------------------------
(* What the server reads is a roster, masked here and there.                 *)
LEMMA RowsTyped ==
    ASSUME NEW live \in Rosters, NEW kept \in ReadRosters
    PROVE  RosterRows(live, kept) \in ReadRosters
<1>1. ASSUME NEW p \in Candidates, live[p] # Absent
      PROVE  Completed(p, live[p], kept[p]) \in Data \cup {Hidden}
  <2>1. live[p] \in Data /\ kept[p] \in Data \cup {Absent, Hidden} /\ Blank \in Data /\ Values \subseteq Data
    BY <1>1 DEF Rosters, ReadRosters, Data
  <2>2. CASE live[p] = Blank
    BY <2>1, <2>2 DEF Completed
  <2>3. CASE live[p] # Blank
    BY <2>1, <2>3 DEF Completed
  <2>. QED BY <2>2, <2>3
<1>. QED BY <1>1 DEF RosterRows, ReadRosters

(* A request that goes on without storing a status.                          *)
LEMMA GoesOn ==
    ASSUME Inv, NEW h \in Working, NEW j \in Jobs,
           j.at \in Places \ {"asked"}, j.of = job[h].of,
           j.at = "items" => job[h].at = "items" /\ j.todo \subseteq job[h].todo,
           j.at \in {"baseline", "same", "other"} <=> job[h].at \in {"baseline", "same", "other"},
           job' = [job EXCEPT ![h] = j],
           UNCHANGED <<changes, candidateChangeInFlight, overtaken, stranded>>,
           \/ UNCHANGED touched
           \/ job[h].at = "items" /\ touched' = touched \cup {job[h].of}
    PROVE  ChangesOK' /\ JobsOK' /\ Flow' /\ OpenMeansUntouched' /\ ApplyingIsHeld'
<1>. USE DEF Inv, TypeOK
<1>1. ChangesOK'
  BY DEF ChangesOK
<1>2. JobsOK' /\ Working' = Working /\ (\A g \in Handlers : g # h => job'[g] = job[g]) /\ job'[h] = j
  BY Onward
<1>3. h \in Handlers /\ job[h].of \in DOMAIN changes /\ job[h].at \in Places \ {"asked"}
  BY JobFields DEF Working
<1>4. Flow'
  BY <1>2, <1>3 DEF Flow, Working, Places
<1>5. OpenMeansUntouched'
  BY <1>3 DEF OpenMeansUntouched, Flow
<1>6. ApplyingIsHeld'
  BY DEF ApplyingIsHeld
<1>. QED BY <1>1, <1>2, <1>4, <1>5, <1>6

(* A request that ends, with a status stored or not.                         *)
LEMMA GivesUp ==
    ASSUME Inv, NEW h \in Working, Leaves(h), UNCHANGED <<overtaken, touched>>, stranded \subseteq stranded',
           \/ /\ \E s \in Statuses \ {"applying"} :
                    /\ changes' = [changes EXCEPT ![job[h].of].status = s]
                    /\ s \in Open => job[h].at = "other"
           \/ UNCHANGED changes /\ job[h].of \in stranded'
    PROVE  ChangesOK' /\ JobsOK' /\ Flow' /\ OpenMeansUntouched' /\ ApplyingIsHeld'
<1>. USE DEF Inv, TypeOK
<1>. DEFINE n == job[h].of
<1>1. n \in DOMAIN changes /\ h \in Handlers
  BY JobFields DEF Working
<1>2. CASE UNCHANGED changes /\ n \in stranded'
  <2>1. ChangesOK'
    BY <1>2 DEF ChangesOK
  <2>2. /\ JobsOK' /\ Working' = Working \ {h}
        /\ \A g \in Handlers : g # h => job'[g] = job[g]
    BY <1>2, Ended
  <2>3. Flow'
    BY <1>2, <2>2 DEF Flow, Working
  <2>4. OpenMeansUntouched' /\ ApplyingIsHeld'
    BY <1>2 DEF OpenMeansUntouched, ApplyingIsHeld, Leaves
  <2>. QED BY <2>1, <2>2, <2>3, <2>4
<1>3. CASE \E s \in Statuses \ {"applying"} :
              /\ changes' = [changes EXCEPT ![n].status = s]
              /\ s \in Open => job[h].at = "other"
  <2>1. PICK s \in Statuses \ {"applying"} :
              /\ changes' = [changes EXCEPT ![n].status = s]
              /\ s \in Open => job[h].at = "other"
    BY <1>3
  <2>2. /\ ChangesOK' /\ DOMAIN changes' = DOMAIN changes
        /\ changes'[n].status = s /\ Items(changes'[n]) = Items(changes[n])
        /\ \A m \in DOMAIN changes : m # n => changes'[m] = changes[m]
    BY <1>1, <2>1, Stored
  <2>3. /\ JobsOK' /\ Working' = Working \ {h}
        /\ \A g \in Handlers : g # h => job'[g] = job[g]
        /\ \A g \in Working' : job[g].of # n
    BY <2>2, Ended
  <2>4. \A g \in Working' : job'[g] = job[g] /\ changes'[job[g].of] = changes[job[g].of]
    BY <2>2, <2>3, JobFields DEF Working
  <2>5. Flow'
    BY <2>2, <2>3, <2>4 DEF Flow
  <2>6. s \in Open => n \notin touched \ overtaken
    BY <1>1, <2>1 DEF Flow, Open, OpenMeansUntouched
  <2>7. OpenMeansUntouched'
    BY <2>2, <2>6 DEF OpenMeansUntouched, Open
  <2>8. ApplyingIsHeld'
    BY <2>1, <2>2 DEF ApplyingIsHeld, Leaves
  <2>. QED BY <2>2, <2>3, <2>5, <2>7, <2>8
<1>. QED BY <1>2, <1>3

(* Requests and change sets, step by step.                                   *)
LEMMA ProceedSafe ==
    ASSUME Inv, NEW h \in Handlers, Proceed(h)
    PROVE  ChangesOK' /\ JobsOK' /\ Flow' /\ OpenMeansUntouched' /\ ApplyingIsHeld'
<1>. DEFINE n == job[h].of
            Goal == ChangesOK' /\ JobsOK' /\ Flow' /\ OpenMeansUntouched' /\ ApplyingIsHeld'
<1>. SUFFICES Goal
  BY DEF Goal
<1>. HIDE DEF Goal
<1>0. TypeOK /\ ChangesOK /\ JobsOK /\ PlatformOK /\ job \in [Handlers -> Jobs]
  BY DEF Inv, TypeOK, JobsOK
<1>1. CASE ApplyCheck(h)
  <2>1. job[h].at = "asked"
    BY <1>1 DEF ApplyCheck
  <2>2. job[h] \in Jobs \ {Idle} /\ n \in DOMAIN changes /\ job[h].status \in Statuses /\ h \in Handlers \ Working
    BY <1>0, <2>1, JobFields DEF Working
  <2>3. UNCHANGED <<changes, touched, stranded>>
    BY <1>1 DEF ApplyCheck
  <2>4. ChangesOK'
    BY <1>0, <2>3 DEF ChangesOK
  <2>5. CASE MayApply(n, job[h].status)
    <3>1. /\ Goes(h, "baseline") /\ candidateChangeInFlight' = candidateChangeInFlight \cup {n}
          /\ overtaken' = IF changes[n].status = job[h].status THEN overtaken ELSE overtaken \cup {n}
      BY <1>1, <2>5 DEF ApplyCheck
    <3>2. n \notin candidateChangeInFlight /\ job[h].status \in Open
      BY <2>5 DEF MayApply, Open
    <3>3. /\ JobsOK' /\ Working' = Working \cup {h}
          /\ \A g \in Working : job'[g] = job[g] /\ job[g].of # n
          /\ job'[h].at = "baseline" /\ job'[h].of = n /\ job'[h].todo = job[h].todo
      BY <1>0, <2>1, <2>3, <3>1, <3>2, Enters
    <3>4. Flow'
      BY <2>3, <3>1, <3>2, <3>3 DEF Inv, Flow
    <3>5. OpenMeansUntouched' /\ ApplyingIsHeld'
      BY <2>3, <3>1 DEF Inv, OpenMeansUntouched, ApplyingIsHeld
    <3>. QED BY <2>4, <3>3, <3>4, <3>5 DEF Goal
  <2>6. CASE ~MayApply(n, job[h].status)
    <3>1. job' = [job EXCEPT ![h] = Idle] /\ UNCHANGED <<candidateChangeInFlight, overtaken>>
      BY <1>1, <2>6 DEF ApplyCheck
    <3>2. Idle \in Jobs /\ Idle.at = "idle"
      BY DEF Jobs, Idle
    <3>3. JobsOK' /\ Working' = Working /\ \A g \in Working : job'[g] = job[g]
      BY <1>0, <2>2, <2>3, <3>1, <3>2, Waits
    <3>4. Flow'
      BY <2>3, <3>1, <3>3 DEF Inv, Flow
    <3>5. OpenMeansUntouched' /\ ApplyingIsHeld'
      BY <2>3, <3>1 DEF Inv, OpenMeansUntouched, ApplyingIsHeld
    <3>. QED BY <2>4, <3>3, <3>4, <3>5 DEF Goal
  <2>. QED BY <2>5, <2>6 DEF Goal
<1>. DEFINE Moves(places) == h \in Working /\ job[h].at \in places /\ job[h] \in Jobs \ {Idle}
<1>2. CASE ReadBaseline(h)
  <2>1. Moves({"baseline"})
    BY <1>0, <1>2, JobFields DEF ReadBaseline, Working
  <2>2. PICK place \in {"same", "other"} : Goes(h, place)
    BY <1>2 DEF ReadBaseline
  <2>. DEFINE j == [job[h] EXCEPT !.at = place]
  <2>3. j \in Jobs /\ j.at = place /\ j.of = n /\ j.todo = job[h].todo
    BY <2>1, <2>2 DEF Jobs
  <2>4. job' = [job EXCEPT ![h] = j]
    BY <2>2 DEF Goes
  <2>5. UNCHANGED <<changes, candidateChangeInFlight, overtaken, stranded, touched>>
    BY <1>2 DEF ReadBaseline
  <2>. HIDE DEF j
  <2>. QED BY <2>1, <2>2, <2>3, <2>4, <2>5, GoesOn DEF Goal, Places
<1>3. CASE MarkConflict(h)
  <2>1. Moves({"other"})
    BY <1>0, <1>3, JobFields DEF MarkConflict, Working
  <2>2. Leaves(h) /\ UNCHANGED <<overtaken, touched, stranded>> /\ "conflict" \in Statuses \ {"applying"}
    BY <1>3 DEF MarkConflict, history, Statuses
  <2>3. changes' = [changes EXCEPT ![n].status = "conflict"]
    BY <1>3 DEF MarkConflict
  <2>. QED BY <2>1, <2>2, <2>3, GivesUp DEF Goal
<1>4. CASE MarkApplying(h)
  <2>1. Moves({"same"}) /\ n \in DOMAIN changes
    BY <1>0, <1>4, JobFields DEF MarkApplying, Working
  <2>2. changes' = [changes EXCEPT ![n].status = "applying"] /\ "applying" \in Statuses
    BY <1>4 DEF MarkApplying, Statuses
  <2>3. /\ ChangesOK' /\ DOMAIN changes' = DOMAIN changes
        /\ changes'[n].status = "applying" /\ Items(changes'[n]) = Items(changes[n])
        /\ \A m \in DOMAIN changes : m # n => changes'[m] = changes[m]
    BY <1>0, <2>1, <2>2, Stored
  <2>. DEFINE j == [job[h] EXCEPT !.at = "items", !.todo = Items(changes[n])]
  <2>4. Items(changes[n]) \subseteq Candidates
    BY DEF Items, Adds, Edits, Deletes
  <2>5. j \in Jobs /\ j.at = "items" /\ j.of = n /\ j.todo = Items(changes[n])
    BY <2>1, <2>4 DEF Jobs
  <2>6. job' = [job EXCEPT ![h] = j] /\ UNCHANGED <<candidateChangeInFlight, overtaken, stranded, touched>>
    BY <1>4 DEF MarkApplying, history
  <2>. HIDE DEF j
  <2>7. JobsOK' /\ Working' = Working /\ (\A g \in Handlers : g # h => job'[g] = job[g]) /\ job'[h] = j
    BY <1>0, <2>1, <2>3, <2>5, <2>6, Onward DEF Places
  <2>8. \A g \in Working : g # h => job'[g] = job[g] /\ changes'[job[g].of] = changes[job[g].of]
    BY <1>0, <2>1, <2>3, <2>7, JobFields DEF Working, JobsOK
  <2>9. Flow'
    BY <2>3, <2>5, <2>6, <2>7, <2>8 DEF Inv, Flow
  <2>10. OpenMeansUntouched'
    BY <2>3, <2>6 DEF Inv, OpenMeansUntouched
  <2>11. n \in candidateChangeInFlight
    BY <1>0, <2>1 DEF JobsOK
  <2>12. ApplyingIsHeld'
    BY <2>3, <2>6, <2>11 DEF Inv, ApplyingIsHeld
  <2>. QED BY <2>3, <2>7, <2>9, <2>10, <2>12 DEF Goal
<1>5. CASE ExecuteItem(h)
  <2>1. Moves({"items"}) /\ job[h].failed \in BOOLEAN
    BY <1>0, <1>5, JobFields DEF ExecuteItem, Working
  <2>2. PICK p \in Candidates, well \in BOOLEAN :
           /\ job' = [job EXCEPT ![h].todo = @ \ {p}, ![h].failed = @ \/ ~well]
           /\ CarryOut(n, p) \/ UNCHANGED touched
    BY <1>5, Zenon DEF ExecuteItem
  <2>. DEFINE j == [job[h] EXCEPT !.todo = @ \ {p}, !.failed = @ \/ ~well]
  <2>3. j \in Jobs /\ j.at = "items" /\ j.of = n /\ j.todo = job[h].todo \ {p}
    BY <2>1, <2>2 DEF Jobs
  <2>4. job' = [job EXCEPT ![h] = j]
    BY <2>2
  <2>5. UNCHANGED <<changes, candidateChangeInFlight, overtaken, stranded>>
    BY <1>5 DEF ExecuteItem
  <2>6. UNCHANGED touched \/ touched' = touched \cup {n}
    BY <2>2 DEF CarryOut
  <2>. HIDE DEF j
  <2>. QED BY <2>1, <2>3, <2>4, <2>5, <2>6, GoesOn DEF Goal, Places
<1>6. CASE Readback(h)
  <2>1. Moves({"items"}) /\ n \in DOMAIN changes
    BY <1>0, <1>6, JobFields DEF Readback, Working
  <2>2. RosterRows(online, changes[n].after) \in ReadRosters
    <3>1. changes[n] \in ChangeSets /\ online \in Rosters
      BY <1>0, <2>1 DEF PlatformOK, ChangesOK
    <3>. QED BY <3>1, RowsTyped DEF ChangeSets
  <2>. DEFINE j == [job[h] EXCEPT !.at = "read", !.read = RosterRows(online, changes[n].after)]
  <2>3. j \in Jobs /\ j.at = "read" /\ j.of = n /\ j.todo = job[h].todo
    BY <2>1, <2>2 DEF Jobs
  <2>4. job' = [job EXCEPT ![h] = j]
    BY <1>6 DEF Readback
  <2>5. UNCHANGED <<changes, candidateChangeInFlight, overtaken, stranded, touched>>
    BY <1>6 DEF Readback
  <2>. HIDE DEF j
  <2>. QED BY <2>1, <2>3, <2>4, <2>5, GoesOn DEF Goal, Places
<1>7. CASE AssignRooms(h)
  <2>1. Moves({"read"}) /\ job[h].roomed \in BOOLEAN
    BY <1>0, <1>7, JobFields DEF AssignRooms, Working
  <2>2. PICK roomed \in BOOLEAN : job' = [job EXCEPT ![h] = [job[h] EXCEPT !.at = "save", !.roomed = roomed]]
    <3>1. CASE Goes(h, "save")
      <4>1. [job[h] EXCEPT !.at = "save"] = [job[h] EXCEPT !.at = "save", !.roomed = job[h].roomed]
        BY <2>1 DEF Jobs
      <4>. QED BY <2>1, <3>1, <4>1 DEF Goes
    <3>2. CASE \E roomed \in BOOLEAN : job' = [job EXCEPT ![h].at = "save", ![h].roomed = roomed]
      BY <3>2
    <3>. QED BY <1>7, <3>1, <3>2, Zenon DEF AssignRooms
  <2>. DEFINE j == [job[h] EXCEPT !.at = "save", !.roomed = roomed]
  <2>3. j \in Jobs /\ j.at = "save" /\ j.of = n /\ j.todo = job[h].todo
    BY <2>1 DEF Jobs
  <2>4. job' = [job EXCEPT ![h] = j]
    BY <2>2
  <2>5. UNCHANGED <<changes, candidateChangeInFlight, overtaken, stranded, touched>>
    BY <1>7 DEF AssignRooms, history
  <2>. HIDE DEF j
  <2>. QED BY <2>1, <2>3, <2>4, <2>5, GoesOn DEF Goal, Places
<1>8. CASE SaveRoster(h)
  <2>1. Moves({"read", "save"})
    BY <1>0, <1>8, JobFields DEF SaveRoster, Working
  <2>. DEFINE j == [job[h] EXCEPT !.at = "end"]
  <2>2. j \in Jobs /\ j.at = "end" /\ j.of = n /\ j.todo = job[h].todo
    BY <2>1 DEF Jobs
  <2>3. job' = [job EXCEPT ![h] = j]
    BY <1>8 DEF SaveRoster, Goes
  <2>4. UNCHANGED <<changes, candidateChangeInFlight, overtaken, stranded, touched>>
    BY <1>8 DEF SaveRoster, history
  <2>. HIDE DEF j
  <2>. QED BY <2>1, <2>2, <2>3, <2>4, GoesOn DEF Goal, Places
<1>9. CASE Conclude(h)
  <2>1. Moves({"end"})
    BY <1>0, <1>9, JobFields DEF Conclude, Working
  <2>2. Leaves(h) /\ UNCHANGED <<overtaken, touched, stranded>>
    BY <1>9 DEF Conclude, history
  <2>3. changes' = [changes EXCEPT ![n].status = FinalStatus(h)]
    BY <1>9 DEF Conclude
  <2>4. FinalStatus(h) \in Statuses \ {"applying"} /\ FinalStatus(h) \notin Open
    BY DEF FinalStatus, Statuses, Open
  <2>. QED BY <2>1, <2>2, <2>3, <2>4, GivesUp DEF Goal
<1>10. CASE BreakOff(h)
  <2>1. h \in Working
    BY <1>10 DEF BreakOff, Working
  <2>2. Leaves(h) /\ UNCHANGED <<overtaken, touched>>
    BY <1>10 DEF BreakOff
  <2>3. /\ AfterBreak \in Statuses \ {"applying"} /\ AfterBreak \notin Open
        /\ \/ changes' = [changes EXCEPT ![n].status = AfterBreak] /\ UNCHANGED stranded
           \/ UNCHANGED changes /\ stranded' = stranded \cup {n}
    BY <1>10 DEF BreakOff, Noted, AfterBreak, Statuses, Open
  <2>. QED BY <2>1, <2>2, <2>3, GivesUp DEF Goal
<1>. QED
  BY <1>1, <1>2, <1>3, <1>4, <1>5, <1>6, <1>7, <1>8, <1>9, <1>10 DEF Proceed

(* The platform, step by step.  What a page proposes hides nothing it was    *)
(* shown, so that only full data are written.                                *)
LEMMA FullData ==
    ASSUME ChangesOK, NEW n \in DOMAIN changes, NEW p \in Items(changes[n])
    PROVE  /\ p \in Candidates /\ changes[n].after[p] \in Data \cup {Absent}
           /\ changes[n].after[p] = Absent => p \in Deletes(changes[n])
<1>1. changes[n] \in ChangeSets
  BY DEF ChangesOK
<1>2. p \in Candidates /\ changes[n].after \in ReadRosters
  BY <1>1 DEF ChangeSets, Items, Adds, Edits, Deletes
<1>3. changes[n].before[p] # changes[n].after[p]
  BY DEF Items, Adds, Edits, Deletes
<1>4. changes[n].after[p] # Hidden
  BY <1>2, <1>3 DEF ChangesOK
<1>5. changes[n].after[p] = Absent => p \in Deletes(changes[n])
  BY <1>2, <1>3 DEF Deletes
<1>. QED BY <1>2, <1>4, <1>5 DEF ReadRosters

LEMMA PlatformSafe ==
    ASSUME Inv, NEW h \in Handlers, Proceed(h)
    PROVE  PlatformOK'
<1>0. ChangesOK /\ JobsOK /\ PlatformOK
  BY DEF Inv, TypeOK
<1>1. CASE UNCHANGED platform /\ UNCHANGED local
  BY <1>0, <1>1 DEF platform, PlatformOK
<1>2. CASE ExecuteItem(h)
  <2>1. h \in Working /\ job[h].at = "items" /\ job[h].of \in DOMAIN changes
    BY <1>0, <1>2, JobFields DEF ExecuteItem, Working
  <2>. DEFINE n == job[h].of
  <2>2. PICK p \in Candidates :
           p \in job[h].todo /\ (CarryOut(n, p) \/ UNCHANGED <<online, placed>>)
    BY <1>2, Zenon DEF ExecuteItem, IsNext
  <2>3. p \in Items(changes[n])
    BY <2>1, <2>2 DEF Inv, Flow
  <2>4. /\ changes[n].after[p] \in Data \cup {Absent}
        /\ changes[n].after[p] = Absent => p \in Deletes(changes[n])
    BY <1>0, <2>1, <2>3, FullData
  <2>5. UNCHANGED <<hasRooms, started, local>>
    BY <1>2 DEF ExecuteItem
  <2>6. CASE UNCHANGED <<online, placed>>
    BY <1>0, <2>5, <2>6 DEF PlatformOK
  <2>7. CASE CarryOut(n, p)
    <3>1. /\ online' = [online EXCEPT ![p] = changes[n].after[p]]
          /\ placed' = IF p \in Deletes(changes[n]) THEN placed \ {p} ELSE placed
      BY <2>7 DEF CarryOut
    <3>2. online' \in Rosters
      BY <1>0, <2>4, <3>1 DEF PlatformOK, Rosters
    <3>3. placed' \subseteq {q \in Candidates : online'[q] # Absent} /\ placed' \subseteq placed
      BY <1>0, <2>4, <3>1 DEF PlatformOK, Rosters
    <3>. QED BY <1>0, <2>5, <3>2, <3>3 DEF PlatformOK
  <2>. QED BY <2>2, <2>6, <2>7
<1>3. CASE AssignRooms(h)
  <2>1. UNCHANGED <<online, hasRooms, started, local>>
    BY <1>3 DEF AssignRooms
  <2>2. \/ UNCHANGED placed
        \/ hasRooms /\ \E some \in SUBSET {p \in Adds(changes[job[h].of]) : online[p] # Absent} :
                          placed' = placed \cup some
    BY <1>3, Zenon DEF AssignRooms
  <2>3. placed' \subseteq {p \in Candidates : online[p] # Absent} /\ (placed' # {} => hasRooms)
    BY <1>0, <2>2 DEF PlatformOK, Adds
  <2>. QED BY <1>0, <2>1, <2>3 DEF PlatformOK
<1>4. CASE SaveRoster(h)
  <2>1. job[h].read \in ReadRosters
    BY <1>0, <1>4, JobFields DEF SaveRoster
  <2>. QED BY <1>0, <1>4, <2>1 DEF SaveRoster, platform, PlatformOK
<1>5. \/ UNCHANGED platform /\ UNCHANGED local
      \/ ExecuteItem(h) \/ AssignRooms(h) \/ SaveRoster(h)
  BY DEF Proceed, ApplyCheck, ReadBaseline, MarkConflict, MarkApplying, Readback, Conclude, BreakOff
<1>. QED BY <1>1, <1>2, <1>3, <1>4, <1>5

-----------------------------------------------------------------------------
(* The other steps.                                                          *)

LEMMA Untouched ==
    ASSUME Inv, UNCHANGED <<changes, candidateChangeInFlight, job, touched, overtaken, stranded>>
    PROVE  ChangesOK' /\ JobsOK' /\ Flow' /\ OpenMeansUntouched' /\ ApplyingIsHeld'
<1>1. Working' = Working
  BY DEF Working
<1>. QED
  BY <1>1 DEF Inv, TypeOK, ChangesOK, JobsOK, Flow, OpenMeansUntouched, ApplyingIsHeld

LEMMA BesideSafe ==
    ASSUME Inv, Beside
    PROVE  Inv'
<1>0. PlatformOK
  BY DEF Inv, TypeOK
<1>1. UNCHANGED <<changes, candidateChangeInFlight, job, touched, overtaken, stranded>>
  BY DEF Beside, SessionEnds, Begin, HandChange, history
<1>2. PlatformOK'
  <2>1. CASE SessionEnds
    BY <1>0, <2>1 DEF SessionEnds, PlatformOK
  <2>2. ASSUME NEW p \in Candidates, Begin(p) PROVE PlatformOK'
    BY <1>0, <2>2 DEF Begin, PlatformOK
  <2>3. ASSUME NEW p \in Candidates, NEW v \in Data \cup {Absent}, HandChange(p, v) PROVE PlatformOK'
    <3>1. /\ online' = [online EXCEPT ![p] = v] /\ UNCHANGED <<hasRooms, started, local>>
          /\ placed' = IF v = Absent THEN placed \ {p} ELSE placed
      BY <2>3 DEF HandChange
    <3>2. online' \in Rosters
      BY <1>0, <3>1 DEF PlatformOK, Rosters
    <3>3. placed' \subseteq {q \in Candidates : online'[q] # Absent} /\ placed' \subseteq placed
      BY <1>0, <3>1 DEF PlatformOK, Rosters
    <3>. QED BY <1>0, <3>1, <3>2, <3>3 DEF PlatformOK
  <2>. QED BY <2>1, <2>2, <2>3 DEF Beside
<1>. QED BY <1>1, <1>2, Untouched DEF Inv, TypeOK

LEMMA ReadSafe ==
    ASSUME Inv, NEW h \in Handlers, NEW n \in Ids, ApplyRead(h, n)
    PROVE  Inv'
<1>0. ChangesOK /\ JobsOK /\ PlatformOK
  BY DEF Inv, TypeOK
<1>. DEFINE j == [at |-> "asked", of |-> n, status |-> changes[n].status,
                  todo |-> {}, failed |-> FALSE, read |-> NoRoster, roomed |-> TRUE]
<1>1. /\ job[h].at = "idle" /\ n <= Len(changes) /\ job' = [job EXCEPT ![h] = j]
      /\ UNCHANGED <<changes, candidateChangeInFlight, touched, overtaken, stranded>>
      /\ UNCHANGED <<online, placed, hasRooms, started, local>>
  BY DEF ApplyRead, platform, history
<1>2. n \in DOMAIN changes /\ changes[n].status \in Statuses
  <2>. DEFINE C == ChangeSets
  <2>1. changes \in Seq(C) /\ MaxChanges \in Nat
    BY <1>0, CandidateAssumption DEF ChangesOK
  <2>2. n \in DOMAIN changes
    BY <1>1, <2>1 DEF Ids
  <2>3. changes[n] \in C
    BY <2>1, <2>2
  <2>. QED BY <2>2, <2>3 DEF ChangeSets
<1>3. NoRoster \in ReadRosters
  BY DEF NoRoster, ReadRosters
<1>4. j \in Jobs /\ j.at = "asked" /\ j.of = n
  BY <1>2, <1>3 DEF Jobs
<1>. HIDE DEF j
<1>5. JobsOK' /\ Working' = Working /\ \A g \in Working : job'[g] = job[g]
  BY <1>0, <1>1, <1>2, <1>4, Waits DEF Working
<1>6. ChangesOK' /\ PlatformOK'
  BY <1>0, <1>1 DEF ChangesOK, PlatformOK
<1>7. Flow' /\ OpenMeansUntouched' /\ ApplyingIsHeld'
  BY <1>1, <1>5 DEF Inv, Flow, OpenMeansUntouched, ApplyingIsHeld
<1>. QED BY <1>5, <1>6, <1>7 DEF Inv, TypeOK

LEMMA PreviewSafe ==
    ASSUME Inv, NEW after \in Proposals, NEW kept \in Kept, Preview(after, kept)
    PROVE  Inv'
<1>0. ChangesOK /\ JobsOK /\ PlatformOK
  BY DEF Inv, TypeOK
<1>. DEFINE before == RosterRows(online, kept)
            c == [status |-> "waiting_review", before |-> before, after |-> after,
                  blocked |-> Blocked(before, after)]
            C == ChangeSets
<1>1. /\ Len(changes) < MaxChanges /\ \A p \in Candidates : after[p] = Hidden => before[p] = Hidden
      /\ changes' = Append(changes, c)
      /\ UNCHANGED <<candidateChangeInFlight, job, touched, overtaken, stranded>>
      /\ UNCHANGED <<online, placed, hasRooms, started, local>>
  BY DEF Preview, platform, history
<1>2. before \in ReadRosters /\ after \in ReadRosters /\ Blocked(before, after) \subseteq Candidates
  <2>1. kept \in ReadRosters /\ after \in ReadRosters
    BY <1>0, CandidateAssumption DEF ReadRosters, PlatformOK, Kept, NoRoster
  <2>. QED BY <1>0, <2>1, RowsTyped DEF PlatformOK, Blocked
<1>. HIDE DEF before
<1>3. c \in C /\ c.status = "waiting_review" /\ c.before = before /\ c.after = after
  BY <1>2 DEF ChangeSets, Statuses
<1>4. changes \in Seq(C) /\ Len(changes) \in Nat /\ DOMAIN changes = 1..Len(changes) /\ MaxChanges \in Nat
  BY <1>0, CandidateAssumption DEF ChangesOK
<1>. HIDE DEF c, C
<1>. DEFINE new == Len(changes) + 1
<1>5. /\ changes' \in Seq(C) /\ Len(changes') = new /\ DOMAIN changes' = DOMAIN changes \cup {new}
      /\ changes'[new] = c /\ \A m \in DOMAIN changes : changes'[m] = changes[m]
  BY <1>1, <1>3, <1>4
<1>6. new \notin DOMAIN changes /\ new <= MaxChanges
  BY <1>1, <1>4
<1>7. ChangesOK'
  BY <1>0, <1>1, <1>3, <1>5, <1>6 DEF ChangesOK, C
<1>8. Working' = Working
  BY <1>1 DEF Working
<1>9. JobsOK'
  BY <1>0, <1>1, <1>5, <1>8 DEF JobsOK
<1>10. Flow'
  BY <1>0, <1>1, <1>5, <1>8, JobFields DEF Inv, Flow, Working
<1>11. OpenMeansUntouched' /\ ApplyingIsHeld'
  BY <1>1, <1>3, <1>5, <1>6 DEF Inv, Flow, OpenMeansUntouched, ApplyingIsHeld
<1>12. PlatformOK'
  BY <1>0, <1>1 DEF PlatformOK
<1>. QED BY <1>7, <1>9, <1>10, <1>11, <1>12 DEF Inv, TypeOK

LEMMA RestartSafe ==
    ASSUME Inv, ServerRestart
    PROVE  Inv'
<1>1. /\ candidateChangeInFlight' = {} /\ job' = [h \in Handlers |-> Idle]
      /\ stranded' = stranded \cup candidateChangeInFlight
      /\ UNCHANGED <<changes, touched, overtaken>> /\ UNCHANGED <<online, placed, hasRooms, started, local>>
  BY DEF ServerRestart, platform
<1>2. Idle \in Jobs /\ Idle.at = "idle"
  BY DEF Jobs, Idle
<1>3. job' \in [Handlers -> Jobs] /\ (\A h \in Handlers : job'[h].at = "idle") /\ Working' = {}
  BY <1>1, <1>2 DEF Working
<1>4. JobsOK'
  BY <1>1, <1>3 DEF JobsOK
<1>5. ChangesOK' /\ PlatformOK'
  BY <1>1 DEF Inv, TypeOK, ChangesOK, PlatformOK
<1>6. Flow' /\ OpenMeansUntouched' /\ ApplyingIsHeld'
  BY <1>1, <1>3 DEF Inv, Flow, OpenMeansUntouched, ApplyingIsHeld
<1>. QED BY <1>4, <1>5, <1>6 DEF Inv, TypeOK

-----------------------------------------------------------------------------
LEMMA InvInit ==
    ASSUME Init
    PROVE  Inv
<1>1. Idle \in Jobs /\ Idle.at = "idle"
  BY DEF Jobs, Idle
<1>2. JobsOK /\ Working = {}
  BY <1>1 DEF Init, JobsOK, Working
<1>3. ChangesOK
  BY CandidateAssumption DEF Init, ChangesOK
<1>4. PlatformOK
  BY CandidateAssumption DEF Init, PlatformOK, Rosters, ReadRosters
<1>5. Flow /\ OpenMeansUntouched /\ ApplyingIsHeld
  BY <1>2 DEF Init, Flow, OpenMeansUntouched, ApplyingIsHeld
<1>. QED BY <1>2, <1>3, <1>4, <1>5 DEF Inv, TypeOK

LEMMA InvNext ==
    ASSUME Inv, [Next]_vars
    PROVE  Inv'
<1>1. ASSUME NEW h \in Handlers, Proceed(h) PROVE Inv'
  BY <1>1, ProceedSafe, PlatformSafe DEF Inv, TypeOK
<1>2. CASE UNCHANGED vars
  <2>1. PlatformOK'
    BY <1>2 DEF Inv, TypeOK, PlatformOK, vars, platform
  <2>. QED BY <1>2, <2>1, Untouched DEF Inv, TypeOK, vars, history
<1>. QED BY <1>1, <1>2, StepCases, PreviewSafe, ReadSafe, BesideSafe, RestartSafe

LEMMA InvHolds == Spec => []Inv
BY InvInit, InvNext, PTL DEF Spec

(* The state is well formed, and each change set that is carried out is in   *)
(* the hands of exactly one request (candidateChangeInFlight).               *)
THEOREM TypesHold == Spec => []TypeOK
<1>1. Inv => TypeOK
  BY DEF Inv
<1>. QED BY <1>1, InvHolds, PTL

(* What may still be applied has not touched the platform, unless it was     *)
(* applied on a status that had changed meanwhile.                           *)
THEOREM OpenMeansUntouchedHolds == Spec => []OpenMeansUntouched
<1>1. Inv => OpenMeansUntouched
  BY DEF Inv
<1>. QED BY <1>1, InvHolds, PTL

(* A change set that is stored as being applied is held by a request, or a   *)
(* restart or an unwritten end left it behind.                               *)
THEOREM ApplyingIsHeldHolds == Spec => []ApplyingIsHeld
<1>1. Inv => ApplyingIsHeld
  BY DEF Inv
<1>. QED BY <1>1, InvHolds, PTL

-----------------------------------------------------------------------------
(* What the platform has.  A roster that was read, with which p agrees as    *)
(* far as the platform shows it.                                             *)
Agrees(read, p) ==
    /\ online[p] = Absent <=> read[p] = Absent
    /\ ShowsNothing(p) \/ online[p] = read[p]

(* Apart from what others changed since: what is still to be carried out is  *)
(* as the page was shown it; then the platform agrees with what was read     *)
(* back, and who was to get a room has one.                                  *)
HeldOK(j) ==
    LET n == j.of
        c == changes[n]
        alone == Candidates \ disturbed[n] IN
    /\ j.at = "same" => \A p \in alone : AsShown(c, p)
    /\ j.at = "items" => \A p \in alone \cap j.todo : AsShown(c, p)
    /\ j.at \in {"read", "save", "end"} => \A p \in alone : Agrees(j.read, p)
    /\ j.at \in {"save", "end"} /\ ~j.failed /\ j.read = c.after /\ j.roomed /\ hasRooms =>
          Adds(c) \ disturbed[n] \subseteq placed

AppliedOK(n) ==
    changes[n].status = "applied" /\ n \notin overtaken =>
        \A p \in Candidates \ disturbed[n] :
            /\ online[p] = Absent <=> changes[n].after[p] = Absent
            /\ ShowsNothing(p) \/ online[p] = changes[n].after[p]
            /\ p \in Adds(changes[n]) /\ hasRooms => p \in placed

DisturbedOK == disturbed \in [Ids -> SUBSET Candidates]
HeldInv == \A h \in Working : HeldOK(job[h])
PlatformInv == DisturbedOK /\ HeldInv /\ OverwritesOnlyShown /\ AppliedIsOnline

(* What a step leaves alone, or records as disturbed, of a change set.       *)
LeftAlone(n) ==
    /\ disturbed[n] \subseteq disturbed'[n] /\ hasRooms' = hasRooms
    /\ \A p \in Candidates \ disturbed'[n] : online'[p] = online[p] /\ (p \in placed => p \in placed')
Keeps(n) ==
    /\ n \in DOMAIN changes'
    /\ changes'[n].before = changes[n].before /\ changes'[n].after = changes[n].after
Quiet == UNCHANGED <<online, hasRooms, disturbed, surprised>> /\ placed \subseteq placed'

LEMMA QuietLeavesAlone == ASSUME Quiet, NEW n PROVE LeftAlone(n)
BY DEF Quiet, LeftAlone

LEMMA DisturbedStep ==
    ASSUME DisturbedOK, [Next]_vars
    PROVE  DisturbedOK'
<1>1. CASE UNCHANGED disturbed
  BY <1>1 DEF DisturbedOK
<1>2. ASSUME NEW p \in Candidates, NEW v \in Data \cup {Absent}, HandChange(p, v) PROVE DisturbedOK'
  <2>. DEFINE D(n) == IF n \in Watched THEN disturbed[n] \cup {p} ELSE disturbed[n]
  <2>1. disturbed' = [n \in Ids |-> D(n)]
    BY <1>2 DEF HandChange
  <2>2. \A n \in Ids : D(n) \in SUBSET Candidates
    BY DEF DisturbedOK
  <2>. HIDE DEF D
  <2>. QED BY <2>1, <2>2 DEF DisturbedOK
<1>3. ASSUME NEW n, NEW p \in Candidates, CarryOut(n, p) PROVE DisturbedOK'
  <2>. DEFINE D(m) == IF m \in Watched \ {n} THEN disturbed[m] \cup {p} ELSE disturbed[m]
  <2>1. disturbed' = [m \in Ids |-> D(m)]
    BY <1>3 DEF CarryOut
  <2>2. \A m \in Ids : D(m) \in SUBSET Candidates
    BY DEF DisturbedOK
  <2>. HIDE DEF D
  <2>. QED BY <2>1, <2>2 DEF DisturbedOK
<1>4. ASSUME NEW n, disturbed' = [disturbed EXCEPT ![n] = {}] PROVE DisturbedOK'
  BY <1>4 DEF DisturbedOK
<1>5. ASSUME NEW h \in Handlers, Proceed(h)
      PROVE  \/ UNCHANGED disturbed \/ disturbed' = [disturbed EXCEPT ![job[h].of] = {}]
             \/ \E p \in Candidates : CarryOut(job[h].of, p)
  <2>1. CASE ReadBaseline(h) \/ Readback(h)
    BY <2>1 DEF ReadBaseline, Readback
  <2>2. CASE ExecuteItem(h)
    BY <2>2, Zenon DEF ExecuteItem
  <2>3. CASE ~(ReadBaseline(h) \/ Readback(h) \/ ExecuteItem(h))
    BY <1>5, <2>3 DEF Proceed, ApplyCheck, MarkConflict, MarkApplying, AssignRooms, SaveRoster, Conclude,
                      BreakOff, history
  <2>. QED BY <2>1, <2>2, <2>3
<1>6. \/ UNCHANGED disturbed
      \/ \E p \in Candidates, v \in Data \cup {Absent} : HandChange(p, v)
      \/ \E h \in Handlers : Proceed(h)
  <2>1. ASSUME NEW after, NEW kept, Preview(after, kept) PROVE UNCHANGED disturbed
    BY <2>1 DEF Preview, history
  <2>2. ASSUME NEW h, NEW n, ApplyRead(h, n) PROVE UNCHANGED disturbed
    BY <2>2 DEF ApplyRead, history
  <2>3. ASSUME NEW p, Begin(p) PROVE UNCHANGED disturbed
    BY <2>3 DEF Begin, history
  <2>4. SessionEnds \/ ServerRestart \/ UNCHANGED vars => UNCHANGED disturbed
    BY DEF SessionEnds, ServerRestart, vars, history
  <2>. QED BY <2>1, <2>2, <2>3, <2>4, StepCases, Zenon DEF Beside
<1>. QED BY <1>1, <1>2, <1>3, <1>4, <1>5, <1>6

(* A change set keeps what it was made of.                                   *)
LEMMA KeepsAll ==
    ASSUME Inv, [Next]_vars, NEW n \in DOMAIN changes
    PROVE  Keeps(n)
<1>0. ChangesOK /\ JobsOK
  BY DEF Inv, TypeOK
<1>1. CASE UNCHANGED changes
  BY <1>1 DEF Keeps
<1>2. ASSUME NEW after, NEW kept, Preview(after, kept) PROVE Keeps(n)
  <2>. DEFINE c == [status |-> "waiting_review", before |-> RosterRows(online, kept), after |-> after,
                    blocked |-> Blocked(RosterRows(online, kept), after)]
              C == ChangeSets
  <2>1. changes' = Append(changes, c) /\ changes \in Seq(C)
    BY <1>0, <1>2 DEF Preview, ChangesOK
  <2>. HIDE DEF c, C
  <2>2. n \in DOMAIN changes' /\ changes'[n] = changes[n]
    BY <2>1
  <2>. QED BY <2>2 DEF Keeps
<1>3. ASSUME NEW h \in Working, NEW s \in Statuses, changes' = [changes EXCEPT ![job[h].of].status = s]
      PROVE  Keeps(n)
  <2>1. job[h].of \in DOMAIN changes
    BY <1>0, JobFields DEF Working
  <2>. QED BY <1>0, <1>3, <2>1, Stored DEF Keeps
<1>4. ASSUME NEW h \in Handlers, Proceed(h) PROVE Keeps(n)
  <2>1. CASE ApplyCheck(h) \/ ReadBaseline(h) \/ ExecuteItem(h) \/ Readback(h) \/ AssignRooms(h) \/ SaveRoster(h)
    BY <1>1, <2>1 DEF ApplyCheck, ReadBaseline, ExecuteItem, Readback, AssignRooms, SaveRoster
  <2>2. CASE MarkConflict(h) \/ MarkApplying(h) \/ Conclude(h) \/ BreakOff(h)
    <3>1. h \in Working
      BY <2>2 DEF MarkConflict, MarkApplying, Conclude, BreakOff, Working
    <3>2. UNCHANGED changes \/ \E s \in Statuses : changes' = [changes EXCEPT ![job[h].of].status = s]
      BY <2>2 DEF MarkConflict, MarkApplying, Conclude, BreakOff, Noted, AfterBreak, FinalStatus, Statuses
    <3>. QED BY <1>1, <1>3, <3>1, <3>2
  <2>. QED BY <1>4, <2>1, <2>2 DEF Proceed
<1>5. Beside \/ ServerRestart \/ UNCHANGED vars => UNCHANGED changes
  BY DEF Beside, SessionEnds, Begin, HandChange, ServerRestart, vars
<1>6. ASSUME NEW h, NEW m, ApplyRead(h, m) PROVE UNCHANGED changes
  BY <1>6 DEF ApplyRead
<1>. QED BY <1>1, <1>2, <1>4, <1>5, <1>6, StepCases

-----------------------------------------------------------------------------
(* Which steps disturb whom.                                                 *)

(* A request changes the platform, or what is on record as disturbed, only   *)
(* when it carries out an item or reads the roster.                          *)
Acts(h) == ExecuteItem(h) \/ ReadBaseline(h) \/ Readback(h)

LEMMA ActsOrQuiet ==
    ASSUME NEW h \in Handlers, Proceed(h)
    PROVE  Acts(h) \/ Quiet
<1>1. CASE ApplyCheck(h) \/ MarkConflict(h) \/ MarkApplying(h) \/ SaveRoster(h) \/ Conclude(h) \/ BreakOff(h)
  BY <1>1 DEF ApplyCheck, MarkConflict, MarkApplying, SaveRoster, Conclude, BreakOff, Quiet, platform, history
<1>2. CASE AssignRooms(h)
  <2>1. placed \subseteq placed'
    BY <1>2 DEF AssignRooms
  <2>. QED BY <1>2, <2>1 DEF AssignRooms, Quiet, history
<1>. QED BY <1>1, <1>2 DEF Proceed, Acts

LEMMA WatchedAreIds == ASSUME Inv PROVE Watched \subseteq Ids /\ DOMAIN changes \subseteq Ids
<1>. DEFINE C == ChangeSets
<1>1. changes \in Seq(C) /\ Len(changes) <= MaxChanges /\ MaxChanges \in Nat
  BY CandidateAssumption DEF Inv, TypeOK, ChangesOK
<1>2. DOMAIN changes \subseteq Ids
  BY <1>1 DEF Ids
<1>3. \A g \in Working : job[g].of \in DOMAIN changes
  BY JobFields DEF Inv, TypeOK, Working
<1>. QED BY <1>2, <1>3 DEF Watched, Inv, TypeOK, JobsOK

LEMMA OthersLeftAlone ==
    ASSUME Inv, DisturbedOK, NEW h \in Handlers, Proceed(h), NEW n \in Watched \ {job[h].of}
    PROVE  LeftAlone(n)
<1>1. CASE Quiet
  BY <1>1, QuietLeavesAlone
<1>2. CASE ReadBaseline(h) \/ Readback(h)
  <2>1. disturbed' = [disturbed EXCEPT ![job[h].of] = {}] /\ UNCHANGED <<online, placed, hasRooms>>
    BY <1>2 DEF ReadBaseline, Readback, platform
  <2>2. disturbed'[n] = disturbed[n]
    BY <2>1 DEF DisturbedOK
  <2>. QED BY <2>1, <2>2 DEF LeftAlone
<1>3. CASE ExecuteItem(h)
  <2>1. UNCHANGED hasRooms
    BY <1>3 DEF ExecuteItem
  <2>2. PICK p \in Candidates : CarryOut(job[h].of, p) \/ UNCHANGED <<online, placed, disturbed>>
    BY <1>3, Zenon DEF ExecuteItem
  <2>3. CASE UNCHANGED <<online, placed, disturbed>>
    BY <2>1, <2>3 DEF LeftAlone
  <2>4. CASE CarryOut(job[h].of, p)
    <3>1. n \in Ids
      BY WatchedAreIds
    <3>2. disturbed'[n] = disturbed[n] \cup {p}
      BY <2>4, <3>1 DEF CarryOut
    <3>3. \A q \in Candidates \ {p} : online'[q] = online[q] /\ (q \in placed => q \in placed')
      BY <2>4 DEF CarryOut, Inv, TypeOK, PlatformOK, Rosters
    <3>. QED BY <2>1, <3>2, <3>3 DEF LeftAlone
  <2>. QED BY <2>2, <2>3, <2>4
<1>. QED BY <1>1, <1>2, <1>3, ActsOrQuiet DEF Acts

LEMMA BesideLeavesAlone ==
    ASSUME Inv, DisturbedOK, NEW n \in Watched \cap Ids, Beside
    PROVE  LeftAlone(n) /\ UNCHANGED <<surprised, job, changes, overtaken, candidateChangeInFlight>>
<1>1. ASSUME NEW p \in Candidates, NEW v \in Data \cup {Absent}, HandChange(p, v)
      PROVE  LeftAlone(n) /\ UNCHANGED <<surprised, job, changes, overtaken, candidateChangeInFlight>>
  <2>1. disturbed'[n] = disturbed[n] \cup {p}
    BY <1>1 DEF HandChange
  <2>2. \A q \in Candidates \ {p} : online'[q] = online[q] /\ (q \in placed => q \in placed')
    BY <1>1 DEF HandChange, Inv, TypeOK, PlatformOK, Rosters
  <2>. QED BY <1>1, <2>1, <2>2 DEF LeftAlone, HandChange
<1>2. ASSUME SessionEnds \/ \E p \in Candidates : Begin(p)
      PROVE  LeftAlone(n) /\ UNCHANGED <<surprised, job, changes, overtaken, candidateChangeInFlight>>
  BY <1>2 DEF SessionEnds, Begin, LeftAlone, history
<1>. QED BY <1>1, <1>2 DEF Beside

(* What is left alone stays as it was.                                       *)
LEMMA HeldStays ==
    ASSUME NEW j, HeldOK(j), LeftAlone(j.of), Keeps(j.of)
    PROVE  HeldOK(j)'
<1>. DEFINE n == j.of
            alone == Candidates \ disturbed[n]
            left == Candidates \ disturbed'[n]
<1>1. left \subseteq alone /\ \A p \in left : online'[p] = online[p] /\ (p \in placed => p \in placed')
  BY DEF LeftAlone
<1>2. Adds(changes[n])' = Adds(changes[n]) /\ \A p : AsShown(changes[n], p) /\ online'[p] = online[p] => AsShown(changes[n], p)'
  BY DEF Keeps, Adds, AsShown, ShowsNothing
<1>3. \A p \in left : Agrees(j.read, p) => Agrees(j.read, p)'
  BY <1>1 DEF Agrees, ShowsNothing
<1>4. j.at \in {"same", "items"} => HeldOK(j)'
  BY <1>1, <1>2 DEF HeldOK
<1>5. Adds(changes[n]) \subseteq Candidates /\ changes'[n].after = changes[n].after /\ hasRooms' = hasRooms
  BY DEF Adds, Keeps, LeftAlone
<1>6. j.at \in {"read", "save", "end"} => HeldOK(j)'
  BY <1>1, <1>2, <1>3, <1>5 DEF HeldOK
<1>. QED BY <1>4, <1>6 DEF HeldOK

LEMMA AppliedStays ==
    ASSUME NEW n \in DOMAIN changes, AppliedOK(n), LeftAlone(n), Keeps(n), overtaken \subseteq overtaken',
           changes'[n].status = "applied" => changes[n].status = "applied"
    PROVE  AppliedOK(n)'
<1>1. Candidates \ disturbed'[n] \subseteq Candidates \ disturbed[n]
  BY DEF LeftAlone
<1>2. Adds(changes[n])' = Adds(changes[n])
  BY DEF Keeps, Adds
<1>. QED BY <1>1, <1>2 DEF AppliedOK, LeftAlone, Keeps, ShowsNothing

(* A step beside the requests.                                               *)
LEMMA BesideLands ==
    ASSUME Inv, PlatformInv, [Next]_vars, Beside \/ Quiet,
           \A h \in Working' : h \in Working /\ job'[h] = job[h],
           overtaken \subseteq overtaken', UNCHANGED surprised,
           \A n \in DOMAIN changes' : changes'[n].status = "applied" => n \in DOMAIN changes /\ changes[n].status = "applied"
    PROVE  PlatformInv'
<1>1. ASSUME NEW n \in Watched PROVE LeftAlone(n)
  <2>1. CASE Quiet
    BY <2>1, QuietLeavesAlone
  <2>2. CASE Beside
    BY <2>2, WatchedAreIds, BesideLeavesAlone DEF PlatformInv
  <2>. QED BY <2>1, <2>2
<1>2. HeldInv'
  <2>. SUFFICES ASSUME NEW h \in Working' PROVE HeldOK(job[h])'
    BY DEF HeldInv
  <2>1. h \in Working /\ job'[h] = job[h] /\ HeldOK(job[h])
    BY DEF PlatformInv, HeldInv
  <2>2. job[h].of \in Watched /\ job[h].of \in DOMAIN changes
    BY <2>1, JobFields DEF Inv, TypeOK, JobsOK, Working, Watched
  <2>. PICK j : j = job[h]
    OBVIOUS
  <2>3. HeldOK(j) /\ LeftAlone(j.of) /\ Keeps(j.of)
    BY <1>1, <2>1, <2>2, KeepsAll
  <2>4. HeldOK(j)'
    BY <2>3, HeldStays
  <2>. QED BY <2>1, <2>4
<1>3. AppliedIsOnline'
  <2>. SUFFICES ASSUME NEW n \in DOMAIN changes', changes'[n].status = "applied" PROVE AppliedOK(n)'
    BY DEF AppliedIsOnline, AppliedOK
  <2>1. n \in DOMAIN changes /\ changes[n].status = "applied" /\ n \in Watched
    BY DEF Watched
  <2>2. AppliedOK(n)
    BY <2>1 DEF PlatformInv, AppliedIsOnline, AppliedOK
  <2>. QED BY <1>1, <2>1, <2>2, AppliedStays, KeepsAll
<1>4. OverwritesOnlyShown'
  BY DEF PlatformInv, OverwritesOnlyShown
<1>. QED BY <1>2, <1>3, <1>4, DisturbedStep DEF PlatformInv

-----------------------------------------------------------------------------
(* The step of a request.                                                    *)

LEMMA GoesFields ==
    ASSUME JobsOK, NEW h \in Working, NEW place, Goes(h, place)
    PROVE  /\ job'[h].at = place /\ job'[h].of = job[h].of /\ job'[h].todo = job[h].todo
           /\ job'[h].failed = job[h].failed /\ job'[h].read = job[h].read /\ job'[h].roomed = job[h].roomed
<1>1. h \in Handlers /\ job \in [Handlers -> Jobs] /\ job[h] \in Jobs \ {Idle}
  BY JobFields DEF Working, JobsOK
<1>2. job'[h] = [job[h] EXCEPT !.at = place]
  BY <1>1 DEF Goes
<1>. QED BY <1>1, <1>2 DEF Jobs

LEMMA OtherJobs ==
    ASSUME JobsOK, NEW h \in Handlers, Proceed(h)
    PROVE  \A g \in Handlers : g # h => job'[g] = job[g]
<1>1. \E j : job' = [job EXCEPT ![h] = j]
  <2>1. CASE ApplyCheck(h)
    BY <2>1 DEF ApplyCheck, Goes
  <2>2. CASE ReadBaseline(h)
    BY <2>2 DEF ReadBaseline, Goes
  <2>3. CASE MarkConflict(h) \/ Conclude(h) \/ BreakOff(h)
    BY <2>3 DEF MarkConflict, Conclude, BreakOff, Leaves
  <2>4. CASE MarkApplying(h)
    BY <2>4 DEF MarkApplying
  <2>5. CASE ExecuteItem(h)
    BY <2>5 DEF ExecuteItem
  <2>6. CASE Readback(h)
    BY <2>6 DEF Readback
  <2>7. CASE AssignRooms(h)
    BY <2>7 DEF AssignRooms, Goes
  <2>8. CASE SaveRoster(h)
    BY <2>8 DEF SaveRoster, Goes
  <2>. QED BY <2>1, <2>2, <2>3, <2>4, <2>5, <2>6, <2>7, <2>8 DEF Proceed
<1>. QED BY <1>1 DEF JobsOK

(* The roster that is read tells of each candidate what the platform shows.  *)
LEMMA ReadAgrees ==
    ASSUME PlatformOK, NEW kept, NEW p \in Candidates
    PROVE  Agrees(RosterRows(online, kept), p)
<1>. DEFINE shown == RosterRows(online, kept)[p]
<1>1. shown = IF online[p] = Absent THEN Absent ELSE Completed(p, online[p], kept[p])
  BY DEF RosterRows
<1>2. Absent \notin Values /\ Hidden # Absent /\ Blank # Absent
  BY DEF Values, Absent, Hidden, Blank
<1>3. online[p] # Absent => shown # Absent /\ (ShowsNothing(p) \/ shown = online[p])
  BY <1>1, <1>2 DEF Completed, ShowsNothing
<1>. QED BY <1>1, <1>3 DEF Agrees

LEMMA BaselineShown ==
    ASSUME PlatformOK, NEW n, NEW kept, StillBaseline(n, kept), NEW p \in Candidates
    PROVE  AsShown(changes[n], p)
BY ReadAgrees DEF StillBaseline, Agrees, AsShown, ShowsNothing

(* What a request needs for its own change set, step by step.                *)
LEMMA OwnHeld ==
    ASSUME Inv, PlatformInv, NEW h \in Handlers, Proceed(h), h \in Working', Keeps(job[h].of)
    PROVE  HeldOK(job[h])'
<1>. PICK n : n = job[h].of
  OBVIOUS
<1>. PICK read : read = job[h].read
  OBVIOUS
<1>. DEFINE c == changes[n]
<1>0. JobsOK /\ PlatformOK /\ job \in [Handlers -> Jobs] /\ DisturbedOK
  BY DEF Inv, TypeOK, JobsOK, PlatformInv
<1>1. CASE ApplyCheck(h)
  <2>1. job[h].at = "asked" /\ (Goes(h, "baseline") \/ job' = [job EXCEPT ![h] = Idle])
    BY <1>1 DEF ApplyCheck
  <2>2. job[h] \in Jobs \ {Idle}
    BY <1>0, <2>1, JobFields
  <2>3. job'[h].at \in {"baseline", "idle"}
    BY <1>0, <2>1, <2>2 DEF Goes, Idle, Jobs
  <2>. QED BY <2>3 DEF HeldOK
<1>2. CASE MarkConflict(h) \/ Conclude(h) \/ BreakOff(h)
  <2>1. job' = [job EXCEPT ![h] = Idle]
    BY <1>2 DEF MarkConflict, Conclude, BreakOff, Leaves
  <2>2. job'[h].at = "idle"
    BY <1>0, <2>1 DEF Idle
  <2>. QED BY <2>2 DEF Working
<1>. DEFINE Moves(places) == h \in Working /\ job[h].at \in places /\ job[h] \in Jobs \ {Idle} /\ n \in Ids
<1>3. CASE ReadBaseline(h)
  <2>1. Moves({"baseline"})
    BY <1>0, <1>3, JobFields DEF ReadBaseline, Working
  <2>2. PICK kept : Goes(h, IF StillBaseline(n, kept) THEN "same" ELSE "other")
    BY <1>3 DEF ReadBaseline
  <2>3. UNCHANGED <<online, changes>>
    BY <1>3 DEF ReadBaseline, platform
  <2>4. job'[h].of = n /\ job'[h].at = IF StillBaseline(n, kept) THEN "same" ELSE "other"
    BY <1>0, <2>1, <2>2, GoesFields
  <2>5. StillBaseline(n, kept) => \A p \in Candidates : AsShown(c, p)
    BY <1>0, BaselineShown
  <2>6. StillBaseline(n, kept) => \A p \in Candidates : AsShown(c, p)'
    BY <2>3, <2>5 DEF AsShown, ShowsNothing
  <2>. QED BY <2>3, <2>4, <2>6 DEF HeldOK, AsShown, ShowsNothing
<1>4. CASE MarkApplying(h)
  <2>1. Moves({"same"})
    BY <1>0, <1>4, JobFields DEF MarkApplying, Working
  <2>2. job'[h].at = "items" /\ job'[h].of = n
    BY <1>0, <1>4, <2>1 DEF MarkApplying, Jobs
  <2>3. UNCHANGED <<online, disturbed>>
    BY <1>4 DEF MarkApplying, platform, history
  <2>4. \A p \in Candidates \ disturbed[n] : AsShown(c, p)
    BY <2>1 DEF PlatformInv, HeldInv, HeldOK
  <2>5. \A p \in Candidates \ disturbed[n] : AsShown(c, p)'
    BY <2>3, <2>4 DEF AsShown, ShowsNothing, Keeps
  <2>. QED BY <2>2, <2>3, <2>5 DEF HeldOK, AsShown, ShowsNothing
<1>5. CASE ExecuteItem(h)
  <2>1. Moves({"items"}) /\ UNCHANGED changes
    BY <1>0, <1>5, JobFields DEF ExecuteItem, Working
  <2>2. PICK p \in Candidates, well \in BOOLEAN :
            /\ job' = [job EXCEPT ![h].todo = @ \ {p}, ![h].failed = @ \/ ~well]
            /\ CarryOut(n, p) \/ UNCHANGED <<online, disturbed>>
    BY <1>5, Zenon DEF ExecuteItem
  <2>3. job'[h].at = "items" /\ job'[h].of = n /\ job'[h].todo = job[h].todo \ {p}
    BY <1>0, <2>1, <2>2 DEF Jobs
  <2>4. \A q \in Candidates \ disturbed[n] : q \in job[h].todo => AsShown(c, q)
    BY <2>1 DEF PlatformInv, HeldInv, HeldOK
  <2>5. disturbed'[n] = disturbed[n] /\ \A q \in Candidates \ {p} : online'[q] = online[q]
    BY <1>0, <2>1, <2>2 DEF CarryOut, PlatformOK, Rosters
  <2>6. \A q \in Candidates \ disturbed'[n] : q \in job'[h].todo => AsShown(c, q)'
    BY <2>1, <2>3, <2>4, <2>5 DEF AsShown, ShowsNothing
  <2>. QED BY <2>1, <2>3, <2>6 DEF HeldOK, AsShown, ShowsNothing
<1>6. CASE Readback(h)
  <2>1. Moves({"items"})
    BY <1>0, <1>6, JobFields DEF Readback, Working
  <2>2. job'[h].at = "read" /\ job'[h].of = n /\ job'[h].read = RosterRows(online, c.after)
    BY <1>0, <1>6, <2>1 DEF Readback, Jobs
  <2>3. UNCHANGED online
    BY <1>6 DEF Readback, platform
  <2>4. \A p \in Candidates : Agrees(job'[h].read, p)
    BY <1>0, <2>2, ReadAgrees
  <2>. QED BY <2>2, <2>3, <2>4 DEF HeldOK, Agrees, ShowsNothing
<1>7. CASE AssignRooms(h)
  <2>1. Moves({"read"})
    BY <1>0, <1>7, JobFields DEF AssignRooms, Working
  <2>2. UNCHANGED <<online, hasRooms, disturbed, changes>> /\ Adds(c)' = Adds(c)
    BY <1>7 DEF AssignRooms, history, Adds
  <2>3. \A p \in Candidates \ disturbed[n] : Agrees(job[h].read, p)
    BY <2>1 DEF PlatformInv, HeldInv, HeldOK
  <2>4. /\ job'[h].at = "save" /\ job'[h].of = n /\ job'[h].read = job[h].read
        /\ job'[h].roomed /\ hasRooms => Adds(c) \subseteq placed'
    <3>1. CASE ~hasRooms /\ Goes(h, "save")
      BY <1>0, <2>1, <3>1, GoesFields
    <3>2. ASSUME NEW some, placed' = placed \cup some,
                 job' = [job EXCEPT ![h].at = "save", ![h].roomed = Adds(c) \subseteq placed \cup some]
          PROVE  <2>4!1 /\ <2>4!2
      BY <1>0, <2>1, <3>2 DEF Jobs
    <3>3. CASE job' = [job EXCEPT ![h].at = "save", ![h].roomed = FALSE]
      BY <1>0, <2>1, <3>3 DEF Jobs
    <3>. QED BY <1>7, <3>1, <3>2, <3>3 DEF AssignRooms
  <2>5. \A p \in Candidates \ disturbed[n] : Agrees(read, p)'
    BY <2>2, <2>3 DEF Agrees, ShowsNothing
  <2>. QED BY <2>2, <2>4, <2>5 DEF HeldOK, Agrees, ShowsNothing
<1>8. CASE SaveRoster(h)
  <2>1. Moves({"read", "save"})
    BY <1>0, <1>8, JobFields DEF SaveRoster, Working
  <2>2. UNCHANGED <<online, placed, hasRooms, disturbed, changes>> /\ Adds(c)' = Adds(c)
    BY <1>8 DEF SaveRoster, platform, history, Adds
  <2>3. /\ job'[h].at = "end" /\ job'[h].of = n /\ job'[h].read = job[h].read
        /\ job'[h].failed = job[h].failed /\ job'[h].roomed = job[h].roomed
    BY <1>0, <1>8, <2>1, GoesFields DEF SaveRoster
  <2>4. HeldOK(job[h])
    BY <2>1 DEF PlatformInv, HeldInv
  <2>5. \A p \in Candidates \ disturbed[n] : Agrees(job[h].read, p)
    BY <2>1, <2>4 DEF HeldOK
  <2>6. ~job[h].failed /\ job[h].read = c.after /\ job[h].roomed /\ hasRooms => Adds(c) \ disturbed[n] \subseteq placed
    <3>1. CASE job[h].at = "save"
      BY <2>4, <3>1 DEF HeldOK
    <3>2. CASE job[h].at = "read"
      BY <1>8, <3>2 DEF SaveRoster, Clean
    <3>. QED BY <2>1, <3>1, <3>2
  <2>7. \A p \in Candidates \ disturbed[n] : Agrees(read, p)'
    BY <2>2, <2>5 DEF Agrees, ShowsNothing
  <2>. QED BY <2>2, <2>3, <2>6, <2>7 DEF HeldOK, Agrees, ShowsNothing
<1>. QED BY <1>1, <1>2, <1>3, <1>4, <1>5, <1>6, <1>7, <1>8 DEF Proceed

(* An item that is carried out is as the page was shown it.                  *)
LEMMA NothingSurprises ==
    ASSUME Inv, PlatformInv, NEW h \in Handlers, Proceed(h)
    PROVE  OverwritesOnlyShown'
<1>1. CASE UNCHANGED surprised
  BY <1>1 DEF PlatformInv, OverwritesOnlyShown
<1>2. CASE ExecuteItem(h)
  <2>1. h \in Working /\ job[h].at = "items" /\ HeldOK(job[h])
    BY <1>2 DEF ExecuteItem, Working, PlatformInv, HeldInv
  <2>2. PICK p \in Candidates : p \in job[h].todo /\ (CarryOut(job[h].of, p) \/ UNCHANGED surprised)
    BY <1>2, Zenon DEF ExecuteItem, IsNext
  <2>3. AsShown(changes[job[h].of], p) \/ p \in disturbed[job[h].of]
    BY <2>1, <2>2 DEF HeldOK
  <2>. QED BY <1>1, <2>2, <2>3 DEF CarryOut, PlatformInv, OverwritesOnlyShown
<1>3. CASE ReadBaseline(h) \/ Readback(h)
  BY <1>1, <1>3 DEF ReadBaseline, Readback
<1>. QED BY <1>1, <1>2, <1>3, ActsOrQuiet DEF Acts, Quiet

(* A change set becomes applied when its request ends, after the roster has  *)
(* been read back as it was proposed and the added ones have their rooms.    *)
LEMMA ConcludesApplied ==
    ASSUME Inv, PlatformInv, NEW h \in Handlers, Conclude(h), NEW n, n = job[h].of, Keeps(n)
    PROVE  AppliedOK(n)'
<1>1. h \in Working /\ job[h].at = "end" /\ HeldOK(job[h]) /\ n \in DOMAIN changes
  BY JobFields DEF Conclude, Working, PlatformInv, HeldInv, Inv, TypeOK
<1>2. /\ \A p \in Candidates \ disturbed[n] : Agrees(job[h].read, p)
      /\ ~job[h].failed /\ job[h].read = changes[n].after /\ job[h].roomed /\ hasRooms =>
            Adds(changes[n]) \ disturbed[n] \subseteq placed
  BY <1>1 DEF HeldOK
<1>3. UNCHANGED <<online, placed, hasRooms, disturbed>> /\ changes'[n].after = changes[n].after
      /\ Adds(changes[n])' = Adds(changes[n])
  BY DEF Conclude, platform, history, Keeps, Adds
<1>4. changes'[n].status = "applied" => ~job[h].failed /\ job[h].read = changes[n].after /\ job[h].roomed
  <2>1. changes'[n].status = FinalStatus(h)
    <3>. DEFINE C == ChangeSets
    <3>1. changes \in Seq(C)
      BY DEF Inv, TypeOK, ChangesOK
    <3>2. changes[n] \in C
      BY <1>1, <3>1
    <3>3. changes'[n] = [changes[n] EXCEPT !.status = FinalStatus(h)]
      BY <1>1, <3>1 DEF Conclude
    <3>. QED BY <3>2, <3>3 DEF ChangeSets
  <2>. QED BY <2>1 DEF FinalStatus, Clean
<1>. QED BY <1>2, <1>3, <1>4 DEF AppliedOK, Agrees, ShowsNothing

(* No other step makes a change set applied; and no request works on one     *)
(* that is, but for those that were applied on another status.               *)
LEMMA AppliedBefore ==
    ASSUME Inv, NEW h \in Handlers, Proceed(h), NEW n \in DOMAIN changes', changes'[n].status = "applied",
           ~(Conclude(h) /\ n = job[h].of)
    PROVE  n \in DOMAIN changes /\ changes[n].status = "applied"
<1>1. CASE UNCHANGED changes
  BY <1>1
<1>2. ASSUME h \in Working, NEW s \in Statuses, changes' = [changes EXCEPT ![job[h].of].status = s],
             s # "applied" \/ Conclude(h)
      PROVE  n \in DOMAIN changes /\ changes[n].status = "applied"
  <2>1. job[h].of \in DOMAIN changes
    BY <1>2, JobFields DEF Working, Inv, TypeOK
  <2>2. /\ DOMAIN changes' = DOMAIN changes /\ changes'[job[h].of].status = s
        /\ \A m \in DOMAIN changes : m # job[h].of => changes'[m] = changes[m]
    BY <1>2, <2>1, Stored DEF Inv, TypeOK
  <2>. QED BY <1>2, <2>2
<1>3. CASE ApplyCheck(h) \/ ReadBaseline(h) \/ ExecuteItem(h) \/ Readback(h) \/ AssignRooms(h) \/ SaveRoster(h)
  BY <1>1, <1>3 DEF ApplyCheck, ReadBaseline, ExecuteItem, Readback, AssignRooms, SaveRoster
<1>4. CASE MarkConflict(h) \/ MarkApplying(h) \/ Conclude(h) \/ BreakOff(h)
  <2>1. h \in Working
    BY <1>4 DEF MarkConflict, MarkApplying, Conclude, BreakOff, Working
  <2>2. \/ UNCHANGED changes
        \/ \E s \in Statuses : (s # "applied" \/ Conclude(h)) /\ changes' = [changes EXCEPT ![job[h].of].status = s]
    BY <1>4 DEF MarkConflict, MarkApplying, Conclude, BreakOff, Noted, AfterBreak, FinalStatus, Statuses
  <2>. QED BY <1>1, <1>2, <2>1, <2>2
<1>. QED BY <1>3, <1>4 DEF Proceed

LEMMA ActsOnUnapplied ==
    ASSUME Inv, NEW h \in Handlers, Acts(h), job[h].of \notin overtaken
    PROVE  h \in Working /\ changes[job[h].of].status # "applied"
<1>1. h \in Working /\ job[h].at \in {"baseline", "items"}
  BY DEF Acts, ExecuteItem, ReadBaseline, Readback, Working
<1>. QED BY <1>1 DEF Inv, Flow, Open

LEMMA ProceedLands ==
    ASSUME Inv, PlatformInv, NEW h \in Handlers, Proceed(h), [Next]_vars
    PROVE  PlatformInv'
<1>0. JobsOK /\ DisturbedOK
  BY DEF Inv, TypeOK, PlatformInv
<1>1. ASSUME NEW n \in Watched, Acts(h) => n # job[h].of PROVE LeftAlone(n)
  <2>1. CASE Quiet
    BY <2>1, QuietLeavesAlone
  <2>2. CASE Acts(h)
    BY <1>0, <1>1, <2>2, OthersLeftAlone
  <2>. QED BY <2>1, <2>2, ActsOrQuiet
<1>2. HeldInv'
  <2>1. ASSUME h \in Working' PROVE HeldOK(job[h])'
    <3>1. job[h].at # "idle"
      BY DEF Proceed, ApplyCheck, ReadBaseline, MarkConflict, MarkApplying, ExecuteItem,
             Readback, AssignRooms, SaveRoster, Conclude, BreakOff
    <3>2. job[h].of \in DOMAIN changes
      BY <1>0, <3>1, JobFields
    <3>. QED BY <2>1, <3>2, KeepsAll, OwnHeld
  <2>2. ASSUME NEW g \in Working', g # h PROVE HeldOK(job[g])'
    <3>1. g \in Working /\ job'[g] = job[g] /\ HeldOK(job[g])
      BY <1>0, <2>2, OtherJobs DEF Working, PlatformInv, HeldInv
    <3>2. job[g].of \in Watched /\ job[g].of \in DOMAIN changes
      BY <1>0, <3>1, JobFields DEF JobsOK, Working, Watched
    <3>3. Acts(h) => job[g].of # job[h].of
      BY <1>0, <2>2, <3>1 DEF JobsOK, Acts, ExecuteItem, ReadBaseline, Readback, Working
    <3>. PICK j : j = job[g]
      OBVIOUS
    <3>4. HeldOK(j) /\ LeftAlone(j.of) /\ Keeps(j.of)
      BY <1>1, <3>1, <3>2, <3>3, KeepsAll
    <3>5. HeldOK(j)'
      BY <3>4, HeldStays
    <3>. QED BY <3>1, <3>5
  <2>. QED BY <2>1, <2>2 DEF HeldInv
<1>3. AppliedIsOnline'
  <2>. SUFFICES ASSUME NEW n \in DOMAIN changes', changes'[n].status = "applied", n \notin overtaken'
                PROVE  AppliedOK(n)'
    BY DEF AppliedIsOnline, AppliedOK
  <2>1. CASE Conclude(h) /\ n = job[h].of
    <3>1. n \in DOMAIN changes
      BY <1>0, <2>1, JobFields DEF Conclude
    <3>. QED BY <2>1, <3>1, KeepsAll, ConcludesApplied
  <2>2. CASE ~(Conclude(h) /\ n = job[h].of)
    <3>1. n \in DOMAIN changes /\ changes[n].status = "applied" /\ n \in Watched
      BY <2>2, AppliedBefore DEF Watched
    <3>2. overtaken \subseteq overtaken'
      BY DEF Proceed, ApplyCheck, ReadBaseline, MarkConflict, MarkApplying, ExecuteItem,
             Readback, AssignRooms, SaveRoster, Conclude, BreakOff, history
    <3>3. LeftAlone(n)
      BY <1>1, <3>1, <3>2, ActsOnUnapplied
    <3>4. AppliedOK(n)
      BY <3>1 DEF PlatformInv, AppliedIsOnline, AppliedOK
    <3>. QED BY <3>1, <3>2, <3>3, <3>4, AppliedStays, KeepsAll
  <2>. QED BY <2>1, <2>2
<1>. QED BY <1>0, <1>2, <1>3, NothingSurprises, DisturbedStep DEF PlatformInv

LEMMA PlatformInit ==
    ASSUME Init
    PROVE  PlatformInv
<1>1. Working = {} /\ DOMAIN changes = {}
  BY DEF Init, Working, Idle
<1>2. DisturbedOK
  BY DEF Init, DisturbedOK
<1>. QED BY <1>1, <1>2 DEF Init, PlatformInv, HeldInv, OverwritesOnlyShown, AppliedIsOnline

LEMMA PlatformStep ==
    ASSUME Inv, PlatformInv, [Next]_vars
    PROVE  PlatformInv'
<1>0. ChangesOK /\ JobsOK /\ job \in [Handlers -> Jobs]
  BY DEF Inv, TypeOK, JobsOK
<1>1. CASE Beside
  <2>1. UNCHANGED <<job, changes, overtaken, surprised>>
    BY <1>1 DEF Beside, SessionEnds, Begin, HandChange, history
  <2>2. Working' = Working
    BY <2>1 DEF Working
  <2>. QED BY <1>1, <2>1, <2>2, BesideLands
<1>2. ASSUME NEW h \in Handlers, NEW n \in Ids, ApplyRead(h, n) PROVE PlatformInv'
  <2>1. Quiet /\ UNCHANGED <<changes, overtaken, surprised>>
    BY <1>2 DEF ApplyRead, Quiet, platform, history
  <2>2. \A g \in Working' : g \in Working /\ job'[g] = job[g]
    BY <1>0, <1>2 DEF ApplyRead, Working
  <2>. QED BY <2>1, <2>2, BesideLands
<1>3. ASSUME NEW after \in Proposals, NEW kept \in Kept, Preview(after, kept) PROVE PlatformInv'
  <2>. DEFINE c == [status |-> "waiting_review", before |-> RosterRows(online, kept), after |-> after,
                    blocked |-> Blocked(RosterRows(online, kept), after)]
              C == ChangeSets
  <2>1. changes' = Append(changes, c) /\ changes \in Seq(C) /\ c.status # "applied"
    BY <1>0, <1>3 DEF Preview, ChangesOK
  <2>. HIDE DEF c, C
  <2>2. \A n \in DOMAIN changes' : changes'[n].status = "applied" =>
            n \in DOMAIN changes /\ changes[n].status = "applied"
    BY <2>1
  <2>3. Quiet /\ UNCHANGED <<job, overtaken, surprised>>
    BY <1>3 DEF Preview, Quiet, platform, history
  <2>4. Working' = Working
    BY <2>3 DEF Working
  <2>. QED BY <2>2, <2>3, <2>4, BesideLands
<1>4. CASE ServerRestart
  <2>1. Quiet /\ UNCHANGED <<changes, overtaken, surprised>>
    BY <1>4 DEF ServerRestart, Quiet, platform
  <2>2. Working' = {}
    BY <1>4 DEF ServerRestart, Working, Idle
  <2>. QED BY <2>1, <2>2, BesideLands
<1>5. CASE UNCHANGED vars
  <2>1. Quiet /\ UNCHANGED <<job, changes, overtaken, surprised>>
    BY <1>5 DEF vars, Quiet, platform, history
  <2>2. Working' = Working
    BY <2>1 DEF Working
  <2>. QED BY <2>1, <2>2, BesideLands
<1>. QED BY <1>1, <1>2, <1>3, <1>4, <1>5, StepCases, ProceedLands

LEMMA PlatformHolds == Spec => [](Inv /\ PlatformInv)
<1>1. Init => Inv /\ PlatformInv
  BY InvInit, PlatformInit
<1>2. (Inv /\ PlatformInv) /\ [Next]_vars => (Inv /\ PlatformInv)'
  BY InvNext, PlatformStep
<1>. QED BY <1>1, <1>2, PTL DEF Spec

(* An item overwrites only what its page was shown, as far as the platform   *)
(* shows it, and what others changed after the roster had been compared.     *)
THEOREM OverwritesOnlyShownHolds == Spec => []OverwritesOnlyShown
<1>1. PlatformInv => OverwritesOnlyShown
  BY DEF PlatformInv
<1>. QED BY <1>1, PlatformHolds, PTL

(* Of an applied change set the platform has all that was proposed, each     *)
(* added candidate in a room if there are rooms, but for what others changed *)
(* since it was read back and for what the platform masks.                   *)
THEOREM AppliedIsOnlineHolds == Spec => []AppliedIsOnline
<1>1. PlatformInv => AppliedIsOnline
  BY DEF PlatformInv
<1>. QED BY <1>1, PlatformHolds, PTL
=============================================================================
