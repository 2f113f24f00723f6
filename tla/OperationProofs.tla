-------------------------- MODULE OperationProofs --------------------------
(***************************************************************************)
(* What holds of the operations that a page has carried out on the console *)
(* through the operator's local helper.                                    *)
(*                                                                         *)
(* Of the helper, for any number of requests, handlers and updates: its    *)
(* state is well formed; it is never without a program but between two     *)
(* renames, and never goes back to an older one; an update's restart cuts  *)
(* off only what slipped past the mark; and a repeated request is executed *)
(* anew only when it had been forgotten.                                   *)
(*                                                                         *)
(* Of the creation of batches, for any pages, accounts, bounds and         *)
(* hazards, with or without prompt handlers: live preparations are one;    *)
(* and a project gets one batch, for pages with an account each and prompt *)
(* handlers.                                                               *)
(***************************************************************************)
EXTENDS LocalHelper, OperationBatchCreate, FiniteSetTheorems, SequenceTheorems, TLAPS

-----------------------------------------------------------------------------
(* The local helper.                                                         *)

(* A step of the specification, by the part of the helper that takes it.     *)
RequestActs ==
    \E h \in Handlers : (\E r \in Requests : Arrive(h, r)) \/ Reject(h) \/ Join(h) \/ Execute(h)
                        \/ Answer(h)
EntryActs == (\E r \in Requests : Expire(r)) \/ (\E n \in DOMAIN runs : End(n))

LEMMA StepCases ==
    ASSUME [HelperNext]_helperVars
    PROVE  \/ RequestActs \/ EntryActs \/ (\E u \in Updates : AskUpdate(u) \/ Proceed(u))
           \/ Exit \/ Crash \/ Start \/ UNCHANGED helperVars
BY Zenon DEF HelperNext, Operating, RequestActs, EntryActs

-----------------------------------------------------------------------------
(* Types.                                                                    *)

LEMMA InitTyped == HelperInit => HelperTypeOK
<1>. SUFFICES ASSUME HelperInit PROVE HelperTypeOK
  OBVIOUS
<1>1. runs \in Seq(Execution) /\ Len(runs) = 0
  BY EmptySeq DEF HelperInit
<1>2. 0 \in 0..MaxVersion /\ 1 \in 0..MaxVersion /\ 0 \in 0..MaxExecutions /\ 0 \in 0..MaxCrashes
  BY HelperAssumption
<1>3. /\ at = [h \in Handlers |-> "idle"] /\ asked = [h \in Handlers |-> NoRequest]
      /\ awaits = [h \in Handlers |-> 0] /\ entry = [r \in Requests |-> 0]
  BY DEF HelperInit, None
<1>4. HandlersOK
  BY <1>3 DEF HandlersOK
<1>5. \A r \in Requests : entry[r] # None => entry[r] \in DOMAIN runs
  BY <1>3 DEF None
<1>6. /\ at \in [Handlers -> {"idle", "body", "waiting"}]
      /\ asked \in [Handlers -> Requests \cup {NoRequest}]
      /\ awaits \in [Handlers -> 0..MaxExecutions] /\ entry \in [Requests -> 0..MaxExecutions]
  BY <1>2, <1>3
<1>7. /\ step \in [Updates -> PastChecks \cup {"idle", "over"}]
      /\ target \in [Updates -> 0..MaxVersion] /\ backup \in [Updates -> 0..MaxVersion]
  BY <1>2 DEF HelperInit, None
<1>8. /\ updating \in BOOLEAN /\ listening \in BOOLEAN
      /\ overlapped \in BOOLEAN /\ halfway \in BOOLEAN /\ unheard \in BOOLEAN
      /\ expired \subseteq Requests /\ forgotten \subseteq Requests /\ outlived \subseteq Requests
      /\ slipped \subseteq Handlers
      /\ proc \in {"up", "closing", "down"} /\ proc # "closing"
  BY Zenon DEF HelperInit
<1>9. version \in Versions /\ crashes \in 0..MaxCrashes /\ installed \in 0..MaxVersion
  BY <1>2, HelperAssumption DEF HelperInit, Versions
<1>10. Len(runs) <= MaxExecutions
  BY <1>1, HelperAssumption
<1>. QED BY <1>1, <1>4, <1>5, <1>6, <1>7, <1>8, <1>9, <1>10, Zenon DEF HelperTypeOK

LEMMA InHand ==
    ASSUME HelperTypeOK, NEW h \in Handlers
    PROVE  at[h] = "body" => asked[h] \in Requests
BY DEF HelperTypeOK, HandlersOK

(* The executions remain a sequence of executions as one is added or ends.   *)
LEMMA Appended ==
    ASSUME runs \in Seq(Execution), NEW e \in Execution
    PROVE  /\ Append(runs, e) \in Seq(Execution) /\ Len(Append(runs, e)) = Len(runs) + 1
           /\ DOMAIN Append(runs, e) = 1..Len(runs) + 1 /\ DOMAIN runs = 1..Len(runs)
           /\ Len(runs) \in Nat
           /\ Append(runs, e)[Len(runs) + 1] = e
           /\ \A n \in DOMAIN runs : Append(runs, e)[n] = runs[n]
<1>. DEFINE T == Execution
<1>1. runs \in Seq(T) /\ e \in T
  OBVIOUS
<1>. HIDE DEF T
<1>2. /\ Append(runs, e) \in Seq(T) /\ Len(Append(runs, e)) = Len(runs) + 1
      /\ DOMAIN Append(runs, e) = 1..Len(runs) + 1 /\ DOMAIN runs = 1..Len(runs)
      /\ Len(runs) \in Nat
      /\ Append(runs, e)[Len(runs) + 1] = e
      /\ \A n \in DOMAIN runs : Append(runs, e)[n] = runs[n]
  BY <1>1
<1>. QED BY <1>2 DEF T

LEMMA Elements ==
    ASSUME HelperTypeOK
    PROVE  /\ \A m \in DOMAIN runs : runs[m] \in Execution
           /\ DOMAIN runs = 1..Len(runs) /\ Len(runs) \in Nat
<1>1. runs \in Seq(Execution)
  BY DEF HelperTypeOK
<1>2. DOMAIN runs = 1..Len(runs) /\ Len(runs) \in Nat
  BY <1>1, LenProperties
<1>. HIDE DEF Execution
<1>. QED BY <1>1, <1>2, ElementOfSeq, Zenon

LEMMA Remade ==
    ASSUME runs \in Seq(Execution), NEW f, DOMAIN f = DOMAIN runs,
           \A n \in DOMAIN runs : f[n] \in Execution, f = [n \in DOMAIN runs |-> f[n]]
    PROVE  f \in Seq(Execution) /\ Len(f) = Len(runs)
<1>1. DOMAIN runs = 1..Len(runs) /\ Len(runs) \in Nat
  BY LenProperties
<1>2. f \in [1..Len(runs) -> Execution]
  BY <1>1, Zenon
<1>3. f \in Seq(Execution)
  BY <1>1, <1>2, SeqDef, Zenon
<1>4. Len(f) = Len(runs)
  BY <1>1, <1>3, LenProperties
<1>. QED BY <1>3, <1>4

LEMMA OverTyped ==
    ASSUME HelperTypeOK, NEW u \in Updates, IsOver(u)
    PROVE  /\ step' \in [Updates -> PastChecks \cup {"idle", "over"}]
           /\ target' \in [Updates -> 0..MaxVersion] /\ backup' \in [Updates -> 0..MaxVersion]
<1>1. 0 \in 0..MaxVersion
  BY HelperAssumption
<1>. QED BY <1>1, Zenon DEF HelperTypeOK, IsOver, Steps, None

LEMMA RequestActsTyped ==
    ASSUME HelperTypeOK, RequestActs
    PROVE  HelperTypeOK'
<1>. USE HelperAssumption DEF HelperTypeOK, RequestStep, marks, updates, history, Goes, Execution, None
<1>1. ASSUME NEW h \in Handlers, NEW r \in Requests, Arrive(h, r) PROVE HelperTypeOK'
  BY <1>1 DEF Arrive, HandlersOK
<1>2. ASSUME NEW h \in Handlers, Reject(h) PROVE HelperTypeOK'
  BY <1>2 DEF Reject, Leaves, HandlersOK
<1>3. ASSUME NEW h \in Handlers, Join(h) PROVE HelperTypeOK'
  <2>1. entry' \in [Requests -> 0..MaxExecutions] /\ \A r \in Requests : entry'[r] \in {0, entry[r]}
    BY <1>3 DEF Join, Purged
  <2>2. /\ asked[h] \in Requests /\ entry[asked[h]] \in 0..MaxExecutions
        /\ entry[asked[h]] \in DOMAIN runs
    <3>1. asked[h] \in Requests /\ entry[asked[h]] # None
      <4>1. at[h] = "body" /\ entry[asked[h]] # None
        BY <1>3, Zenon DEF Join, Remembered
      <4>. QED BY <4>1, InHand, Zenon
    <3>. QED BY <3>1, Zenon
  <2>3. /\ at' \in [Handlers -> {"idle", "body", "waiting"}]
        /\ awaits' \in [Handlers -> 0..MaxExecutions]
    BY <1>3, <2>2 DEF Join
  <2>4. HandlersOK'
    <3>1. /\ at' = [at EXCEPT ![h] = "waiting"]
          /\ awaits' = [awaits EXCEPT ![h] = entry[asked[h]]]
      BY <1>3 DEF Join
    <3>2. ASSUME NEW g \in Handlers, g # h PROVE at'[g] = at[g] /\ awaits'[g] = awaits[g]
      BY <3>1, <3>2
    <3>3. at'[h] = "waiting" /\ awaits'[h] = entry[asked[h]]
      BY <3>1
    <3>4. HandlersOK /\ UNCHANGED <<asked, runs>>
      BY <1>3 DEF Join
    <3>. HIDE DEF HelperTypeOK, Execution
    <3>. QED BY <2>2, <3>2, <3>3, <3>4 DEF HandlersOK
  <2>5. \A r \in Requests : entry'[r] # 0 => entry'[r] \in DOMAIN runs
    BY <2>1
  <2>6. UNCHANGED <<proc, version, crashes, marks, updates, installed, asked, runs, history>>
        /\ expired' = {}
    BY <1>3 DEF Join
  <2>. HIDE DEF Execution
  <2>. QED BY <2>1, <2>3, <2>4, <2>5, <2>6
<1>4. ASSUME NEW h \in Handlers, Execute(h) PROVE HelperTypeOK'
  <2>. DEFINE e == [of |-> asked[h], at |-> "running"]
  <2>1. asked[h] \in Requests
    <3>1. at[h] = "body"
      BY <1>4, Zenon DEF Execute
    <3>. QED BY <3>1, InHand, Zenon
  <2>2. e \in Execution
    BY <2>1
  <2>3. /\ runs' \in Seq(Execution) /\ Len(runs') = Len(runs) + 1 /\ Len(runs') <= MaxExecutions
        /\ DOMAIN runs' = 1..Len(runs) + 1 /\ DOMAIN runs = 1..Len(runs) /\ Len(runs) \in Nat
    <3>. HIDE DEF e, Execution
    <3>1. runs' = Append(runs, e) /\ Len(runs) < MaxExecutions
      BY <1>4 DEF Execute, e
    <3>. QED BY <2>2, <3>1, Appended
  <2>4. /\ entry' \in [Requests -> 0..MaxExecutions]
        /\ \A r \in Requests : entry'[r] \in {0, entry[r], Len(runs) + 1}
    BY <1>4, <2>3 DEF Execute, Purged
  <2>5. /\ at' \in [Handlers -> {"idle", "body", "waiting"}]
        /\ awaits' \in [Handlers -> 0..MaxExecutions]
        /\ HandlersOK'
    <3>1. /\ at' = [at EXCEPT ![h] = "waiting"]
          /\ awaits' = [awaits EXCEPT ![h] = Len(runs) + 1]
      BY <1>4 DEF Execute
    <3>2. ASSUME NEW g \in Handlers, g # h PROVE at'[g] = at[g] /\ awaits'[g] = awaits[g]
      BY <3>1, <3>2
    <3>3. at'[h] = "waiting" /\ awaits'[h] = Len(runs) + 1 /\ Len(runs) + 1 \in 1..Len(runs) + 1
      BY <2>3, <3>1
    <3>4. \A n \in DOMAIN runs : n \in 1..Len(runs) + 1
      BY <2>3
    <3>5. /\ at' \in [Handlers -> {"idle", "body", "waiting"}]
          /\ awaits' \in [Handlers -> 0..MaxExecutions]
      BY <2>3, <3>1
    <3>6. HandlersOK /\ UNCHANGED asked
      BY <1>4 DEF Execute
    <3>. HIDE DEF HelperTypeOK, Execution
    <3>7. ASSUME NEW g \in Handlers
          PROVE  /\ at'[g] # "idle" => asked[g] \in Requests
                 /\ at'[g] = "waiting" => awaits'[g] \in DOMAIN runs'
      BY <2>1, <2>3, <3>2, <3>3, <3>4, <3>6 DEF HandlersOK
    <3>. QED BY <3>5, <3>6, <3>7 DEF HandlersOK
  <2>6. \A r \in Requests : entry'[r] # 0 => entry'[r] \in 1..Len(runs) + 1
    <3>1. \A r \in Requests : entry[r] # 0 => entry[r] \in 1..Len(runs)
      BY <2>3
    <3>. HIDE DEF HelperTypeOK
    <3>. QED BY <2>3, <2>4, <3>1
  <2>. QED
    <3>. HIDE DEF Execution
    <3>. QED BY <1>4, <2>3, <2>4, <2>5, <2>6 DEF Execute
<1>5. ASSUME NEW h \in Handlers, Answer(h) PROVE HelperTypeOK'
  BY <1>5 DEF Answer, Leaves, HandlersOK
<1>. QED BY <1>1, <1>2, <1>3, <1>4, <1>5, Zenon DEF RequestActs

LEMMA EntryActsTyped ==
    ASSUME HelperTypeOK, EntryActs
    PROVE  HelperTypeOK'
<1>. USE HelperAssumption DEF HelperTypeOK, RequestStep, marks, updates, history, requests, Execution, None
<1>1. ASSUME NEW r \in Requests, Expire(r) PROVE HelperTypeOK'
  BY <1>1 DEF Expire, Remembered, HandlersOK
<1>2. ASSUME NEW n \in DOMAIN runs, End(n) PROVE HelperTypeOK'
  <2>1. runs' = [runs EXCEPT ![n].at = "ended"] /\ DOMAIN runs' = DOMAIN runs
    BY <1>2 DEF End
  <2>2. \A m \in DOMAIN runs : runs[m] \in Execution
    BY Elements, Zenon
  <2>3. \A m \in DOMAIN runs : runs'[m] \in Execution
    BY <2>1, <2>2
  <2>4. runs' \in Seq(Execution) /\ Len(runs') = Len(runs)
    BY <2>1, <2>3, Remade, Zenon
  <2>. QED
    <3>. HIDE DEF Execution
    <3>. QED BY <1>2, <2>1, <2>4 DEF End, HandlersOK
<1>. QED BY <1>1, <1>2, Zenon DEF EntryActs

LEMMA UpdateTyped ==
    ASSUME HelperTypeOK, NEW u \in Updates, AskUpdate(u) \/ Proceed(u)
    PROVE  HelperTypeOK'
<1>. USE HelperAssumption DEF HelperTypeOK, HandlersOK, UpdateStep, requests, marks, updates, history, Steps, IsOver,
         PastChecks, None, Versions, AfterFailedUpdate
<1>1. CASE AskUpdate(u) BY <1>1 DEF AskUpdate
<1>2. CASE BeginUpdate(u)
  <2>. HIDE DEF IsOver
  <2>1. /\ step' \in [Updates -> PastChecks \cup {"idle", "over"}]
        /\ target' \in [Updates -> 0..MaxVersion] /\ backup' \in [Updates -> 0..MaxVersion]
    <3>1. CASE IsOver(u)
      BY <3>1, OverTyped, Zenon
    <3>2. CASE Steps(u, "working") /\ UNCHANGED backup
               /\ \E v \in Versions : target' = [target EXCEPT ![u] = v]
      BY <3>2
    <3>. QED BY <1>2, <3>1, <3>2, Zenon DEF BeginUpdate
  <2>2. updating' \in BOOLEAN /\ UNCHANGED <<listening, installed, history, proc, version, crashes,
                                             requests, runs>>
    BY <1>2, Zenon DEF BeginUpdate
  <2>. HIDE DEF Execution, PastChecks
  <2>. QED BY <2>1, <2>2
<1>3. CASE Stage(u) BY <1>3 DEF Stage
<1>4. CASE MoveOldAside(u) BY <1>4 DEF MoveOldAside
<1>5. CASE PlaceNew(u) BY <1>5 DEF PlaceNew
<1>6. CASE RecordUpdate(u) BY <1>6 DEF RecordUpdate
<1>7. CASE FailUpdate(u)
  <2>. HIDE DEF IsOver
  <2>. QED BY <1>7, OverTyped DEF FailUpdate
<1>8. CASE RemoveNew(u) BY <1>8 DEF RemoveNew
<1>9. CASE RestoreOld(u)
  <2>. HIDE DEF IsOver
  <2>. QED BY <1>9, OverTyped DEF RestoreOld, Restored
<1>10. CASE AnswerUpdate(u)
  <2>. HIDE DEF IsOver
  <2>1. /\ step' \in [Updates -> PastChecks \cup {"idle", "over"}]
        /\ target' \in [Updates -> 0..MaxVersion] /\ backup' \in [Updates -> 0..MaxVersion]
    BY <1>10, OverTyped, Zenon DEF AnswerUpdate
  <2>2. /\ proc' \in {proc, "closing"} /\ (proc' # proc => listening' = FALSE)
        /\ (proc' = proc => listening' \in {listening, FALSE}) /\ listening' \in BOOLEAN
        /\ updating' \in BOOLEAN /\ unheard' \in BOOLEAN
    BY <1>10, Zenon DEF AnswerUpdate
  <2>3. UNCHANGED <<version, crashes, requests, runs, installed, slipped, forgotten, outlived,
                    overlapped, halfway>>
    BY <1>10 DEF AnswerUpdate
  <2>4. proc' \in {"up", "closing", "down"} /\ (proc' = "closing" => ~listening')
    <3>1. /\ proc \in {"up", "closing", "down"} /\ (proc = "closing" => ~listening)
          /\ listening \in BOOLEAN
      BY Zenon
    <3>. HIDE DEF HelperTypeOK
    <3>2. CASE proc' = proc
      <4>1. listening' = listening \/ listening' = FALSE
        BY <2>2, <3>2, Zenon
      <4>2. proc' \in {"up", "closing", "down"}
        BY <3>1, <3>2, Zenon
      <4>3. ASSUME proc' = "closing" PROVE ~listening'
        BY <3>1, <3>2, <4>1, <4>3
      <4>. QED BY <4>2, <4>3, Zenon
    <3>3. CASE proc' = "closing" /\ proc' # proc
      BY <2>2, <3>1, <3>3, Zenon
    <3>. QED BY <2>2, <3>2, <3>3, Zenon
  <2>. HIDE DEF Execution, PastChecks
  <2>. QED BY <2>1, <2>2, <2>3, <2>4
<1>. QED BY <1>1, <1>2, <1>3, <1>4, <1>5, <1>6, <1>7, <1>8, <1>9, <1>10, Zenon DEF Proceed

LEMMA DeathTyped ==
    ASSUME HelperTypeOK, Die, crashes' \in 0..MaxCrashes
    PROVE  HelperTypeOK'
<1>. USE HelperAssumption DEF HelperTypeOK, Die, Execution, PastChecks, None
<1>1. runs' \in Seq(Execution) /\ Len(runs') <= MaxExecutions /\ DOMAIN runs' = DOMAIN runs
  <2>1. runs' = [n \in DOMAIN runs |-> CutOff(runs[n])] /\ DOMAIN runs' = DOMAIN runs
    OBVIOUS
  <2>2. \A m \in DOMAIN runs : runs[m] \in Execution
    BY Elements, Zenon
  <2>3. \A m \in DOMAIN runs : runs'[m] \in Execution
    BY <2>1, <2>2 DEF CutOff
  <2>4. runs' \in Seq(Execution) /\ Len(runs') = Len(runs)
    BY <2>1, <2>3, Remade, Zenon
  <2>. QED BY <2>1, <2>4
<1>2. /\ at' \in [Handlers -> {"idle", "body", "waiting"}]
      /\ asked' \in [Handlers -> Requests \cup {NoRequest}]
      /\ awaits' \in [Handlers -> 0..MaxExecutions]
      /\ \A h \in Handlers : at'[h] = "idle"
      /\ entry' \in [Requests -> 0..MaxExecutions] /\ \A r \in Requests : entry'[r] = None
  OBVIOUS
<1>3. /\ step' \in [Updates -> PastChecks \cup {"idle", "over"}]
      /\ target' \in [Updates -> 0..MaxVersion] /\ backup' \in [Updates -> 0..MaxVersion]
  OBVIOUS
<1>4. HandlersOK'
  BY <1>2 DEF HandlersOK
<1>. QED BY <1>1, <1>2, <1>3, <1>4

(* The variables of the model keep their types: every handler that waits     *)
(* waits for an execution there is, every entry remembers one, and a helper  *)
(* that is closing has used its listener.                                    *)
THEOREM HelperTypesHold == HelperSpec => []HelperTypeOK
<1>1. ASSUME HelperTypeOK, [HelperNext]_helperVars PROVE HelperTypeOK'
  <2>1. CASE Exit
    BY <1>1, <2>1, DeathTyped DEF Exit, HelperTypeOK
  <2>2. CASE Crash
    BY <1>1, <2>2, DeathTyped, HelperAssumption DEF Crash, HelperTypeOK
  <2>3. CASE Start
    BY <1>1, <2>3, HelperAssumption DEF Start, HelperTypeOK, HandlersOK, requests, marks, updates, history, Versions, None
  <2>4. CASE UNCHANGED helperVars
    BY <1>1, <2>4 DEF HelperTypeOK, HandlersOK, helperVars, requests, marks, updates, history
  <2>. QED
    BY <1>1, <2>1, <2>2, <2>3, <2>4, StepCases, RequestActsTyped, EntryActsTyped, UpdateTyped, Zenon
<1>. QED BY <1>1, InitTyped, PTL DEF HelperSpec
-----------------------------------------------------------------------------
(* The programs on the disk.                                                 *)

(* While an update is under way it brings a version newer than the one that  *)
(* runs, and has kept one that is not older; and no update is under way in a *)
(* helper that is down.                                                      *)
ProgramInv ==
    /\ version \in Nat \ {0}
    /\ installed # None => installed \in Nat /\ installed >= version
    /\ \A u \in Updates :
        /\ step[u] \in PastChecks \ {"body"} => target[u] \in Nat /\ target[u] > version
        /\ step[u] \in {"moved", "placed", "rolling", "applied"} =>
              backup[u] \in Nat /\ backup[u] >= version
        /\ proc = "down" => step[u] \notin PastChecks
    /\ NeverLeftWithout

LEMMA ProgramsOfUpdate ==
    ASSUME HelperTypeOK, ProgramInv, NEW u \in Updates, AskUpdate(u) \/ Proceed(u)
    PROVE  ProgramInv' /\ version' = version
<1>. USE DEF ProgramInv, NeverLeftWithout, Steps, PastChecks, None, Running, history
<1>. DEFINE places == {"idle", "over", "body", "working", "staged", "moved", "placed", "rolling",
                       "applied"}
<1>1. /\ step \in [Updates -> places] /\ target \in [Updates -> 0..MaxVersion]
      /\ backup \in [Updates -> 0..MaxVersion] /\ MaxVersion \in Nat /\ Versions \subseteq Nat
      /\ proc \in {"up", "closing", "down"}
  BY HelperAssumption DEF HelperTypeOK, Versions
<1>2. UNCHANGED version
  BY Zenon DEF AskUpdate, Proceed, UpdateStep, BeginUpdate, Stage, MoveOldAside, PlaceNew,
               RecordUpdate, FailUpdate, RemoveNew, RestoreOld, AnswerUpdate
<1>3. CASE AskUpdate(u)
  BY <1>1, <1>2, <1>3 DEF AskUpdate, UpdateStep
<1>4. CASE BeginUpdate(u)
  <2>1. CASE IsOver(u) /\ UNCHANGED <<proc, installed, halfway>>
    BY <1>1, <1>2, <1>4, <2>1 DEF BeginUpdate, IsOver
  <2>2. CASE /\ Steps(u, "working") /\ UNCHANGED <<backup, proc, installed, halfway>>
             /\ \E v \in Versions : v > version /\ target' = [target EXCEPT ![u] = v]
    BY <1>1, <1>2, <1>4, <2>2 DEF BeginUpdate
  <2>. QED BY <1>4, <2>1, <2>2, Zenon DEF BeginUpdate, Newer, UpdateStep
<1>5. CASE Stage(u)
  BY <1>1, <1>2, <1>5 DEF Stage, UpdateStep
<1>6. CASE MoveOldAside(u)
  BY <1>1, <1>2, <1>6 DEF MoveOldAside, UpdateStep
<1>7. CASE PlaceNew(u)
  BY <1>1, <1>2, <1>7 DEF PlaceNew, UpdateStep
<1>8. CASE RecordUpdate(u)
  BY <1>1, <1>2, <1>8 DEF RecordUpdate, UpdateStep
<1>9. CASE FailUpdate(u)
  BY <1>1, <1>2, <1>9 DEF FailUpdate, IsOver, UpdateStep
<1>10. CASE RemoveNew(u)
  BY <1>1, <1>2, <1>10 DEF RemoveNew, UpdateStep
<1>11. CASE RestoreOld(u)
  BY <1>1, <1>2, <1>11 DEF RestoreOld, Restored, IsOver, UpdateStep
<1>12. CASE AnswerUpdate(u)
  BY <1>1, <1>2, <1>12 DEF AnswerUpdate, IsOver
<1>. QED BY <1>2, <1>3, <1>4, <1>5, <1>6, <1>7, <1>8, <1>9, <1>10, <1>11, <1>12, Zenon DEF Proceed

LEMMA ProgramsKept ==
    ASSUME HelperTypeOK, ProgramInv, [HelperNext]_helperVars
    PROVE  ProgramInv' /\ version' >= version
<1>. USE DEF ProgramInv, NeverLeftWithout, PastChecks, None
<1>1. version \in Nat
  OBVIOUS
<1>2. ASSUME UNCHANGED <<proc, version, updates, installed, halfway>>
      PROVE  ProgramInv' /\ version' >= version
  BY <1>1, <1>2 DEF updates
<1>3. ASSUME Die PROVE ProgramInv' /\ version' >= version
  <2>1. UNCHANGED <<version, installed>>
        /\ halfway' = (halfway \/ \E u \in Updates : step[u] \in {"moved", "rolling"})
    BY <1>3 DEF Die
  <2>2. \A u \in Updates : step'[u] \notin PastChecks
    BY <1>3 DEF Die, Passed
  <2>3. installed' = 0 => halfway'
    BY <2>1, Zenon
  <2>. QED BY <1>1, <2>1, <2>2, <2>3
<1>4. CASE RequestActs
  <2>. UNCHANGED <<proc, version, updates, installed, halfway>>
    BY <1>4, Zenon DEF RequestActs, Arrive, Reject, Join, Execute, Answer, RequestStep, history
  <2>. QED BY <1>2
<1>5. CASE EntryActs
  <2>. UNCHANGED <<proc, version, updates, installed, halfway>>
    BY <1>5, Zenon DEF EntryActs, Expire, End, RequestStep, history
  <2>. QED BY <1>2
<1>6. CASE \E u \in Updates : AskUpdate(u) \/ Proceed(u)
  <2>. PICK u \in Updates : AskUpdate(u) \/ Proceed(u)
    BY <1>6, Zenon
  <2>1. ProgramInv' /\ version' = version
    BY ProgramsOfUpdate, Zenon
  <2>. QED BY <1>1, <2>1
<1>7. CASE Exit
  BY <1>3, <1>7 DEF Exit
<1>8. CASE Crash
  BY <1>3, <1>8 DEF Crash
<1>9. CASE Start
  BY <1>9 DEF Start, updates, history
<1>10. CASE UNCHANGED helperVars
  BY <1>2, <1>10 DEF helperVars, history
<1>. QED BY StepCases, <1>4, <1>5, <1>6, <1>7, <1>8, <1>9, <1>10, Zenon

(* A computer is without a helper program only while an update is between    *)
(* its two renames, or when the process died there.                          *)
THEOREM NeverLeftWithoutHolds == HelperSpec => []NeverLeftWithout
<1>1. HelperInit => ProgramInv
  BY DEF HelperInit, ProgramInv, NeverLeftWithout, None, PastChecks
<1>2. ProgramInv => NeverLeftWithout
  BY DEF ProgramInv
<1>. QED BY <1>1, <1>2, ProgramsKept, HelperTypesHold, PTL DEF HelperSpec

(* Updates never take the helper back to an older version, whichever fail,   *)
(* overlap or are cut short.                                                 *)
THEOREM NoDowngradeHolds == HelperSpec => NoDowngrade
<1>1. HelperInit => ProgramInv
  BY DEF HelperInit, ProgramInv, NeverLeftWithout, None, PastChecks
<1>2. HelperTypeOK /\ ProgramInv /\ [HelperNext]_helperVars => ProgramInv' /\ [version' >= version]_helperVars
  BY ProgramsKept
<1>. QED BY <1>1, <1>2, HelperTypesHold, PTL DEF HelperSpec, NoDowngrade
-----------------------------------------------------------------------------
(* The mark of an update.                                                    *)

(* Unless two updates overlapped, at most one is past its checks, it has set *)
(* the mark unless it awaits its body, a closing helper has no other under   *)
(* way, and whatever is in hand meanwhile came before the mark was set.      *)
MarkInv ==
    ~overlapped =>
        /\ \A u, v \in Passed : u = v
        /\ \A u \in Passed : step[u] # "body" => updating
        /\ proc = "closing" => updating /\ Passed = {}
        /\ proc = "closing" \/ Passed # {} => \A h \in Handlers : at[h] # "idle" => h \in slipped

LEMMA NothingInHand ==
    ASSUME activeOperationRequests = 0, NEW h \in Handlers
    PROVE  at[h] = "idle"
<1>. DEFINE InHands == {g \in Handlers : at[g] # "idle"}
<1>1. IsFiniteSet(InHands) /\ Cardinality(InHands) = 0
  BY FS_Subset, HelperAssumption DEF activeOperationRequests
<1>2. InHands = {}
  BY <1>1, FS_EmptySet
<1>. QED BY <1>2

LEMMA MarkOfRequests ==
    ASSUME HelperTypeOK, MarkInv, RequestActs \/ EntryActs
    PROVE  MarkInv'
<1>1. at \in [Handlers -> {"idle", "body", "waiting"}]
  BY DEF HelperTypeOK
<1>2. UNCHANGED <<proc, updating, step, overlapped>> /\ UNCHANGED Passed
  BY Zenon DEF RequestActs, EntryActs, Arrive, Reject, Join, Execute, Answer, Expire, End, Passed,
               RequestStep, marks, updates, history
<1>3. SUFFICES ASSUME ~overlapped, proc = "closing" \/ Passed # {}, NEW g \in Handlers,
                      at'[g] # "idle"
               PROVE  g \in slipped'
  BY <1>2, Zenon DEF MarkInv
<1>4. \A u \in Passed : step[u] # "body" => updating
  BY <1>3, Zenon DEF MarkInv
<1>5. at[g] # "idle" => g \in slipped
  BY <1>3, Zenon DEF MarkInv
<1>6. ASSUME NEW h \in Handlers, NEW r \in Requests, Arrive(h, r) PROVE g \in slipped'
  <2>1. ~updating /\ at' = [at EXCEPT ![h] = "body"]
    BY <1>6 DEF Arrive, Admitted, Goes
  <2>2. PICK u \in Passed : step[u] = "body"
    BY <1>3, <1>4, <2>1, Zenon DEF MarkInv
  <2>3. slipped' = slipped \cup {h}
    BY <1>6, <2>2, Zenon DEF Arrive, Passed
  <2>. QED BY <1>1, <1>3, <1>5, <2>1, <2>3
<1>7. ASSUME NEW h \in Handlers, Leaves(h) PROVE g \in slipped'
  BY <1>1, <1>3, <1>5, <1>7 DEF Leaves, Goes
<1>8. ASSUME NEW h \in Handlers, Join(h) \/ Execute(h) PROVE g \in slipped'
  BY <1>1, <1>3, <1>5, <1>8 DEF Join, Execute, Goes, history
<1>9. ASSUME EntryActs PROVE g \in slipped'
  <2>. UNCHANGED <<at, slipped>>
    BY <1>9, Zenon DEF EntryActs, Expire, End, requests, history
  <2>. QED BY <1>3, <1>5
<1>. QED BY <1>6, <1>7, <1>8, <1>9, Zenon DEF RequestActs, Reject, Answer

LEMMA MarkOfUpdate ==
    ASSUME HelperTypeOK, MarkInv, NEW u \in Updates, AskUpdate(u) \/ Proceed(u)
    PROVE  MarkInv'
<1>. DEFINE places == PastChecks \cup {"idle", "over"}
<1>1. step \in [Updates -> places] /\ proc \in {"up", "closing", "down"}
  BY DEF HelperTypeOK
<1>2. UNCHANGED <<at, slipped>>
  BY Zenon DEF AskUpdate, Proceed, UpdateStep, BeginUpdate, Stage, MoveOldAside, PlaceNew, requests,
               RecordUpdate, FailUpdate, RemoveNew, RestoreOld, AnswerUpdate, history
<1>3. SUFFICES ASSUME ~overlapped' PROVE MarkInv'
  BY Zenon DEF MarkInv
<1>4. CASE AskUpdate(u)
  <2>1. /\ ~overlapped /\ Passed = {} /\ ~updating /\ step' = [step EXCEPT ![u] = "body"]
        /\ UNCHANGED <<proc, updating>>
    BY <1>3, <1>4 DEF AskUpdate, NotBusy, Steps, UpdateStep, marks
  <2>2. Passed' = {u}
    BY <1>1, <2>1 DEF Passed, PastChecks
  <2>3. proc # "closing"
    BY <2>1, Zenon DEF MarkInv
  <2>4. \A h \in Handlers : at'[h] = "idle"
    BY <1>2, <1>4, NothingInHand, Zenon DEF AskUpdate, NotBusy
  <2>. QED BY <1>1, <2>1, <2>2, <2>3, <2>4 DEF MarkInv
<1>5. CASE Proceed(u)
  <2>1. ~overlapped /\ u \in Passed
    <3>1. UNCHANGED overlapped
      BY <1>5, Zenon
         DEF Proceed, BeginUpdate, Stage, MoveOldAside, PlaceNew, RecordUpdate, FailUpdate,
             RemoveNew, RestoreOld, AnswerUpdate, history
    <3>2. step[u] \in PastChecks
      BY <1>5
         DEF Proceed, BeginUpdate, Stage, MoveOldAside, PlaceNew, RecordUpdate, FailUpdate,
             RemoveNew, RestoreOld, AnswerUpdate, PastChecks
    <3>. QED BY <1>3, <3>1, <3>2, Zenon DEF Passed
  <2>2. /\ Passed = {u} /\ proc # "closing" /\ (step[u] # "body" => updating)
        /\ \A h \in Handlers : at[h] # "idle" => h \in slipped
    BY <2>1, Zenon DEF MarkInv
  <2>3. ASSUME NEW place, step' = [step EXCEPT ![u] = place]
        PROVE  /\ Passed' \subseteq {u} /\ step'[u] = place
               /\ place \notin PastChecks => Passed' = {}
    BY <1>1, <2>2, <2>3 DEF Passed
  <2>4. CASE UNCHANGED proc /\ (updating' \/ Passed' = {}) /\ Passed' \subseteq {u}
    BY <1>2, <2>2, <2>4 DEF MarkInv
  <2>5. CASE proc' = "closing" /\ updating' /\ Passed' = {}
    BY <1>2, <2>2, <2>5 DEF MarkInv
  <2>6. ASSUME IsOver(u) PROVE Passed' = {}
    BY <2>3, <2>6, "over" \notin PastChecks DEF IsOver, Steps, PastChecks
  <2>7. CASE BeginUpdate(u)
    BY <2>3, <2>4, <2>6, <2>7 DEF BeginUpdate, Steps, UpdateStep
  <2>8. CASE Stage(u) \/ MoveOldAside(u) \/ PlaceNew(u) \/ RecordUpdate(u) \/ RemoveNew(u)
    <3>1. step[u] # "body" /\ UNCHANGED <<proc, updating>>
      BY <2>8 DEF Stage, MoveOldAside, PlaceNew, RecordUpdate, RemoveNew, UpdateStep, marks
    <3>2. \E place : step' = [step EXCEPT ![u] = place]
      BY <2>8, Zenon DEF Stage, MoveOldAside, PlaceNew, RecordUpdate, RemoveNew, Steps
    <3>. QED BY <2>2, <2>3, <2>4, <3>1, <3>2, Zenon
  <2>9. CASE FailUpdate(u) \/ RestoreOld(u)
    BY <2>4, <2>6, <2>9, Zenon DEF FailUpdate, RestoreOld, UpdateStep
  <2>10. CASE AnswerUpdate(u)
    <3>1. updating
      BY <2>2, <2>10 DEF AnswerUpdate
    <3>. QED BY <2>4, <2>5, <2>6, <2>10, <3>1, Zenon DEF AnswerUpdate
  <2>. QED BY <1>5, <2>7, <2>8, <2>9, <2>10, Zenon DEF Proceed
<1>. QED BY <1>4, <1>5

(* The restart that an update calls for cuts off nothing but what had come   *)
(* in between the update's checks and its mark, if updates did not overlap.  *)
THEOREM NotCutOffHolds == HelperSpec => []NotCutOff
<1>1. HelperInit => MarkInv
  BY DEF HelperInit, MarkInv, Passed, PastChecks
<1>2. ASSUME HelperTypeOK, MarkInv, [HelperNext]_helperVars PROVE MarkInv'
  <2>1. CASE Exit \/ Crash
    <3>1. proc' = "down" /\ Passed' = {}
      BY <2>1 DEF Exit, Crash, Die, Passed, PastChecks
    <3>. QED BY <3>1 DEF MarkInv
  <2>2. CASE Start
    <3>1. UNCHANGED <<overlapped, Passed, updating, step, at, slipped>> /\ proc' = "up"
      BY <2>2 DEF Start, Passed, updates, marks, history, requests
    <3>. QED BY <1>2, <3>1 DEF MarkInv
  <2>3. CASE UNCHANGED helperVars
    <3>1. UNCHANGED <<overlapped, Passed, updating, step, at, slipped, proc>>
      BY <2>3 DEF helperVars, Passed, updates, marks, history, requests
    <3>. QED BY <1>2, <3>1 DEF MarkInv
  <2>. QED BY <1>2, <2>1, <2>2, <2>3, StepCases, MarkOfRequests, MarkOfUpdate, Zenon
<1>3. MarkInv => NotCutOff
  BY Zenon DEF MarkInv, NotCutOff
<1>. QED BY <1>1, <1>2, <1>3, HelperTypesHold, PTL DEF HelperSpec
-----------------------------------------------------------------------------
(* What is remembered of requests.                                           *)

(* An execution whose request has not been forgotten is the one its entry    *)
(* remembers; so is one that runs, unless its entry expired meanwhile.       *)
Kept(n) == entry[runs[n].of] = n /\ runs[n].of \notin expired
EntryInv ==
    /\ \A n \in DOMAIN runs :
        /\ runs[n].of \notin forgotten => Kept(n)
        /\ runs[n].at = "running" /\ runs[n].of \notin outlived => Kept(n)
    /\ \A r \in Requests : entry[r] # 0 => runs[entry[r]].of = r
    /\ OncePerRequest

LEMMA ExecuteKeeps ==
    ASSUME HelperTypeOK, EntryInv, NEW h \in Handlers, Execute(h)
    PROVE  EntryInv'
<1>0. PICK new : new = Len(runs) + 1
  OBVIOUS
<1>. DEFINE r == asked[h]  e == [of |-> r, at |-> "running"]
<1>1. /\ r \in Requests /\ e \in Execution /\ e.of = r
      /\ runs \in Seq(Execution) /\ runs' = Append(runs, e)
      /\ ~Remembered(r) /\ expired' = {} /\ UNCHANGED history
      /\ entry' = [Purged EXCEPT ![r] = new]
  <2>1. at[h] = "body"
    BY Zenon DEF Execute
  <2>2. r \in Requests
    BY <2>1, InHand
  <2>. QED BY <1>0, <2>2 DEF Execute, Execution, HelperTypeOK
<1>2. /\ DOMAIN runs' = 1..Len(runs) + 1 /\ DOMAIN runs = 1..Len(runs) /\ Len(runs) \in Nat
      /\ runs'[new].of = r /\ \A n \in DOMAIN runs : runs'[n] = runs[n] /\ n # new
  <2>. HIDE DEF e
  <2>1. /\ DOMAIN runs' = 1..Len(runs) + 1 /\ DOMAIN runs = 1..Len(runs) /\ Len(runs) \in Nat
        /\ runs'[Len(runs) + 1] = e /\ \A n \in DOMAIN runs : runs'[n] = runs[n]
    BY <1>1, Appended, Zenon
  <2>. QED BY <1>0, <1>1, <2>1
<1>3. entry \in [Requests -> 0..MaxExecutions] /\ \A n \in DOMAIN runs : runs[n].of \in Requests
  BY Elements DEF HelperTypeOK, Execution
<1>4. \A q \in Requests : entry'[q] = IF q = r THEN new ELSE IF q \in expired THEN 0 ELSE entry[q]
  BY <1>1 DEF Purged, None
<1>5. \A n \in DOMAIN runs : runs[n].of = r => ~Kept(n)
  BY <1>1, <1>2, <1>3 DEF Remembered, Kept, None
<1>6. UNCHANGED <<forgotten, outlived>>
  BY <1>1 DEF history
<1>. HIDE DEF r, e
<1>7. \A n \in DOMAIN runs : runs[n].of # r /\ Kept(n) => Kept(n)'
  BY <1>1, <1>2, <1>3, <1>4 DEF Kept
<1>8. Kept(new)' /\ \A n \in DOMAIN runs' : n \in DOMAIN runs \/ n = new
  <2>1. entry'[r] = new /\ r \notin expired' /\ runs'[new].of = r
    BY <1>1, <1>2, <1>4
  <2>2. Kept(new)'
    BY <2>1 DEF Kept
  <2>3. \A n \in DOMAIN runs' : n \in DOMAIN runs \/ n = new
    BY <1>0, <1>2
  <2>. QED BY <2>2, <2>3, Zenon
<1>9. \A n \in DOMAIN runs' : /\ runs'[n].of \notin forgotten' => Kept(n)'
                              /\ runs'[n].at = "running" /\ runs'[n].of \notin outlived' => Kept(n)'
  <2>. TAKE n \in DOMAIN runs'
  <2>1. CASE n = new
    <3>. Kept(new)'
      BY <1>8, Zenon
    <3>. HIDE DEF Kept
    <3>. QED BY <2>1
  <2>2. CASE n \in DOMAIN runs
    <3>1. /\ runs[n].of \notin forgotten => Kept(n)
          /\ runs[n].at = "running" /\ runs[n].of \notin outlived => Kept(n)
      BY <2>2, Zenon DEF EntryInv
    <3>2. runs'[n] = runs[n] /\ (Kept(n) => Kept(n)')
      BY <1>2, <1>5, <1>7, <2>2, Zenon
    <3>. HIDE DEF Kept
    <3>. QED BY <1>6, <3>1, <3>2
  <2>. QED BY <1>8, <2>1, <2>2, Zenon
<1>10. \A q \in Requests : entry'[q] # 0 => runs'[entry'[q]].of = q
  <2>1. \A q \in Requests : entry[q] # 0 => entry[q] \in DOMAIN runs /\ runs[entry[q]].of = q
    BY DEF EntryInv, HelperTypeOK, None
  <2>. QED BY <1>2, <1>4, <2>1
<1>11. OncePerRequest'
  <2>. SUFFICES ASSUME NEW m \in DOMAIN runs', NEW n \in DOMAIN runs', m < n,
                       runs'[m].of = runs'[n].of
                PROVE  /\ runs'[n].of \in forgotten'
                       /\ runs'[m].at = "running" => runs'[n].of \in outlived'
    BY DEF OncePerRequest
  <2>1. CASE n \in DOMAIN runs
    <3>1. m \in DOMAIN runs
      BY <1>2, <2>1
    <3>. QED BY <1>2, <1>6, <2>1, <3>1 DEF EntryInv, OncePerRequest
  <2>2. CASE n = new
    <3>1. m \in DOMAIN runs
      BY <1>0, <1>2, <2>2
    <3>2. ~Kept(m) /\ runs'[m] = runs[m] /\ runs[m].of = runs'[n].of
      BY <1>2, <1>5, <2>2, <3>1
    <3>. QED BY <1>6, <3>1, <3>2 DEF EntryInv
  <2>. QED BY <1>8, <2>1, <2>2
<1>. QED BY <1>9, <1>10, <1>11 DEF EntryInv

(* A step that adds no execution, starts none anew, and forgets what it      *)
(* takes from the entries, leaves the invariant as it is.                    *)
LEMMA EntriesKept ==
    ASSUME HelperTypeOK, EntryInv, DOMAIN runs' = DOMAIN runs,
           forgotten \subseteq forgotten', outlived \subseteq outlived',
           \A n \in DOMAIN runs : /\ runs'[n].of = runs[n].of
                                  /\ runs'[n].at = "running" => runs[n].at = "running",
           \A r \in Requests : entry'[r] \in {0, entry[r]},
           \A n \in DOMAIN runs :
               Kept(n) => \/ Kept(n)'
                          \/ /\ runs[n].of \in forgotten'
                             /\ runs'[n].at = "running" => runs[n].of \in outlived'
    PROVE  EntryInv'
<1>1. \A n \in DOMAIN runs : /\ runs'[n].of \notin forgotten' => Kept(n)'
                             /\ runs'[n].at = "running" /\ runs'[n].of \notin outlived' => Kept(n)'
  <2>. TAKE n \in DOMAIN runs
  <2>1. /\ runs[n].of \notin forgotten => Kept(n)
        /\ runs[n].at = "running" /\ runs[n].of \notin outlived => Kept(n)
    BY Zenon DEF EntryInv
  <2>2. \/ Kept(n)'
        \/ ~Kept(n)
        \/ runs[n].of \in forgotten' /\ (runs'[n].at = "running" => runs[n].of \in outlived')
    BY Zenon
  <2>3. runs'[n].of = runs[n].of /\ (runs'[n].at = "running" => runs[n].at = "running")
    OBVIOUS
  <2>. HIDE DEF Kept
  <2>. QED BY <2>1, <2>2, <2>3
<1>2. \A r \in Requests : entry'[r] # 0 => runs'[entry'[r]].of = r
  <2>1. \A r \in Requests : entry[r] # 0 => entry[r] \in DOMAIN runs /\ runs[entry[r]].of = r
    BY Zenon DEF EntryInv, HelperTypeOK, None
  <2>2. \A r \in Requests : entry'[r] # 0 => entry'[r] = entry[r]
    BY Zenon
  <2>. QED BY <2>1, <2>2, Zenon
<1>3. OncePerRequest'
  <2>. SUFFICES ASSUME NEW m \in DOMAIN runs, NEW n \in DOMAIN runs, m < n,
                       runs'[m].of = runs'[n].of
                PROVE  /\ runs'[n].of \in forgotten'
                       /\ runs'[m].at = "running" => runs'[n].of \in outlived'
    BY Zenon DEF OncePerRequest
  <2>1. /\ runs[m].of = runs[n].of /\ runs'[n].of = runs[n].of
        /\ runs'[m].at = "running" => runs[m].at = "running"
    OBVIOUS
  <2>2. /\ runs[n].of \in forgotten
        /\ runs[m].at = "running" => runs[n].of \in outlived
    BY <2>1, Zenon DEF EntryInv, OncePerRequest
  <2>. QED BY <2>1, <2>2, Zenon
<1>. QED BY <1>1, <1>2, <1>3 DEF EntryInv

(* A repeated request is executed once more only if its entry had expired or *)
(* the helper had died; two executions of it run at once only if the entry   *)
(* expired while the first ran.                                              *)
THEOREM OncePerRequestHolds == HelperSpec => []OncePerRequest
<1>1. HelperInit => EntryInv
  <2>. SUFFICES ASSUME HelperInit PROVE EntryInv
    OBVIOUS
  <2>1. DOMAIN runs = {} /\ \A r \in Requests : entry[r] = 0
    BY DEF HelperInit, None
  <2>. QED BY <2>1 DEF EntryInv, OncePerRequest
<1>2. ASSUME HelperTypeOK, EntryInv, [HelperNext]_helperVars PROVE EntryInv'
  <2>0. entry \in [Requests -> 0..MaxExecutions] /\ \A n \in DOMAIN runs : runs[n].of \in Requests
    BY <1>2, Elements DEF HelperTypeOK, Execution
  <2>1. ASSUME UNCHANGED <<runs, entry, expired, forgotten, outlived>> PROVE EntryInv'
    BY <1>2, <2>1 DEF EntryInv, Kept, OncePerRequest
  <2>2. ASSUME NEW h \in Handlers, Join(h) PROVE EntryInv'
    <3>1. /\ UNCHANGED <<runs, forgotten, outlived>> /\ expired' = {}
          /\ entry' = [r \in Requests |-> IF r \in expired THEN 0 ELSE entry[r]]
      BY <2>2 DEF Join, Purged, None, history
    <3>. QED BY <1>2, <2>0, <3>1, EntriesKept DEF Kept
  <2>3. ASSUME NEW r \in Requests, Expire(r) PROVE EntryInv'
    <3>1. /\ UNCHANGED <<runs, entry>> /\ forgotten' = forgotten \cup {r}
          /\ expired' = expired \cup {r}
          /\ outlived' = IF runs[entry[r]].at = "running" THEN outlived \cup {r} ELSE outlived
      BY <2>3 DEF Expire, RequestStep
    <3>. QED BY <1>2, <2>0, <3>1, EntriesKept DEF Kept
  <2>4. ASSUME NEW n \in DOMAIN runs, End(n) PROVE EntryInv'
    <3>1. /\ UNCHANGED <<entry, expired, forgotten, outlived>> /\ DOMAIN runs' = DOMAIN runs
          /\ runs' = [runs EXCEPT ![n].at = "ended"]
      BY <2>4 DEF End, requests, history
    <3>2. \A m \in DOMAIN runs : /\ runs'[m].of = runs[m].of
                                 /\ runs'[m].at = "running" => runs[m].at = "running"
      BY <1>2, <3>1, Elements DEF Execution
    <3>. QED BY <1>2, <3>1, <3>2, EntriesKept DEF Kept
  <2>5. ASSUME Die PROVE EntryInv'
    <3>1. /\ UNCHANGED outlived /\ expired' = {} /\ DOMAIN runs' = DOMAIN runs
          /\ \A r \in Requests : entry'[r] = 0
          /\ forgotten' = forgotten \cup {r \in Requests : entry[r] # 0}
          /\ runs' = [n \in DOMAIN runs |-> CutOff(runs[n])]
      BY <2>5 DEF Die, None
    <3>2. \A m \in DOMAIN runs : runs'[m].of = runs[m].of /\ runs'[m].at # "running" /\ m # 0
      BY <1>2, <3>1, Elements DEF Execution, CutOff
    <3>. QED BY <1>2, <2>0, <3>1, <3>2, EntriesKept DEF Kept
  <2>6. CASE RequestActs
    <3>1. ASSUME NEW h \in Handlers, (\E r \in Requests : Arrive(h, r)) \/ Reject(h) \/ Answer(h)
          PROVE  EntryInv'
      BY <2>1, <3>1, Zenon DEF Arrive, Reject, Answer, Leaves
    <3>. QED BY <1>2, <2>2, <2>6, <3>1, ExecuteKeeps, Zenon DEF RequestActs
  <2>7. CASE EntryActs
    BY <2>3, <2>4, <2>7, Zenon DEF EntryActs
  <2>8. CASE \E u \in Updates : AskUpdate(u) \/ Proceed(u)
    <3>. UNCHANGED <<runs, entry, expired, forgotten, outlived>>
      BY <2>8, Zenon DEF AskUpdate, Proceed, UpdateStep, BeginUpdate, Stage, MoveOldAside, PlaceNew,
                         requests, RecordUpdate, FailUpdate, RemoveNew, RestoreOld, AnswerUpdate, history
    <3>. QED BY <2>1
  <2>9. CASE Exit \/ Crash
    BY <2>5, <2>9 DEF Exit, Crash
  <2>10. CASE Start
    BY <2>1, <2>10 DEF Start, requests, history
  <2>11. CASE UNCHANGED helperVars
    BY <2>1, <2>11 DEF helperVars, requests, history
  <2>. QED BY <1>2, <2>6, <2>7, <2>8, <2>9, <2>10, <2>11, StepCases, Zenon
<1>3. EntryInv => OncePerRequest
  BY DEF EntryInv
<1>. QED BY <1>1, <1>2, <1>3, HelperTypesHold, PTL DEF HelperSpec

-----------------------------------------------------------------------------
(* The creation of batches.                                                  *)

(* The inductive form of OnePreparation: all live preparations are one.      *)
SinglePreparation == \E p : preparations \subseteq {p}

LEMMA SinglePreparationInit == Init => SinglePreparation
  BY DEF Init, SinglePreparation

(* Only CreatePrepare adds a preparation, and it finds none; every other     *)
(* step keeps the set or shrinks it.                                         *)
LEMMA SinglePreparationStep == SinglePreparation /\ [Next]_vars => SinglePreparation'
<1> SUFFICES ASSUME SinglePreparation, [Next]_vars PROVE SinglePreparation'
  OBVIOUS
<1>1. preparations' \subseteq preparations => SinglePreparation'
  BY DEF SinglePreparation
<1>2. ASSUME UNCHANGED vars PROVE SinglePreparation'
  BY <1>1, <1>2 DEF vars, memory
<1>3. ASSUME NEW c \in Pages, Create(c) PROVE SinglePreparation'
  <2>1. CASE CreatePrepare(c)
    <3>1. preparations' = {[id |-> issued', account |-> Account[c]]}
      BY <2>1 DEF CreatePrepare, CreateAllowed
    <3> QED BY <3>1 DEF SinglePreparation
  <2>2. CASE CreateCommitFails(c)
    <3>1. preparations' \subseteq preparations
      BY <2>2 DEF CreateCommitFails
    <3> QED BY <3>1, <1>1
  <2>3. CASE CreateRead(c) \/ CreateJoin(c) \/ CreateRefuse(c) \/ CreateCommit(c) \/ LeavePage(c)
    <3>1. preparations' = preparations
      BY <2>3 DEF CreateRead, CreateJoin, CreateRefuse, CreateCommit, LeavePage, memory
    <3> QED BY <3>1, <1>1
  <2> QED BY <1>3, <2>1, <2>2, <2>3 DEF Create
<1>4. ASSUME NEW c \in Pages, Helper(c) PROVE SinglePreparation'
  <2>1. preparations' = preparations
    BY <1>4 DEF Helper, HelperStart, HelperSubmit, HelperRefuse, HelperAnswer,
                HelperLookupFails, memory
  <2> QED BY <2>1, <1>1
<1>5. ASSUME NEW c \in Pages, Complete(c) PROVE SinglePreparation'
  <2>1. CASE CompleteStore(c) \/ CompleteFail(c)
    <3>1. preparations' \subseteq preparations
      BY <2>1 DEF CompleteStore, CompleteFail, Finish
    <3> QED BY <3>1, <1>1
  <2>2. CASE \/ CompleteRead(c) \/ Timeout(c) \/ CompleteAcquire(c) \/ CompleteRefuse(c)
             \/ CompleteMark(c) \/ CompleteMarkFails(c) \/ CompleteRefetch(c)
             \/ CompleteStoreFails(c) \/ CompleteFailFails(c)
    <3>1. preparations' = preparations
      BY <2>2 DEF CompleteRead, Timeout, CompleteAcquire, CompleteRefuse, CompleteMark,
                  CompleteMarkFails, CompleteRefetch, CompleteStoreFails, CompleteFailFails,
                  memory
    <3> QED BY <3>1, <1>1
  <2> QED BY <1>5, <2>1, <2>2 DEF Complete
<1>6. ASSUME NEW c \in Pages, Correct(c) PROVE SinglePreparation'
  <2>1. preparations' = preparations \/ preparations' = {}
    BY <1>6 DEF Correct, RetryRead, RetryUnlock, RetryRefuse, RetryWrite, RecordRead,
                RecordWrite, DraftRead, DraftWrite, memory
  <2> QED BY <2>1, <1>1
<1>7. ASSUME PreparationExpires \/ ServerRestart PROVE SinglePreparation'
  <2>1. preparations' \subseteq preparations
    BY <1>7 DEF PreparationExpires, ServerRestart
  <2> QED BY <2>1, <1>1
<1> QED BY <1>2, <1>3, <1>4, <1>5, <1>6, <1>7 DEF Next

LEMMA SinglePreparationBounds == SinglePreparation => OnePreparation
<1> SUFFICES ASSUME SinglePreparation PROVE OnePreparation
  OBVIOUS
<1>1. PICK p : preparations \subseteq {p}
  BY DEF SinglePreparation
<1>2. IsFiniteSet({p}) /\ Cardinality({p}) = 1
  BY FS_Singleton
<1>3. Cardinality(preparations) <= Cardinality({p})
  BY <1>1, <1>2, FS_Subset
<1> QED BY <1>2, <1>3 DEF OnePreparation

(* No interleaving of handlers, helpers, operators and restarts gives a      *)
(* project two live preparations.                                            *)
THEOREM OnePreparationHolds == Spec => []OnePreparation
<1>1. Spec => []SinglePreparation
  BY SinglePreparationInit, SinglePreparationStep, PTL DEF Spec
<1> QED BY <1>1, SinglePreparationBounds, PTL

-----------------------------------------------------------------------------
(* Types.  A page that has a preparation, or waits for its helper, holds the *)
(* number of one; every code is that of a batch the console has.             *)
Jobs == [code : Codes, ob : Obs, id : 0..MaxPreparations, report : Finals,
         batch : Codes, confirmed : BOOLEAN]
Execs == [Ids -> [stage : Stages, batch : Codes]]
Preparations == [id : Ids, account : {Account[c] : c \in Pages}]
Named(place, j) == place \in {"preparing", "waiting"} => j.id \in Ids

StoreTyped == code \in Codes /\ ob \in Obs /\ unblocked \in BOOLEAN
MemoryTyped ==
    preparations \subseteq Preparations /\ issued \in 0..MaxPreparations /\ inFlight \in BOOLEAN
PagesTyped ==
    /\ pc \in [Pages -> PageStates] /\ job \in [Pages -> Jobs]
    /\ \A c \in Pages : Named(pc[c], job[c])
HelpersTyped == exec \in [Pages -> Execs] /\ batches \in Seq(Ids)
Typed == StoreTyped /\ MemoryTyped /\ PagesTyped /\ HelpersTyped

LEMMA TypedIsTypeOK == Typed => TypeOK
  BY DEF Typed, TypeOK, StoreTyped, MemoryTyped, PagesTyped, HelpersTyped, Jobs, Execs, Preparations

LEMMA Blank ==
    ASSUME batches \in Seq(Ids)
    PROVE  0 \in Codes /\ NoJob \in Jobs /\ "" \in Statuses
<1>1. 0 \in Codes /\ 0 \in 0..MaxPreparations
  <2>1. MaxPreparations \in Nat /\ Len(batches) \in Nat
    BY BatchAssumption
  <2> QED
    BY <2>1 DEF Codes
<1>2. "" \in Statuses /\ "failed" \in Finals
  BY DEF Statuses, Finals
<1> QED
  BY <1>1, <1>2 DEF NoJob, Jobs, Obs

LEMMA TypedInit == Init => Typed
<1> SUFFICES ASSUME Init PROVE Typed
  OBVIOUS
<1>5. batches = <<>>
  BY DEF Init
<1> batches \in Seq(Ids)
  BY <1>5
<1>1. StoreTyped
  BY Blank DEF Init, StoreTyped, Obs
<1>2. MemoryTyped
  <2>1. 0 \in 0..MaxPreparations
    BY BatchAssumption
  <2> QED
    BY <2>1 DEF Init, MemoryTyped
<1>3. PagesTyped
  BY Blank DEF Init, PagesTyped, PageStates, Named
<1>4. HelpersTyped
  BY Blank DEF Init, HelpersTyped, Execs, NoExec, Stages
<1> QED
  BY <1>1, <1>2, <1>3, <1>4 DEF Typed

(* While the console stays as it is, so do the types.                        *)
LEMMA SameTypes ==
    ASSUME UNCHANGED batches
    PROVE  Codes' = Codes /\ Obs' = Obs /\ Jobs' = Jobs /\ Execs' = Execs
  BY DEF Codes, Obs, Jobs, Execs

(* A handler moves on.                                                       *)
LEMMA MovedOn ==
    ASSUME Typed, NEW c \in Pages, NEW place \in PageStates, NEW j \in Jobs, Named(place, j),
           Goto(c, place, j), code' \in Codes, ob' \in Obs, unblocked' \in BOOLEAN,
           MemoryTyped', UNCHANGED helper
    PROVE  Typed'
<1>1. UNCHANGED <<exec, batches>>
  BY DEF helper
<1>2. StoreTyped' /\ HelpersTyped'
  BY <1>1, SameTypes DEF Typed, StoreTyped, HelpersTyped
<1>3. PagesTyped'
  BY <1>1, SameTypes DEF Typed, PagesTyped, Goto, Named
<1> QED
  BY <1>2, <1>3 DEF Typed

LEMMA MemoryKept == ASSUME Typed, UNCHANGED memory PROVE MemoryTyped'
  BY DEF Typed, MemoryTyped, memory

LEMMA MemoryFreed ==
    ASSUME Typed, preparations' \subseteq preparations, UNCHANGED issued, inFlight' \in BOOLEAN
    PROVE  MemoryTyped'
  BY DEF Typed, MemoryTyped

LEMMA Mine ==
    ASSUME Typed, NEW c \in Pages
    PROVE  /\ job[c] \in Jobs /\ Named(pc[c], job[c]) /\ Read(c) \in Jobs
           /\ job[c].ob \in Obs /\ job[c].batch \in Codes
           /\ code \in Codes /\ ob \in Obs /\ unblocked \in BOOLEAN
<1>1. job[c] \in Jobs /\ Named(pc[c], job[c]) /\ code \in Codes /\ ob \in Obs /\ unblocked \in BOOLEAN
  BY DEF Typed, PagesTyped, StoreTyped
<1> QED
  BY <1>1 DEF Jobs, Read

(* A status is written over the operationBatch a handler has read.           *)
LEMMA Rewritten ==
    ASSUME Typed, NEW c \in Pages, NEW s \in Statuses
    PROVE  /\ [job[c].ob EXCEPT !.status = s] \in Obs
           /\ [job[c].ob EXCEPT !.code = job[c].batch, !.status = s] \in Obs
  BY Mine DEF Obs

(* A handler ends.                                                           *)
LEMMA LeftOff ==
    ASSUME Typed, NEW c \in Pages, Leave(c), code' \in Codes, ob' \in Obs, unblocked' \in BOOLEAN,
           MemoryTyped', UNCHANGED helper
    PROVE  Typed'
<1>1. "idle" \in PageStates /\ NoJob \in Jobs /\ Named("idle", NoJob)
  BY Blank DEF PageStates, Named, Typed, HelpersTyped
<1> QED
  BY <1>1, MovedOn DEF Leave

LEMMA CreateTyped == ASSUME Typed, NEW c \in Pages, Create(c) PROVE Typed'
<1>1. CASE CreateRead(c)
  <2>1. Goto(c, "creating", Read(c)) /\ UNCHANGED <<store, memory, helper, unblocked>>
    BY <1>1 DEF CreateRead
  <2>2. "creating" \in PageStates /\ Named("creating", Read(c))
    BY DEF PageStates, Named
  <2> QED
    BY <2>1, <2>2, Mine, MemoryKept, MovedOn DEF store
<1>2. CASE CreateJoin(c)
  <2>1. PICK p \in preparations : Goto(c, "waiting", [job[c] EXCEPT !.id = p.id])
    BY <1>2 DEF CreateJoin
  <2>2. p.id \in Ids
    BY DEF Typed, MemoryTyped, Preparations
  <2>3. PICK j : j = [job[c] EXCEPT !.id = p.id]
    OBVIOUS
  <2>4. j \in Jobs /\ j.id = p.id
    BY <2>2, <2>3, Mine DEF Jobs, Ids
  <2>5. "waiting" \in PageStates /\ Named("waiting", j)
    BY <2>2, <2>4 DEF PageStates, Named
  <2> QED
    BY <1>2, <2>1, <2>3, <2>4, <2>5, Mine, MemoryKept, MovedOn DEF CreateJoin, store
<1>3. CASE CreatePrepare(c)
  <2>1. issued' \in Ids /\ issued' \in 0..MaxPreparations
    BY <1>3, BatchAssumption DEF CreatePrepare, Typed, MemoryTyped, Ids
  <2>2. PICK j : j = [job[c] EXCEPT !.id = issued']
    OBVIOUS
  <2>3. j \in Jobs /\ j.id = issued'
    BY <2>1, <2>2, Mine DEF Jobs
  <2>4. "preparing" \in PageStates /\ Named("preparing", j)
    BY <2>1, <2>3 DEF PageStates, Named
  <2>5. MemoryTyped'
    BY <1>3, <2>1 DEF CreatePrepare, Typed, MemoryTyped, Preparations
  <2>6. Goto(c, "preparing", j) /\ UNCHANGED <<store, helper, unblocked>>
    BY <1>3, <2>2 DEF CreatePrepare
  <2> QED
    BY <2>3, <2>4, <2>5, <2>6, Mine, MovedOn DEF store
<1>4. CASE CreateRefuse(c) \/ LeavePage(c)
  <2>1. Leave(c) /\ UNCHANGED <<store, memory, helper, unblocked>>
    BY <1>4 DEF CreateRefuse, LeavePage
  <2> QED
    BY <2>1, Mine, MemoryKept, LeftOff DEF store
<1>5. CASE CreateCommit(c)
  <2>1. /\ ob' = [job[c].ob EXCEPT !.status = "awaiting_local_helper"]
        /\ Goto(c, "waiting", job[c]) /\ UNCHANGED <<code, memory, helper, unblocked>>
    BY <1>5 DEF CreateCommit
  <2>2. "waiting" \in PageStates /\ Named("waiting", job[c])
    BY <1>5, Mine DEF CreateCommit, PageStates, Named
  <2>3. ob' \in Obs
    BY <2>1, Rewritten DEF Statuses, UnconfirmedStatuses
  <2> QED
    BY <2>1, <2>2, <2>3, Mine, MemoryKept, MovedOn
<1>6. CASE CreateCommitFails(c)
  <2>1. Leave(c) /\ UNCHANGED <<store, helper, unblocked>>
    BY <1>6 DEF CreateCommitFails
  <2>2. MemoryTyped'
    BY <1>6, MemoryFreed DEF CreateCommitFails, Typed, MemoryTyped
  <2> QED
    BY <2>1, <2>2, Mine, LeftOff DEF store
<1> QED
  BY <1>1, <1>2, <1>3, <1>4, <1>5, <1>6 DEF Create

(* A run changes its stage; the console may have one batch more.             *)
LEMMA Ran ==
    ASSUME Typed, UNCHANGED <<store, memory, pc, job>>, unblocked' \in BOOLEAN,
           batches' \in Seq(Ids), Codes \subseteq Codes', exec' \in [Pages -> Execs']
    PROVE  Typed'
<1>1. Obs \subseteq Obs'
  BY DEF Obs
<1>2. Jobs \subseteq Jobs'
  BY <1>1 DEF Jobs
<1>3. StoreTyped'
  BY <1>1 DEF Typed, StoreTyped, store
<1>4. PagesTyped'
  BY <1>2 DEF Typed, PagesTyped
<1> QED
  BY <1>3, <1>4, MemoryKept DEF Typed, HelpersTyped

LEMMA Staged ==
    ASSUME Typed, NEW c \in Pages, NEW i \in Ids, NEW s \in Stages
    PROVE  [exec EXCEPT ![c][i].stage = s] \in [Pages -> Execs]
<1>1. exec[c][i] \in [stage : Stages, batch : Codes] /\ exec[c] \in Execs /\ exec \in [Pages -> Execs]
  BY DEF Typed, HelpersTyped, Execs
<1>2. [exec[c][i] EXCEPT !.stage = s] \in [stage : Stages, batch : Codes]
  BY <1>1
<1>3. [exec[c] EXCEPT ![i] = [exec[c][i] EXCEPT !.stage = s]] \in Execs
  BY <1>1, <1>2 DEF Execs
<1> QED
  BY <1>1, <1>3

LEMMA HelperTyped == ASSUME Typed, NEW c \in Pages, Helper(c) PROVE Typed'
<1>1. exec \in [Pages -> Execs] /\ batches \in Seq(Ids) /\ unblocked \in BOOLEAN
  BY DEF Typed, HelpersTyped, StoreTyped
<1>2. CASE HelperStart(c)
  <2>1. exec' \in [Pages -> Execs]
    <3>1. job[c].id \in Ids /\ "running" \in Stages
      BY <1>2, Mine DEF HelperStart, Named, Stages
    <3> QED
      BY <1>2, <3>1, Staged DEF HelperStart
  <2> QED
    BY <1>1, <1>2, <2>1, SameTypes, Ran DEF HelperStart
<1>3. ASSUME NEW i \in Ids, HelperSubmit(c, i) PROVE Typed'
  <2>1. /\ batches' = Append(batches, i)
        /\ exec' = [exec EXCEPT ![c][i] = [stage |-> "submitted", batch |-> Len(batches')]]
        /\ UNCHANGED <<store, memory, pc, job, unblocked>>
    BY <1>3 DEF HelperSubmit
  <2>2. batches' \in Seq(Ids) /\ Len(batches') = Len(batches) + 1 /\ Len(batches) \in Nat
    <3> DEFINE T == Ids
    <3> HIDE DEF T
    <3>1. batches \in Seq(T) /\ i \in T
      BY <1>1 DEF T
    <3>2. Append(batches, i) \in Seq(T) /\ Len(Append(batches, i)) = Len(batches) + 1
          /\ Len(batches) \in Nat
      BY <3>1
    <3> QED
      BY <2>1, <3>2 DEF T
  <2>3. Codes \subseteq Codes' /\ Len(batches') \in Codes'
    BY <2>2 DEF Codes
  <2>4. Execs \subseteq Execs'
    BY <2>3 DEF Execs
  <2>5. exec' \in [Pages -> Execs']
    BY <1>1, <2>1, <2>3, <2>4 DEF Execs, Stages
  <2> QED
    BY <1>1, <2>1, <2>2, <2>3, <2>5, Ran
<1>4. ASSUME NEW i \in Ids, HelperRefuse(c, i) \/ HelperAnswer(c, i) PROVE Typed'
  <2>1. PICK final \in Finals : exec' = [exec EXCEPT ![c][i].stage = final]
    BY <1>4 DEF HelperRefuse, HelperAnswer, Finals
  <2>2. exec' \in [Pages -> Execs]
    BY <2>1, Staged DEF Stages
  <2>3. UNCHANGED <<store, memory, pc, job, batches, unblocked>>
    BY <1>4 DEF HelperRefuse, HelperAnswer
  <2> QED
    BY <1>1, <2>2, <2>3, SameTypes, Ran
<1>5. ASSUME NEW i \in Ids, HelperLookupFails(c, i) PROVE Typed'
  <2>1. exec' = [exec EXCEPT ![c][i] = [stage |-> "failed", batch |-> 0]]
    BY <1>5 DEF HelperLookupFails
  <2>2. exec' \in [Pages -> Execs]
    BY <1>1, <2>1, Blank DEF Execs, Stages, Finals
  <2> QED
    BY <1>1, <1>5, <2>2, SameTypes, Ran DEF HelperLookupFails
<1> QED
  BY <1>2, <1>3, <1>4, <1>5 DEF Helper

LEMMA CompleteTyped == ASSUME Typed, NEW c \in Pages, Complete(c) PROVE Typed'
<1>1. CASE CompleteRead(c) \/ Timeout(c)
  <2>1. PICK run : run = exec[c][job[c].id]
    OBVIOUS
  <2>2. job[c].id \in Ids
    BY <1>1, Mine DEF CompleteRead, Timeout, Named
  <2>3. run.batch \in Codes
    BY <2>1, <2>2 DEF Typed, HelpersTyped, Execs
  <2>4. 0 \in Codes
    BY Blank DEF Typed, HelpersTyped
  <2>5. ReportedBatch(run) \in Codes
    BY <2>3, <2>4 DEF ReportedBatch
  <2>6. PICK report \in Finals, n \in Codes :
          \/ Goto(c, "completing", [Read(c) EXCEPT !.report = report, !.batch = n])
          \/ Goto(c, "completing", [Read(c) EXCEPT !.report = report])
    <3>1. CASE CompleteRead(c)
      BY <2>1, <2>5, <3>1 DEF CompleteRead
    <3>2. CASE Timeout(c)
      BY <2>4, <3>2 DEF Timeout, Finals
    <3> QED
      BY <1>1, <3>1, <3>2
  <2>7. PICK j \in Jobs : Goto(c, "completing", j)
    <3>1. [Read(c) EXCEPT !.report = report, !.batch = n] \in Jobs
      BY Mine DEF Jobs
    <3>2. [Read(c) EXCEPT !.report = report] \in Jobs
      BY Mine DEF Jobs
    <3> QED
      BY <2>6, <3>1, <3>2
  <2>8. "completing" \in PageStates /\ Named("completing", j)
    BY DEF PageStates, Named
  <2>9. UNCHANGED <<store, memory, helper>> /\ unblocked' \in BOOLEAN
    BY <1>1, Mine DEF CompleteRead, Timeout
  <2> QED
    BY <2>7, <2>8, <2>9, Mine, MemoryKept, MovedOn DEF store
<1>2. CASE CompleteAcquire(c)
  <2>1. /\ Goto(c, "marking", job[c])
        /\ UNCHANGED <<store, preparations, issued, helper, unblocked>> /\ inFlight' = TRUE
    BY <1>2 DEF CompleteAcquire
  <2>2. "marking" \in PageStates /\ Named("marking", job[c])
    BY DEF PageStates, Named
  <2> QED
    BY <2>1, <2>2, Mine, MemoryFreed, MovedOn DEF store
<1>3. CASE CompleteRefuse(c)
  BY <1>3, Mine, MemoryKept, LeftOff DEF CompleteRefuse, store
<1>4. CASE CompleteMark(c)
  <2>1. /\ ob' = [job[c].ob EXCEPT !.status = "creating"]
        /\ Goto(c, "marked", [job[c] EXCEPT !.confirmed = Confirmed(job[c].report)])
        /\ UNCHANGED <<code, memory, helper, unblocked>>
    BY <1>4 DEF CompleteMark
  <2>2. ob' \in Obs
    BY <2>1, Rewritten DEF Statuses, UnconfirmedStatuses
  <2>3. PICK confirmed \in BOOLEAN : confirmed = Confirmed(job[c].report)
    <3>1. Confirmed(job[c].report) \in BOOLEAN
      <4>1. CASE job[c].report \in {"published", "publish_failed", "unconfirmed"}
        <5>1. Confirmed(job[c].report) = TRUE
          BY <4>1 DEF Confirmed
        <5> QED
          BY <5>1
      <4>2. CASE job[c].report \notin {"published", "publish_failed", "unconfirmed"}
        <5>1. Confirmed(job[c].report) = FALSE
          BY <4>2 DEF Confirmed
        <5> QED
          BY <5>1
      <4> QED
        BY <4>1, <4>2
    <3> QED
      BY <3>1
  <2>4. PICK j : j = [job[c] EXCEPT !.confirmed = confirmed]
    OBVIOUS
  <2>5. j \in Jobs /\ "marked" \in PageStates /\ Named("marked", j)
    BY <2>4, Mine DEF Jobs, PageStates, Named
  <2> QED
    BY <2>1, <2>2, <2>3, <2>4, <2>5, Mine, MemoryKept, MovedOn
<1>5. CASE CompleteMarkFails(c) \/ CompleteRefetch(c) \/ CompleteStoreFails(c)
  <2>1. PICK place \in {"failing", "storing"} : Goto(c, place, Read(c))
    BY <1>5 DEF CompleteMarkFails, CompleteRefetch, CompleteStoreFails
  <2>2. place \in PageStates /\ Named(place, Read(c))
    BY DEF PageStates, Named
  <2>3. UNCHANGED <<store, memory, helper>> /\ unblocked' \in BOOLEAN
    BY <1>5, Mine DEF CompleteMarkFails, CompleteRefetch, CompleteStoreFails, Confirmed
  <2> QED
    BY <2>1, <2>2, <2>3, Mine, MemoryKept, MovedOn DEF store
<1>6. CASE CompleteStore(c) \/ CompleteFail(c)
  <2>1. Leave(c) /\ UNCHANGED <<helper, unblocked>>
    BY <1>6 DEF CompleteStore, CompleteFail, Finish
  <2>2. MemoryTyped'
    BY <1>6, MemoryFreed DEF CompleteStore, CompleteFail, Finish
  <2>3. code' \in Codes /\ ob' \in Obs
    <3>1. {"published", "reconciliation_required", "failed"} \subseteq Statuses
      BY DEF Statuses, UnconfirmedStatuses
    <3>2. PICK s \in {"published", "reconciliation_required", "failed"} :
            \/ ob' = [job[c].ob EXCEPT !.code = job[c].batch, !.status = s]
            \/ ob' = [job[c].ob EXCEPT !.status = s]
      BY <1>6 DEF CompleteStore, CompleteFail
    <3>3. s \in Statuses
      BY <3>1
    <3>4. code' \in Codes
      BY <1>6, Mine DEF CompleteStore, CompleteFail
    <3> QED
      BY <3>2, <3>3, <3>4, Rewritten
  <2> QED
    BY <2>1, <2>2, <2>3, Mine, LeftOff
<1>7. CASE CompleteFailFails(c)
  <2>1. /\ Leave(c) /\ UNCHANGED <<store, preparations, issued, helper, unblocked>>
        /\ inFlight' = FALSE
    BY <1>7 DEF CompleteFailFails
  <2> QED
    BY <2>1, Mine, MemoryFreed, LeftOff DEF store
<1> QED
  BY <1>1, <1>2, <1>3, <1>4, <1>5, <1>6, <1>7 DEF Complete

LEMMA CorrectTyped == ASSUME Typed, NEW c \in Pages, Correct(c) PROVE Typed'
<1>1. CASE RetryRead(c) \/ DraftRead(c)
  <2>1. PICK place \in {"retrying", "drafting"} : Goto(c, place, Read(c))
    BY <1>1 DEF RetryRead, DraftRead
  <2>2. place \in PageStates /\ Named(place, Read(c))
    BY DEF PageStates, Named
  <2>3. UNCHANGED <<store, memory, helper, unblocked>>
    BY <1>1 DEF RetryRead, DraftRead
  <2> QED
    BY <2>1, <2>2, <2>3, Mine, MemoryKept, MovedOn DEF store
<1>2. CASE RecordRead(c)
  <2>1. PICK n \in DOMAIN batches : Goto(c, "recording", [Read(c) EXCEPT !.batch = n])
    BY <1>2 DEF RecordRead
  <2>2. n \in Codes
    BY DEF Typed, HelpersTyped, Codes
  <2>3. PICK j : j = [Read(c) EXCEPT !.batch = n]
    OBVIOUS
  <2>4. j \in Jobs /\ "recording" \in PageStates /\ Named("recording", j)
    BY <2>2, <2>3, Mine DEF Jobs, PageStates, Named
  <2> QED
    BY <1>2, <2>1, <2>3, <2>4, Mine, MemoryKept, MovedOn DEF RecordRead, store
<1>3. CASE RetryUnlock(c)
  <2>1. /\ Goto(c, "unlocking", job[c]) /\ UNCHANGED <<store, issued, inFlight, helper>>
        /\ preparations' = {} /\ unblocked' \in BOOLEAN
    BY <1>3, Mine DEF RetryUnlock, HelperDue, HelperRunning
  <2>2. "unlocking" \in PageStates /\ Named("unlocking", job[c])
    BY DEF PageStates, Named
  <2>3. MemoryTyped'
    BY <2>1, MemoryFreed DEF Typed, MemoryTyped
  <2> QED
    BY <2>1, <2>2, <2>3, Mine, MovedOn DEF store
<1>4. CASE RetryRefuse(c)
  BY <1>4, Mine, MemoryKept, LeftOff DEF RetryRefuse, store
<1>5. CASE RetryWrite(c) \/ RecordWrite(c) \/ DraftWrite(c)
  <2>1. Leave(c) /\ UNCHANGED <<memory, helper>> /\ unblocked' \in BOOLEAN
    BY <1>5, Mine DEF RetryWrite, RecordWrite, DraftWrite, HelperDue, HelperRunning
  <2>2. code' \in Codes
    BY <1>5, Mine DEF RetryWrite, RecordWrite, DraftWrite
  <2>3. ob' \in Obs
    <3>1. CASE RetryWrite(c)
      BY <3>1, Rewritten DEF RetryWrite, Statuses
    <3>2. CASE RecordWrite(c)
      BY <3>2, Rewritten DEF RecordWrite, Statuses
    <3>3. CASE DraftWrite(c)
      <4>1. PICK s : s = IF job[c].ob.status = "" THEN "draft" ELSE job[c].ob.status
        OBVIOUS
      <4>2. s \in Statuses
        BY <4>1, Mine DEF Obs, Statuses
      <4>3. ob' = [job[c].ob EXCEPT !.status = s]
        BY <3>3, <4>1 DEF DraftWrite
      <4> QED
        BY <4>2, <4>3, Rewritten
    <3> QED
      BY <1>5, <3>1, <3>2, <3>3
  <2> QED
    BY <2>1, <2>2, <2>3, MemoryKept, LeftOff
<1> QED
  BY <1>1, <1>2, <1>3, <1>4, <1>5 DEF Correct

LEMMA TypedStep == ASSUME Typed, [Next]_vars PROVE Typed'
<1>1. CASE UNCHANGED vars
  BY <1>1, SameTypes, MemoryKept
     DEF vars, store, helper, Typed, StoreTyped, PagesTyped, HelpersTyped
<1>2. CASE PreparationExpires
  <2>1. MemoryTyped'
    BY <1>2, MemoryFreed DEF PreparationExpires, Typed, MemoryTyped
  <2> QED
    BY <1>2, <2>1, SameTypes
       DEF PreparationExpires, store, helper, Typed, StoreTyped, PagesTyped, HelpersTyped
<1>3. CASE ServerRestart
  <2>1. MemoryTyped'
    BY <1>3, MemoryFreed DEF ServerRestart, Typed, MemoryTyped
  <2>2. NoJob \in Jobs /\ {"idle", "waiting"} \subseteq PageStates
    BY Blank DEF Typed, HelpersTyped, PageStates
  <2>3. UNCHANGED <<store, helper, unblocked>>
    BY <1>3 DEF ServerRestart
  <2>4. PagesTyped'
    BY <1>3, <2>2, <2>3, SameTypes DEF ServerRestart, helper, Typed, PagesTyped, Named
  <2> QED
    BY <2>1, <2>3, <2>4, SameTypes DEF store, helper, Typed, StoreTyped, HelpersTyped
<1> QED
  BY <1>1, <1>2, <1>3, CreateTyped, HelperTyped, CompleteTyped, CorrectTyped DEF Next

(* The types of the state: whatever is stored or waits in a handler, every   *)
(* code is that of a batch the console has, for any pages, bounds, hazards.  *)
THEOREM TypesHold == Spec => []TypeOK
  BY TypedInit, TypedStep, TypedIsTypeOK, PTL DEF Spec

-----------------------------------------------------------------------------
(* Created once.  What a batch can come from is a claim on the project: a    *)
(* run that is under way or has made its batch, a live preparation, or a     *)
(* page that holds one.                                                      *)
OneAccountEach == \A c, d \in Pages : Account[c] = Account[d] => c = d

Engaged == {"marking", "marked", "storing", "failing"}
Reporting == {"completing"} \cup Engaged
Holding == {"preparing", "waiting"}
Made == {"submitted", "published", "publish_failed", "unconfirmed"}
StoreFree == code = 0 /\ ob.code = 0 /\ ob.status \notin UnconfirmedStatuses
ReadFree(c) ==
    pc[c] = "creating" /\ KnownCode(c) = 0 /\ job[c].ob.status \notin UnconfirmedStatuses

Live(c, i) == [id |-> i, account |-> Account[c]] \in preparations
HasMade(c, i) == exec[c][i].stage \in Made
Holds(c, i) == pc[c] \in Holding /\ job[c].id = i
Claim(c, i) == exec[c][i].stage = "running" \/ HasMade(c, i) \/ Holds(c, i) \/ Live(c, i)
(* A live preparation whose page has not started its helper.                 *)
Unstarted(c, i) == Holds(c, i) /\ exec[c][i].stage = "none" /\ Live(c, i)

(* While creation was not allowed too early there is one claim at most.  A   *)
(* free project, and a handler that read it free, leave room only for a      *)
(* preparation that is being handed out; who completes one holds the lock.   *)
OneClaim ==
    \A c \in Pages : \A d \in Pages : \A i \in Ids : \A k \in Ids :
        Claim(c, i) /\ Claim(d, k) => c = d /\ i = k
StoreGuards ==
    StoreFree => \A c \in Pages : \A i \in Ids : Claim(c, i) => pc[c] = "preparing" /\ Holds(c, i)
ReadersGuarded ==
    \A d \in Pages : ReadFree(d) => \A c \in Pages : \A i \in Ids : Claim(c, i) => Unstarted(c, i)
HolderLive == \A c \in Pages : pc[c] \in Engaged => inFlight /\ Live(c, job[c].id)
PreparingLive == \A c \in Pages : pc[c] = "preparing" => Unstarted(c, job[c].id)
UnlockingClear ==
    \A d \in Pages : pc[d] = "unlocking" =>
        \A c \in Pages : \A i \in Ids : Live(c, i) => Unstarted(c, i)
Guards ==
    OneClaim /\ StoreGuards /\ ReadersGuarded /\ HolderLive /\ PreparingLive /\ UnlockingClear

(* What handlers hold is what the helper did: no helper moves meanwhile.     *)
CodesKnown == (ob.code # 0 => code # 0) /\ \A c \in Pages : job[c].ob.code # 0 => code # 0
Retrying == \A c \in Pages : pc[c] \in {"retrying", "unlocking"} => batches = <<>>
ReportFits(c, place, j) ==
    place \in Reporting =>
        /\ j.id \in Ids /\ j.report = exec[c][j.id].stage
        /\ j.report = "published" => j.batch # 0
        /\ place = "storing" => j.report = "published"
        /\ place \in {"marked", "storing", "failing"} /\ ~j.confirmed => ~Confirmed(j.report)
Reported == \A c \in Pages : ReportFits(c, pc[c], job[c])
Recorded == \A c \in Pages : pc[c] = "recording" => job[c].batch # 0
Started ==
    \A c \in Pages : \A i \in Ids :
        /\ exec[c][i].stage # "none" => i <= issued
        /\ HasMade(c, i) => batches # <<>>
        /\ exec[c][i].stage \in {"submitted", "published"} => exec[c][i].batch # 0
Numbered ==
    /\ \A p \in preparations : p.id <= issued
    /\ \A c \in Pages : pc[c] \in {"preparing", "waiting"} => job[c].id <= issued
MadeByRun == batches # <<>> => \E c \in Pages : \E i \in Ids : HasMade(c, i)
Facts ==
    /\ CodesKnown /\ Retrying /\ Reported /\ Recorded
    /\ Started /\ Numbered /\ MadeByRun /\ Len(batches) <= 1

Guarded == ~unblocked => Guards /\ Facts

LEMMA Moves ==
    ASSUME Typed, NEW c \in Pages, NEW place, NEW j, Goto(c, place, j)
    PROVE  /\ pc'[c] = place /\ job'[c] = j
           /\ \A d \in Pages : d # c => pc'[d] = pc[d] /\ job'[d] = job[d]
  BY DEF Goto, Typed, PagesTyped

LEMMA ReadFields ==
    ASSUME Typed, NEW c \in Pages
    PROVE  /\ Read(c).code = code /\ Read(c).ob = ob /\ Read(c).id = job[c].id
           /\ Read(c).report = job[c].report /\ Read(c).batch = job[c].batch
           /\ Read(c).confirmed = job[c].confirmed
  BY Mine DEF Jobs, Read

(* A handler's step keeps the facts when what the handler holds fits.        *)
LEMMA FactsKept ==
    ASSUME Typed, Facts, NEW c \in Pages, NEW place, NEW j, Goto(c, place, j), UNCHANGED helper,
           issued' = issued \/ issued' = issued + 1,
           code # 0 => code' # 0, ob'.code # 0 => code' # 0, j.ob.code # 0 => code' # 0,
           place \in {"retrying", "unlocking"} => batches = <<>>,
           ReportFits(c, place, j), place = "recording" => j.batch # 0,
           place \in {"preparing", "waiting"} => j.id <= issued',
           preparations' \subseteq preparations \/ \A p \in preparations' : p.id <= issued'
    PROVE  Facts'
<1>1. /\ pc'[c] = place /\ job'[c] = j /\ exec' = exec /\ batches' = batches
      /\ \A d \in Pages : d # c => pc'[d] = pc[d] /\ job'[d] = job[d]
  BY Moves DEF helper
<1>2. CodesKnown'
  BY <1>1 DEF Facts, CodesKnown
<1>3. Retrying' /\ Recorded'
  BY <1>1 DEF Facts, Retrying, Recorded
<1>4. Reported'
  <2>1. ASSUME NEW d \in Pages PROVE ReportFits(d, pc[d], job[d])'
    <3>1. CASE d = c
      BY <1>1, <3>1 DEF ReportFits
    <3>2. CASE d # c
      BY <1>1, <3>2 DEF Facts, Reported, ReportFits
    <3> QED
      BY <3>1, <3>2
  <2> QED
    BY <2>1 DEF Reported
<1>5. Started'
  <2>1. issued \in Nat /\ Ids \subseteq Nat
    BY BatchAssumption DEF Typed, MemoryTyped, Ids
  <2>2. \A i \in Ids : i <= issued => i <= issued'
    <3>1. issued' \in Nat /\ issued <= issued'
      BY <2>1
    <3>2. ASSUME NEW i \in Ids, i <= issued PROVE i <= issued'
      <4>1. i \in Nat
        BY <2>1
      <4> QED
        BY <2>1, <3>1, <3>2, <4>1
    <3> QED
      BY <3>2
  <2>3. ASSUME NEW d \in Pages, NEW i \in Ids
        PROVE  /\ exec'[d][i].stage # "none" => i <= issued'
               /\ HasMade(d, i)' => batches' # <<>>
               /\ exec'[d][i].stage \in {"submitted", "published"} => exec'[d][i].batch # 0
    <3>1. /\ exec[d][i].stage # "none" => i <= issued
          /\ HasMade(d, i) => batches # <<>>
          /\ exec[d][i].stage \in {"submitted", "published"} => exec[d][i].batch # 0
      BY DEF Facts, Started
    <3>2. HasMade(d, i)' <=> HasMade(d, i)
      BY <1>1 DEF HasMade
    <3> QED
      BY <1>1, <2>2, <3>1, <3>2
  <2> QED
    BY <2>3 DEF Started
<1>6. MadeByRun' /\ (Len(batches) <= 1)'
  BY <1>1 DEF Facts, MadeByRun, HasMade
<1>7. Numbered'
  <2>1. issued \in Nat /\ \A p \in preparations : p.id \in Nat
    BY BatchAssumption DEF Typed, MemoryTyped, Ids, Preparations
  <2>2. \A d \in Pages : job[d].id \in Nat
    BY BatchAssumption, Mine DEF Jobs
  <2>3. \A n \in Nat : n <= issued => n <= issued'
    BY <2>1
  <2> QED
    BY <1>1, <2>1, <2>2, <2>3 DEF Facts, Numbered
<1> QED
  BY <1>2, <1>3, <1>4, <1>5, <1>6, <1>7 DEF Facts

(* A handler that ends holds nothing.                                        *)
LEMMA FactsLeft ==
    ASSUME Typed, Facts, NEW c \in Pages, Leave(c), UNCHANGED <<helper, issued>>,
           preparations' \subseteq preparations, code # 0 => code' # 0, ob'.code # 0 => code' # 0
    PROVE  Facts'
<1> DEFINE place == "idle"
<1> DEFINE j == NoJob
<1>1. Goto(c, place, j) /\ j.ob.code = 0 /\ ReportFits(c, place, j)
  BY DEF Leave, NoJob, ReportFits, Reporting, Engaged
<1>2. place \notin {"retrying", "unlocking", "recording", "preparing", "waiting"}
  OBVIOUS
<1> HIDE DEF place, j
<1> QED
  BY <1>1, <1>2, FactsKept

(* Claims: a step adds none unless it starts a run, makes a preparation or   *)
(* hands one to a page.                                                      *)
LEMMA ClaimsKept ==
    ASSUME Typed, NEW c \in Pages, NEW place, NEW j, Goto(c, place, j), UNCHANGED helper,
           preparations' \subseteq preparations, place \in Holding => Claim(c, j.id),
           NEW d \in Pages, NEW i \in Ids, Claim(d, i)'
    PROVE  Claim(d, i)
<1>1. /\ pc'[c] = place /\ job'[c] = j /\ exec' = exec
      /\ \A e \in Pages : e # c => pc'[e] = pc[e] /\ job'[e] = job[e]
  BY Moves DEF helper
<1> QED
  BY <1>1 DEF Claim, HasMade, Holds, Live

LEMMA OneClaimKept ==
    ASSUME OneClaim, \A d \in Pages : \A i \in Ids : Claim(d, i)' => Claim(d, i)
    PROVE  OneClaim'
<1>1. ASSUME NEW c \in Pages, NEW d \in Pages, NEW i \in Ids, NEW k \in Ids,
             Claim(c, i)', Claim(d, k)'
      PROVE  c = d /\ i = k
  BY <1>1 DEF OneClaim
<1> QED
  BY <1>1 DEF OneClaim

(* A page that stops waiting has an answer, or no handler runs.              *)
Leaving(c) == pc[c] = "waiting" => HandlersIdle \/ exec[c][job[c].id].stage # "none"

(* A step that writes nothing keeps the guards: a new reader reads what is   *)
(* stored, a page that is handed a live preparation had the claim already.   *)
LEMMA GuardsStay ==
    ASSUME Typed, Guards, NEW c \in Pages, NEW place, NEW j, Goto(c, place, j),
           UNCHANGED <<store, memory, helper>>, pc[c] # "preparing",
           place \notin {"preparing", "unlocking"},
           place = "waiting" => Claim(c, j.id) /\ j.id \in Ids,
           place = "creating" => pc[c] = "idle" /\ j = Read(c), Leaving(c),
           pc[c] = "waiting" => place \in {"idle", "completing"},
           place \in Engaged => pc[c] \in Engaged /\ j.id = job[c].id
    PROVE  Guards'
<1>1. /\ pc'[c] = place /\ job'[c] = j /\ exec' = exec /\ batches' = batches
      /\ code' = code /\ ob' = ob /\ preparations' = preparations /\ inFlight' = inFlight
      /\ \A d \in Pages : d # c => pc'[d] = pc[d] /\ job'[d] = job[d]
  BY Moves DEF helper, store, memory
<1>2. \A d \in Pages : \A i \in Ids : Claim(d, i)' => Claim(d, i)
  <2>1. place \in Holding => Claim(c, j.id)
    BY DEF Holding
  <2> QED
    BY <1>1, <2>1, ClaimsKept
<1>3. OneClaim'
  BY <1>2, OneClaimKept DEF Guards
<1>4. StoreGuards'
  BY <1>1, <1>2 DEF Guards, StoreGuards, StoreFree, Holds
<1>5. ASSUME NEW d \in Pages, NEW i \in Ids, Unstarted(d, i), d # c PROVE Unstarted(d, i)'
  BY <1>1, <1>5 DEF Unstarted, Holds, Live
<1>6. ASSUME NEW d \in Pages, d # c, ReadFree(d) \/ pc[d] = "unlocking",
             NEW i \in Ids, Unstarted(c, i)
      PROVE  FALSE
  <2>1. pc[c] = "waiting" /\ job[c].id = i /\ exec[c][i].stage = "none"
    BY <1>6 DEF Unstarted, Holds, Holding
  <2>2. HandlersIdle
    BY <2>1 DEF Leaving
  <2> QED
    BY <1>6, <2>2 DEF HandlersIdle, ReadFree
<1>7. ReadersGuarded'
  <2>1. SUFFICES ASSUME NEW d \in Pages, ReadFree(d)', NEW e \in Pages, NEW i \in Ids, Claim(e, i)'
                 PROVE  Unstarted(e, i)'
    BY DEF ReadersGuarded
  <2>2. Claim(e, i)
    BY <2>1, <1>2
  <2>3. CASE d = c
    <3>1. place = "creating" /\ j = Read(c)
      BY <1>1, <2>1, <2>3 DEF ReadFree
    <3>2. j.code = code /\ j.ob = ob
      BY <3>1, ReadFields
    <3>3. StoreFree
      BY <1>1, <2>1, <2>3, <3>2 DEF ReadFree, KnownCode, StoreFree
    <3>4. pc[e] = "preparing" /\ Holds(e, i)
      BY <2>2, <3>3 DEF Guards, StoreGuards
    <3>5. Unstarted(e, i)
      BY <3>4 DEF Guards, PreparingLive, Holds
    <3> QED
      BY <1>5, <3>4, <3>5
  <2>4. CASE d # c
    <3>1. ReadFree(d)
      BY <1>1, <2>1, <2>4 DEF ReadFree, KnownCode
    <3>2. Unstarted(e, i)
      BY <2>2, <3>1 DEF Guards, ReadersGuarded
    <3> QED
      BY <1>5, <1>6, <2>4, <3>1, <3>2
  <2> QED
    BY <2>3, <2>4
<1>8. HolderLive'
  BY <1>1 DEF Guards, HolderLive, Live
<1>9. PreparingLive'
  BY <1>1 DEF Guards, PreparingLive, Unstarted, Holds, Live
<1>10. UnlockingClear'
  <2>1. SUFFICES ASSUME NEW d \in Pages, pc'[d] = "unlocking", NEW e \in Pages, NEW i \in Ids,
                        Live(e, i)'
                 PROVE  Unstarted(e, i)'
    BY DEF UnlockingClear
  <2>2. d # c /\ pc[d] = "unlocking" /\ Live(e, i)
    BY <1>1, <2>1 DEF Live
  <2>3. Unstarted(e, i)
    BY <2>2 DEF Guards, UnlockingClear
  <2> QED
    BY <1>5, <1>6, <2>2, <2>3
<1> QED
  BY <1>3, <1>4, <1>7, <1>8, <1>9, <1>10 DEF Guards

(* A status is written: if the project is free afterwards, it was free, or   *)
(* nothing claims it any more.                                               *)
LEMMA GuardsWritten ==
    ASSUME Typed, Guards, NEW c \in Pages, NEW place, NEW j, Goto(c, place, j),
           UNCHANGED <<memory, helper>>, pc[c] # "waiting",
           place \in {"idle", "waiting", "marked"}, j.id = job[c].id \/ place = "idle",
           place = "waiting" => pc[c] = "preparing", place = "marked" => pc[c] = "marking",
           StoreFree' => \/ StoreFree /\ pc[c] # "preparing"
                         \/ \A d \in Pages : \A i \in Ids : ~Claim(d, i),
           pc[c] = "preparing" => place = "waiting"
    PROVE  Guards'
<1>1. /\ pc'[c] = place /\ job'[c] = j /\ exec' = exec
      /\ preparations' = preparations /\ inFlight' = inFlight
      /\ \A d \in Pages : d # c => pc'[d] = pc[d] /\ job'[d] = job[d]
  BY Moves DEF helper, memory
<1>2. \A d \in Pages : \A i \in Ids : Claim(d, i)' => Claim(d, i)
  BY <1>1 DEF Claim, HasMade, Holds, Holding, Live
<1>3. OneClaim'
  BY <1>2, OneClaimKept DEF Guards
<1>4. StoreGuards'
  BY <1>1, <1>2 DEF Guards, StoreGuards, Holds
<1>5. ASSUME NEW d \in Pages, NEW i \in Ids, Unstarted(d, i) PROVE Unstarted(d, i)'
  BY <1>1, <1>5 DEF Unstarted, Holds, Live, Holding
<1>6. ReadersGuarded'
  BY <1>1, <1>2, <1>5 DEF Guards, ReadersGuarded, ReadFree, KnownCode
<1>7. HolderLive'
  BY <1>1 DEF Guards, HolderLive, Live, Engaged
<1>8. PreparingLive'
  BY <1>1 DEF Guards, PreparingLive, Unstarted, Holds, Live
<1>9. UnlockingClear'
  BY <1>1, <1>5 DEF Guards, UnlockingClear, Live
<1> QED
  BY <1>3, <1>4, <1>6, <1>7, <1>8, <1>9 DEF Guards

(* While no handler runs and creation is guarded, a free project has no      *)
(* claim.                                                                    *)
LEMMA GuardsIdle ==
    ASSUME HandlersIdle', OneClaim',
           StoreFree' => \A c \in Pages : \A i \in Ids : ~Claim(c, i)'
    PROVE  Guards'
<1>1. \A c \in Pages : pc'[c] \in {"idle", "waiting"}
  BY DEF HandlersIdle
<1>2. StoreGuards' /\ ReadersGuarded' /\ HolderLive' /\ PreparingLive' /\ UnlockingClear'
  BY <1>1 DEF StoreGuards, ReadersGuarded, ReadFree, HolderLive, PreparingLive, UnlockingClear,
              Engaged
<1> QED
  BY <1>2 DEF Guards

LEMMA FreeWhenIdle ==
    ASSUME Guards, HandlersIdle, StoreFree
    PROVE  \A c \in Pages : \A i \in Ids : ~Claim(c, i)
  BY DEF Guards, StoreGuards, HandlersIdle

(* Who has the lock has the only claim: no other page prepares, no handler   *)
(* read the project free, no operator is unlocking it.                       *)
LEMMA AloneWithLock ==
    ASSUME Typed, Guards, Facts, NEW c \in Pages, pc[c] \in Engaged
    PROVE  /\ job[c].id \in Ids /\ Claim(c, job[c].id)
           /\ \A d \in Pages : d # c => pc[d] \notin Engaged
           /\ \A d \in Pages : /\ pc[d] # "preparing" /\ pc[d] # "unlocking"
                               /\ ~ReadFree(d)
           /\ ~StoreFree
<1>1. \A d \in Pages : pc[d] \in Engaged => job[d].id \in Ids /\ Live(d, job[d].id)
  BY DEF Guards, HolderLive, Facts, Reported, ReportFits, Reporting
<1>2. \A d \in Pages : pc[d] \in Engaged => Claim(d, job[d].id)
  BY <1>1 DEF Claim
<1>3. pc[c] \notin Holding /\ pc[c] # "preparing"
  BY DEF Engaged, Holding
<1>4. \A d \in Pages : d # c => pc[d] \notin Engaged
  BY <1>1, <1>2 DEF Guards, OneClaim
<1>5. ASSUME NEW d \in Pages, pc[d] = "preparing" PROVE FALSE
  <2>1. job[d].id \in Ids
    BY <1>5, Mine DEF Named
  <2>2. Claim(d, job[d].id)
    BY <1>5 DEF Claim, Holds, Holding
  <2> QED
    BY <1>1, <1>2, <1>3, <1>5, <2>1, <2>2 DEF Guards, OneClaim
<1>6. \A d \in Pages : pc[d] # "unlocking"
  BY <1>1, <1>3 DEF Guards, UnlockingClear, Unstarted, Holds
<1>7. \A d \in Pages : ~ReadFree(d)
  BY <1>1, <1>2, <1>3 DEF Guards, ReadersGuarded, Unstarted, Holds
<1>8. ~StoreFree
  BY <1>1, <1>2, <1>3 DEF Guards, StoreGuards
<1> QED
  BY <1>1, <1>2, <1>4, <1>5, <1>6, <1>7, <1>8

(* A completion ends, with or without its preparation.                       *)
LEMMA GuardsFinished ==
    ASSUME Typed, Guards, Facts, NEW c \in Pages, pc[c] \in Engaged, Leave(c), UNCHANGED helper,
           preparations' \subseteq preparations,
           StoreFree' => \/ StoreFree
                         \/ \A d \in Pages : \A i \in Ids : ~Claim(d, i)'
    PROVE  Guards'
<1> DEFINE place == "idle"
<1> DEFINE j == NoJob
<1>1. Goto(c, place, j) /\ place \notin Holding
  BY DEF Leave, Holding
<1>2. place = "idle"
  OBVIOUS
<1> HIDE DEF place, j
<1>3. /\ pc'[c] = "idle"
      /\ \A d \in Pages : d # c => pc'[d] = pc[d] /\ job'[d] = job[d]
  BY <1>1, <1>2, Moves
<1>4. \A d \in Pages : \A i \in Ids : Claim(d, i)' => Claim(d, i)
  BY <1>1, ClaimsKept
<1>5. OneClaim'
  BY <1>4, OneClaimKept DEF Guards
<1>6. StoreGuards'
  BY AloneWithLock DEF StoreGuards
<1>7. ReadersGuarded' /\ UnlockingClear' /\ PreparingLive' /\ HolderLive'
  BY <1>3, AloneWithLock
     DEF ReadersGuarded, UnlockingClear, PreparingLive, HolderLive, ReadFree, KnownCode, Engaged
<1> QED
  BY <1>5, <1>6, <1>7 DEF Guards

LEMMA GuardsLeft ==
    ASSUME Typed, Guards, NEW c \in Pages, Leave(c), UNCHANGED <<store, memory, helper>>,
           pc[c] # "preparing", Leaving(c)
    PROVE  Guards'
<1> DEFINE place == "idle"
<1> DEFINE j == NoJob
<1>1. Goto(c, place, j) /\ place \notin Engaged
  BY DEF Leave, Engaged
<1>2. place = "idle"
  OBVIOUS
<1> HIDE DEF place, j
<1> QED
  BY <1>1, <1>2, GuardsStay

LEMMA NotReporting ==
    ASSUME NEW c, NEW place, NEW j, place \notin Reporting PROVE ReportFits(c, place, j)
  BY DEF ReportFits

LEMMA CreateGuarded ==
    ASSUME Typed, Guards, Facts, PromptHandlers, OneAccountEach, NEW c \in Pages, Create(c)
    PROVE  Guards' /\ Facts'
<1>1. CASE CreateRead(c)
  <2> DEFINE j == Read(c)
  <2> DEFINE place == "creating"
  <2>1. Goto(c, place, j) /\ UNCHANGED <<store, memory, helper>> /\ pc[c] = "idle"
    BY <1>1 DEF CreateRead
  <2>2. place \notin Reporting /\ place \notin Engaged /\ place = "creating"
    BY DEF Reporting, Engaged
  <2>3. j = Read(c) /\ j.ob = ob
    BY ReadFields
  <2> HIDE DEF j, place
  <2>4. Guards'
    BY <2>1, <2>2, <2>3, GuardsStay DEF Leaving
  <2>5. Facts'
    BY <2>1, <2>2, <2>3, FactsKept, NotReporting DEF store, memory, Facts, CodesKnown
  <2> QED
    BY <2>4, <2>5
<1>2. CASE CreateJoin(c)
  <2>1. PICK p \in preparations :
          p.account = Account[c] /\ Goto(c, "waiting", [job[c] EXCEPT !.id = p.id])
    BY <1>2 DEF CreateJoin
  <2>2. p \in Preparations
    BY DEF Typed, MemoryTyped
  <2>3. p.id \in Ids /\ p = [id |-> p.id, account |-> Account[c]]
    BY <2>1, <2>2 DEF Preparations
  <2>4. Claim(c, p.id)
    BY <2>3 DEF Claim, Live
  <2> DEFINE j == [job[c] EXCEPT !.id = p.id]
  <2> DEFINE place == "waiting"
  <2>5. j.id = p.id /\ j.ob = job[c].ob
    BY Mine DEF Jobs
  <2>6. place \notin Reporting /\ place \notin Engaged /\ place = "waiting"
    BY DEF Reporting, Engaged
  <2>7. Goto(c, place, j) /\ UNCHANGED <<store, memory, helper>> /\ pc[c] = "creating"
    BY <1>2, <2>1 DEF CreateJoin
  <2> HIDE DEF j, place
  <2>8. Guards'
    BY <2>3, <2>4, <2>5, <2>6, <2>7, GuardsStay DEF Leaving
  <2>9. Facts'
    BY <2>5, <2>6, <2>7, FactsKept, NotReporting DEF store, memory, Facts, CodesKnown, Numbered
  <2> QED
    BY <2>8, <2>9
<1>3. CASE CreatePrepare(c)
  <2>0. PICK n \in Ids : n = issued + 1
    BY <1>3, BatchAssumption DEF CreatePrepare, Typed, MemoryTyped, Ids
  <2> DEFINE j == [job[c] EXCEPT !.id = n]
  <2> DEFINE place == "preparing"
  <2>1. /\ Goto(c, place, j) /\ UNCHANGED <<store, inFlight, helper>> /\ pc[c] = "creating"
        /\ issued' = n /\ preparations = {} /\ ReadFree(c)
        /\ preparations' = {[id |-> n, account |-> Account[c]]}
    BY <1>3, <2>0 DEF CreatePrepare, CreateAllowed, ReadFree
  <2>2. n \in Ids /\ ~(n <= issued) /\ n = issued + 1
    BY <1>3, <2>0, BatchAssumption DEF CreatePrepare, Typed, MemoryTyped, Ids
  <2>3. j.id = n /\ j.ob = job[c].ob
    BY Mine DEF Jobs
  <2>4. place \notin Reporting /\ place \notin Engaged /\ place = "preparing" /\ place \in Holding
    BY DEF Reporting, Engaged, Holding
  <2> HIDE DEF j, place
  <2>5. /\ pc'[c] = place /\ job'[c] = j /\ exec' = exec
        /\ \A d \in Pages : d # c => pc'[d] = pc[d] /\ job'[d] = job[d]
    BY <2>1, Moves DEF helper
  <2>6. \A d \in Pages : \A i \in Ids : ~Claim(d, i)
    BY <2>1 DEF Guards, ReadersGuarded, Unstarted, Live
  <2>7. exec[c][n].stage = "none"
    BY <2>2 DEF Facts, Started
  <2>8. Unstarted(c, n)'
    BY <2>1, <2>3, <2>4, <2>5, <2>7 DEF Unstarted, Holds, Live
  <2>9. \A d \in Pages : \A i \in Ids : Live(d, i)' => d = c /\ i = n
    BY <2>1 DEF Live, OneAccountEach
  <2>10. \A d \in Pages : \A i \in Ids : Claim(d, i)' => d = c /\ i = n
    BY <2>3, <2>5, <2>6, <2>9 DEF Claim, HasMade, Holds
  <2>11. OneClaim' /\ ReadersGuarded' /\ UnlockingClear'
    BY <2>8, <2>9, <2>10 DEF OneClaim, ReadersGuarded, UnlockingClear
  <2>12. StoreGuards'
    BY <2>4, <2>5, <2>8, <2>10 DEF StoreGuards, Unstarted
  <2>13. HolderLive'
    BY <2>1, <2>4, <2>5 DEF Guards, HolderLive, Live
  <2>14. PreparingLive'
    BY <2>1, <2>3, <2>5, <2>8 DEF Guards, PreparingLive, Unstarted, Live
  <2>15. Guards'
    BY <2>11, <2>12, <2>13, <2>14 DEF Guards
  <2>16. Facts'
    <3>1. n <= issued' /\ \A p \in preparations' : p.id <= issued'
      BY <2>1, <2>2 DEF Ids
    <3> QED
      BY <2>1, <2>2, <2>3, <2>4, <3>1, FactsKept, NotReporting DEF store, Facts, CodesKnown
  <2> QED
    BY <2>15, <2>16
<1>4. CASE CreateRefuse(c) \/ LeavePage(c)
  <2>1. Leave(c) /\ UNCHANGED <<store, memory, helper>> /\ pc[c] # "preparing" /\ Leaving(c)
    BY <1>4 DEF CreateRefuse, LeavePage, Leaving, Slow
  <2> QED
    BY <2>1, GuardsLeft, FactsLeft DEF store, memory, Facts, CodesKnown
<1>5. CASE CreateCommit(c)
  <2> DEFINE place == "waiting"
  <2>1. Goto(c, place, job[c]) /\ UNCHANGED <<code, memory, helper>> /\ pc[c] = "preparing"
    BY <1>5 DEF CreateCommit
  <2>2. ob'.status = "awaiting_local_helper" /\ ob'.code = job[c].ob.code
    BY <1>5, Mine DEF CreateCommit, Obs
  <2>3. place \notin Reporting /\ place \notin Engaged /\ place = "waiting" /\ ~StoreFree'
    BY <2>2 DEF Reporting, Engaged, StoreFree, UnconfirmedStatuses
  <2> HIDE DEF place
  <2>4. Guards'
    BY <2>1, <2>3, GuardsWritten
  <2>5. Facts'
    BY <2>1, <2>2, <2>3, FactsKept, NotReporting DEF memory, Facts, CodesKnown, Numbered
  <2> QED
    BY <2>4, <2>5
<1>6. CASE CreateCommitFails(c)
  <2>1. /\ Leave(c) /\ UNCHANGED <<store, issued, helper>> /\ pc[c] = "preparing"
        /\ preparations' = {p \in preparations : p.id # job[c].id}
    BY <1>6 DEF CreateCommitFails
  <2>2. Facts'
    BY <2>1, FactsLeft DEF store, Facts, CodesKnown
  <2> DEFINE place == "idle"
  <2> DEFINE j == NoJob
  <2>3. Goto(c, place, j) /\ place \notin Holding /\ place = "idle"
    BY <2>1 DEF Leave, Holding
  <2> HIDE DEF place, j
  <2>4. /\ pc'[c] = "idle" /\ exec' = exec
        /\ \A d \in Pages : d # c => pc'[d] = pc[d] /\ job'[d] = job[d]
    BY <2>1, <2>3, Moves DEF helper
  <2>5. \A d \in Pages : \A i \in Ids : Claim(d, i)' => Claim(d, i)
    BY <2>1, <2>3, ClaimsKept
  <2>6. job[c].id \in Ids /\ Unstarted(c, job[c].id) /\ Claim(c, job[c].id)
    BY <2>1, Mine DEF Named, Guards, PreparingLive, Claim, Unstarted
  <2>7. PICK n \in Ids : n = job[c].id
    BY <2>6
  <2>8. ~Claim(c, n)'
    <3>1. ~Live(c, n)'
      BY <2>1, <2>7 DEF Live
    <3>2. exec[c][n].stage = "none"
      BY <2>6, <2>7 DEF Unstarted
    <3> QED
      BY <2>4, <3>1, <3>2 DEF Claim, HasMade, Holds, Holding, Made
  <2>9. \A d \in Pages : \A i \in Ids : Claim(d, i) => d = c /\ i = n
    BY <2>6, <2>7 DEF Guards, OneClaim
  <2>10. \A d \in Pages : \A i \in Ids : ~Claim(d, i)'
    BY <2>5, <2>8, <2>9
  <2>11. \A d \in Pages : pc[d] = "preparing" \/ pc[d] \in Engaged => d = c
    <3>1. \A d \in Pages : pc[d] = "preparing" => job[d].id \in Ids /\ Claim(d, job[d].id)
      BY Mine DEF Named, Claim, Holds, Holding
    <3>2. \A d \in Pages : pc[d] \in Engaged => FALSE
      BY <2>1, AloneWithLock
    <3> QED
      BY <2>9, <3>1, <3>2
  <2>12. \A d \in Pages : pc'[d] # "preparing" /\ pc'[d] \notin Engaged
    BY <2>4, <2>11 DEF Engaged
  <2>13. UnlockingClear'
    BY <2>10 DEF UnlockingClear, Claim
  <2>14. OneClaim' /\ StoreGuards' /\ ReadersGuarded' /\ HolderLive' /\ PreparingLive'
    BY <2>10, <2>12 DEF OneClaim, StoreGuards, ReadersGuarded, HolderLive, PreparingLive
  <2>15. Guards'
    BY <2>13, <2>14 DEF Guards
  <2> QED
    BY <2>2, <2>15
<1> QED
  BY <1>1, <1>2, <1>3, <1>4, <1>5, <1>6 DEF Create

LEMMA CompleteGuarded ==
    ASSUME Typed, Guards, Facts, NEW c \in Pages, Complete(c), ~unblocked'
    PROVE  Guards' /\ Facts'
<1>1. CASE CompleteRead(c)
  <2>1. PICK i \in Ids : i = job[c].id
    BY <1>1, Mine DEF CompleteRead, Named
  <2>2. PICK run : run = exec[c][i]
    OBVIOUS
  <2> DEFINE place == "completing"
  <2> DEFINE j == [Read(c) EXCEPT !.report = run.stage, !.batch = ReportedBatch(run)]
  <2>3. /\ Goto(c, place, j) /\ UNCHANGED <<store, memory, helper>> /\ pc[c] = "waiting"
        /\ run.stage \in Finals
    BY <1>1, <2>1, <2>2 DEF CompleteRead
  <2>4. /\ j.id = i /\ j.ob = ob /\ j.report = run.stage
        /\ j.report = "published" => j.batch = run.batch
    BY <2>1, Mine, ReadFields DEF Jobs, ReportedBatch
  <2>5. place = "completing" /\ place \notin Engaged
    BY DEF Engaged
  <2> HIDE DEF place, j
  <2>6. Leaving(c)
    BY <2>1, <2>2, <2>3 DEF Leaving, Finals
  <2>7. Guards'
    BY <2>3, <2>5, <2>6, GuardsStay
  <2>8. ReportFits(c, place, j)
    BY <2>2, <2>4, <2>5 DEF ReportFits, Facts, Started
  <2>9. Facts'
    BY <2>3, <2>4, <2>5, <2>8, FactsKept DEF store, memory, Facts, CodesKnown
  <2> QED
    BY <2>7, <2>9
<1>2. CASE Timeout(c)
  BY <1>2 DEF Timeout
<1>3. CASE CompleteAcquire(c)
  <2> DEFINE place == "marking"
  <2>1. /\ Goto(c, place, job[c]) /\ UNCHANGED <<store, preparations, issued, helper>>
        /\ inFlight' /\ pc[c] = "completing" /\ Live(c, job[c].id)
    BY <1>3 DEF CompleteAcquire, CompleteAllowed, Live
  <2>2. place = "marking" /\ place \notin Holding
    BY DEF Holding
  <2> HIDE DEF place
  <2>3. /\ pc'[c] = "marking" /\ job'[c] = job[c] /\ exec' = exec
        /\ code' = code /\ ob' = ob /\ preparations' = preparations
        /\ \A d \in Pages : d # c => pc'[d] = pc[d] /\ job'[d] = job[d]
    BY <2>1, <2>2, Moves DEF helper, store
  <2>4. \A d \in Pages : \A i \in Ids : Claim(d, i)' => Claim(d, i)
    BY <2>1, <2>2, ClaimsKept
  <2>5. OneClaim'
    BY <2>4, OneClaimKept DEF Guards
  <2>6. \A d \in Pages : \A i \in Ids : Unstarted(d, i) => Unstarted(d, i)'
    BY <2>1, <2>3 DEF Unstarted, Holds, Holding, Live
  <2>7. StoreGuards'
    BY <2>1, <2>3, <2>4 DEF Guards, StoreGuards, StoreFree, Holds
  <2>8. ReadersGuarded'
    BY <2>3, <2>4, <2>6 DEF Guards, ReadersGuarded, ReadFree, KnownCode
  <2>9. HolderLive'
    BY <2>1, <2>3 DEF Guards, HolderLive, Live
  <2>10. PreparingLive'
    BY <2>3 DEF Guards, PreparingLive, Unstarted, Holds, Live
  <2>11. UnlockingClear'
    BY <2>3, <2>6 DEF Guards, UnlockingClear, Live
  <2>12. Guards'
    BY <2>5, <2>7, <2>8, <2>9, <2>10, <2>11 DEF Guards
  <2>13. ReportFits(c, place, job[c])
    BY <2>1, <2>2 DEF Facts, Reported, ReportFits, Reporting
  <2>14. Facts'
    BY <2>1, <2>2, <2>13, FactsKept DEF store, Facts, CodesKnown
  <2> QED
    BY <2>12, <2>14
<1>4. CASE CompleteRefuse(c)
  <2>1. Leave(c) /\ UNCHANGED <<store, memory, helper>> /\ pc[c] = "completing"
    BY <1>4 DEF CompleteRefuse
  <2> QED
    BY <2>1, GuardsLeft, FactsLeft DEF Leaving, store, memory, Facts, CodesKnown
<1>5. CASE CompleteMark(c)
  <2> DEFINE place == "marked"
  <2> DEFINE j == [job[c] EXCEPT !.confirmed = Confirmed(job[c].report)]
  <2>1. Goto(c, place, j) /\ UNCHANGED <<code, memory, helper>> /\ pc[c] = "marking"
    BY <1>5 DEF CompleteMark
  <2>2. /\ j.id = job[c].id /\ j.ob = job[c].ob /\ j.report = job[c].report
        /\ j.batch = job[c].batch /\ j.confirmed = Confirmed(job[c].report)
    BY Mine DEF Jobs
  <2>3. ob'.status = "creating" /\ ob'.code = job[c].ob.code
    BY <1>5, Mine DEF CompleteMark, Obs
  <2>4. place = "marked" /\ ~StoreFree'
    BY <2>3 DEF StoreFree, UnconfirmedStatuses
  <2> HIDE DEF place, j
  <2>5. Guards'
    BY <2>1, <2>2, <2>4, GuardsWritten
  <2>6. ReportFits(c, place, j)
    BY <2>1, <2>2, <2>4 DEF Facts, Reported, ReportFits, Reporting, Engaged
  <2>7. Facts'
    BY <2>1, <2>2, <2>3, <2>4, <2>6, FactsKept DEF memory, Facts, CodesKnown
  <2> QED
    BY <2>5, <2>7
<1>6. CASE CompleteMarkFails(c) \/ CompleteRefetch(c) \/ CompleteStoreFails(c)
  <2>1. PICK place \in {"failing", "storing"} :
          /\ Goto(c, place, Read(c)) /\ UNCHANGED <<store, memory, helper>>
          /\ pc[c] \in Engaged
          /\ place = "storing" => job[c].report = "published"
          /\ pc[c] \in {"marked", "storing"} \/ ~Confirmed(job[c].report)
    BY <1>6 DEF CompleteMarkFails, CompleteRefetch, CompleteStoreFails, Engaged
  <2>2. place \in Engaged /\ place \notin {"preparing", "unlocking", "waiting", "creating", "recording"}
    BY <2>1 DEF Engaged
  <2>3. pc[c] # "preparing" /\ pc[c] # "waiting"
    BY <2>1 DEF Engaged
  <2> DEFINE j == Read(c)
  <2>4. /\ j.id = job[c].id /\ j.ob = ob /\ j.report = job[c].report
        /\ j.batch = job[c].batch /\ j.confirmed = job[c].confirmed
    BY ReadFields
  <2>5. Goto(c, place, j)
    BY <2>1
  <2> HIDE DEF j
  <2>6. Guards'
    BY <2>1, <2>2, <2>3, <2>4, <2>5, GuardsStay DEF Leaving
  <2>7. ReportFits(c, place, j)
    BY <2>1, <2>2, <2>4 DEF Facts, Reported, ReportFits, Reporting
  <2>8. place \notin {"retrying", "unlocking"}
    BY <2>1
  <2>9. Facts'
    BY <2>1, <2>2, <2>4, <2>5, <2>7, <2>8, FactsKept DEF store, memory, Facts, CodesKnown
  <2> QED
    BY <2>6, <2>9
<1>7. CASE CompleteStore(c)
  <2>1. /\ Leave(c) /\ UNCHANGED <<issued, helper>> /\ preparations' \subseteq preparations
        /\ pc[c] = "storing" /\ code' = job[c].batch
    BY <1>7 DEF CompleteStore, Finish
  <2>2. code' # 0
    BY <2>1 DEF Facts, Reported, ReportFits, Reporting, Engaged
  <2>3. ~StoreFree' /\ pc[c] \in Engaged
    BY <2>1, <2>2 DEF StoreFree, Engaged
  <2> QED
    BY <2>1, <2>2, <2>3, GuardsFinished, FactsLeft
<1>8. CASE CompleteFail(c)
  <2>1. /\ Leave(c) /\ UNCHANGED <<code, issued, helper>> /\ preparations' \subseteq preparations
        /\ preparations' = {p \in preparations : p.id # job[c].id}
        /\ pc[c] = "failing" /\ pc[c] \in Engaged
    BY <1>8 DEF CompleteFail, Finish, Engaged
  <2>2. /\ ob'.code = job[c].ob.code
        /\ ob'.status = IF job[c].confirmed THEN "reconciliation_required" ELSE "failed"
    BY <1>8, Mine DEF CompleteFail, Obs
  <2>3. Facts'
    BY <2>1, <2>2, FactsLeft DEF Facts, CodesKnown
  <2>4. ASSUME ~job[c].confirmed, NEW d \in Pages, NEW k \in Ids PROVE ~Claim(d, k)'
    <3> DEFINE place == "idle"
    <3> DEFINE j == NoJob
    <3>1. Goto(c, place, j) /\ place \notin Holding /\ place = "idle"
      BY <2>1 DEF Leave, Holding
    <3> HIDE DEF place, j
    <3>2. pc'[c] = "idle" /\ exec' = exec
      BY <2>1, <3>1, Moves DEF helper
    <3>3. Claim(d, k)' => Claim(d, k)
      BY <2>1, <3>1, ClaimsKept
    <3>4. PICK n \in Ids : n = job[c].id /\ Claim(c, n)
      BY <2>1, AloneWithLock
    <3>5. ~Confirmed(exec[c][n].stage) /\ exec[c][n].stage \in Finals
      BY <2>1, <2>4, <3>4, Mine DEF Facts, Reported, ReportFits, Reporting, Jobs
    <3>6. exec[c][n].stage = "failed"
      BY <3>5 DEF Confirmed, Finals
    <3>7. ~Live(c, n)'
      BY <2>1, <3>4 DEF Live
    <3>8. ~Claim(c, n)'
      BY <3>2, <3>6, <3>7 DEF Claim, HasMade, Made, Holds, Holding
    <3>9. Claim(d, k) => d = c /\ k = n
      BY <3>4 DEF Guards, OneClaim
    <3> QED
      BY <3>3, <3>8, <3>9
  <2>5. StoreFree' => \A d \in Pages : \A k \in Ids : ~Claim(d, k)'
    BY <2>2, <2>4 DEF StoreFree, UnconfirmedStatuses
  <2> QED
    BY <2>1, <2>3, <2>5, GuardsFinished
<1>9. CASE CompleteFailFails(c)
  <2>1. /\ Leave(c) /\ UNCHANGED <<store, preparations, issued, helper>> /\ pc[c] \in Engaged
    BY <1>9 DEF CompleteFailFails, Engaged
  <2>2. StoreFree' => StoreFree
    BY <2>1 DEF StoreFree, store
  <2> QED
    BY <2>1, <2>2, GuardsFinished, FactsLeft DEF store, Facts, CodesKnown
<1> QED
  BY <1>1, <1>2, <1>3, <1>4, <1>5, <1>6, <1>7, <1>8, <1>9 DEF Complete

LEMMA CorrectGuarded ==
    ASSUME Typed, Guards, Facts, NEW c \in Pages, Correct(c), ~unblocked'
    PROVE  Guards' /\ Facts'
<1>1. CASE RetryRead(c) \/ DraftRead(c)
  <2>1. PICK place \in {"retrying", "drafting"} :
          /\ Goto(c, place, Read(c)) /\ UNCHANGED <<store, memory, helper>> /\ pc[c] = "idle"
          /\ place = "retrying" => batches = <<>>
    BY <1>1 DEF RetryRead, DraftRead
  <2>2. place \notin Reporting /\ place \notin Engaged
        /\ place \notin {"preparing", "unlocking", "waiting", "creating", "recording"}
    BY <2>1 DEF Reporting, Engaged
  <2> DEFINE j == Read(c)
  <2>3. Goto(c, place, j) /\ j.ob = ob
    BY <2>1, ReadFields
  <2> HIDE DEF j
  <2>4. Guards'
    BY <2>1, <2>2, <2>3, GuardsStay DEF Leaving
  <2>5. Facts'
    BY <2>1, <2>2, <2>3, FactsKept, NotReporting DEF store, memory, Facts, CodesKnown
  <2> QED
    BY <2>4, <2>5
<1>2. CASE RecordRead(c)
  <2>1. PICK n \in DOMAIN batches : Goto(c, "recording", [Read(c) EXCEPT !.batch = n])
    BY <1>2 DEF RecordRead
  <2>2. n # 0
    BY DEF Typed, HelpersTyped
  <2> DEFINE j == [Read(c) EXCEPT !.batch = n]
  <2> DEFINE place == "recording"
  <2>3. place \notin Reporting /\ place \notin Engaged /\ place = "recording"
    BY DEF Reporting, Engaged
  <2>4. j.ob = ob /\ j.batch = n
    BY Mine, ReadFields DEF Jobs
  <2>5. Goto(c, place, j) /\ UNCHANGED <<store, memory, helper>> /\ pc[c] = "idle"
    BY <1>2, <2>1 DEF RecordRead
  <2> HIDE DEF place, j
  <2>6. Guards'
    BY <2>3, <2>5, GuardsStay DEF Leaving
  <2>7. Facts'
    BY <2>2, <2>3, <2>4, <2>5, FactsKept, NotReporting DEF store, memory, Facts, CodesKnown
  <2> QED
    BY <2>6, <2>7
<1>3. CASE RetryUnlock(c)
  <2> DEFINE place == "unlocking"
  <2>1. /\ Goto(c, place, job[c]) /\ UNCHANGED <<store, issued, inFlight, helper>>
        /\ preparations' = {} /\ ~inFlight /\ ~HelperDue /\ pc[c] = "retrying"
    BY <1>3 DEF RetryUnlock, RetryAllowed
  <2>2. place = "unlocking" /\ place \notin Reporting /\ place \notin Holding
    BY DEF Reporting, Engaged, Holding
  <2> HIDE DEF place
  <2>3. /\ pc'[c] = "unlocking" /\ code' = code /\ ob' = ob
        /\ \A d \in Pages : d # c => pc'[d] = pc[d] /\ job'[d] = job[d]
    BY <2>1, <2>2, Moves DEF store
  <2>4. \A d \in Pages : \A i \in Ids : Claim(d, i)' => Claim(d, i)
    BY <2>1, <2>2, ClaimsKept
  <2>5. OneClaim'
    BY <2>4, OneClaimKept DEF Guards
  <2>6. \A d \in Pages : pc[d] # "preparing" /\ pc[d] \notin Holding /\ pc[d] \notin Engaged
    BY <2>1 DEF HelperDue, Holding, Guards, HolderLive
  <2>7. StoreGuards'
    BY <2>3, <2>4, <2>6 DEF Guards, StoreGuards, StoreFree
  <2>8. ReadersGuarded'
    BY <2>3, <2>4, <2>6 DEF Guards, ReadersGuarded, ReadFree, KnownCode, Unstarted, Holds
  <2>9. HolderLive' /\ PreparingLive' /\ UnlockingClear'
    BY <2>1, <2>3, <2>6 DEF HolderLive, PreparingLive, UnlockingClear, Live, Engaged
  <2>10. Guards'
    BY <2>5, <2>7, <2>8, <2>9 DEF Guards
  <2>11. Facts'
    BY <2>1, <2>2, FactsKept, NotReporting DEF store, Facts, CodesKnown, Retrying
  <2> QED
    BY <2>10, <2>11
<1>4. CASE RetryRefuse(c)
  <2>1. Leave(c) /\ UNCHANGED <<store, memory, helper>> /\ pc[c] = "retrying"
    BY <1>4 DEF RetryRefuse
  <2> QED
    BY <2>1, GuardsLeft, FactsLeft DEF Leaving, store, memory, Facts, CodesKnown
<1>5. CASE RetryWrite(c) \/ RecordWrite(c) \/ DraftWrite(c)
  <2>1. /\ Leave(c) /\ UNCHANGED <<memory, helper>>
        /\ pc[c] \in {"unlocking", "recording", "drafting"}
    BY <1>5 DEF RetryWrite, RecordWrite, DraftWrite
  <2>2. (code # 0 => code' # 0) /\ (ob'.code # 0 => code' # 0)
    <3>1. CASE RetryWrite(c)
      BY <3>1, Mine DEF RetryWrite, Obs, Facts, CodesKnown
    <3>2. CASE RecordWrite(c)
      BY <3>2 DEF RecordWrite, Facts, Recorded
    <3>3. CASE DraftWrite(c)
      BY <3>3, Mine DEF DraftWrite, Obs, Facts, CodesKnown
    <3> QED
      BY <1>5, <3>1, <3>2, <3>3
  <2>3. StoreFree' => StoreFree \/ \A d \in Pages : \A i \in Ids : ~Claim(d, i)
    <3>1. CASE RetryWrite(c)
      <4>1. pc[c] = "unlocking" /\ ~HelperDue
        BY <3>1 DEF RetryWrite
      <4>2. batches = <<>>
        BY <4>1 DEF Facts, Retrying
      <4>3. \A d \in Pages : \A i \in Ids : /\ exec[d][i].stage # "running" /\ ~HasMade(d, i)
                                           /\ ~Holds(d, i)
        BY <4>1, <4>2 DEF Facts, Started, HelperDue, HelperRunning, Holds, Holding
      <4>4. \A d \in Pages : \A i \in Ids : ~Live(d, i)
        BY <4>1, <4>3 DEF Guards, UnlockingClear, Unstarted
      <4> QED
        BY <4>3, <4>4 DEF Claim
    <3>2. CASE RecordWrite(c)
      BY <3>2 DEF RecordWrite, Facts, Recorded, StoreFree
    <3>3. CASE DraftWrite(c)
      BY <3>3 DEF DraftWrite, StoreFree, Facts, CodesKnown
    <3> QED
      BY <1>5, <3>1, <3>2, <3>3
  <2> DEFINE place == "idle"
  <2> DEFINE j == NoJob
  <2>4. Goto(c, place, j) /\ place = "idle"
    BY <2>1 DEF Leave
  <2> HIDE DEF place, j
  <2>5. Guards'
    BY <2>1, <2>3, <2>4, GuardsWritten
  <2>6. Facts'
    BY <2>1, <2>2, FactsLeft DEF memory
  <2> QED
    BY <2>5, <2>6
<1> QED
  BY <1>1, <1>2, <1>3, <1>4, <1>5 DEF Correct

(* A helper's run changes while no handler runs.                             *)
LEMMA RunsGuarded ==
    ASSUME Guards, HandlersIdle, UNCHANGED <<store, memory, pc, job>>,
           \A d \in Pages : \A k \in Ids : Claim(d, k)' => Claim(d, k)
    PROVE  Guards'
<1>1. OneClaim'
  BY OneClaimKept DEF Guards
<1>2. HandlersIdle' /\ (StoreFree' => StoreFree)
  BY DEF HandlersIdle, StoreFree, store
<1> QED
  BY <1>1, <1>2, FreeWhenIdle, GuardsIdle

LEMMA RunsFacts ==
    ASSUME Facts, HandlersIdle, UNCHANGED <<store, memory, pc, job>>,
           Started', MadeByRun', (Len(batches) <= 1)'
    PROVE  Facts'
<1>1. CodesKnown' /\ code' = code
  BY DEF Facts, CodesKnown, store
<1>2. Retrying' /\ Reported' /\ Recorded'
  BY DEF HandlersIdle, Retrying, Reported, ReportFits, Reporting, Engaged, Recorded
<1>3. Numbered'
  BY DEF Facts, Numbered, memory
<1> QED
  BY <1>1, <1>2, <1>3 DEF Facts

SetsStage(c, i, s) == exec' = [exec EXCEPT ![c][i].stage = s]

LEMMA StageSet ==
    ASSUME Typed, NEW c \in Pages, NEW i \in Ids, NEW s, SetsStage(c, i, s)
    PROVE  /\ exec'[c][i].stage = s /\ exec'[c][i].batch = exec[c][i].batch
           /\ \A d \in Pages : \A k \in Ids : d # c \/ k # i => exec'[d][k] = exec[d][k]
<1>1. /\ exec \in [Pages -> Execs] /\ exec[c] \in Execs
      /\ exec[c][i] \in [stage : Stages, batch : Codes]
  BY DEF Typed, HelpersTyped, Execs
<1>2. PICK r : r = [exec[c][i] EXCEPT !.stage = s]
  OBVIOUS
<1>3. r.stage = s /\ r.batch = exec[c][i].batch
  BY <1>1, <1>2
<1>4. PICK f : f = [exec[c] EXCEPT ![i] = r]
  OBVIOUS
<1>5. f[i] = r /\ \A k \in Ids : k # i => f[k] = exec[c][k]
  BY <1>1, <1>4 DEF Execs
<1>6. exec' = [exec EXCEPT ![c] = f]
  BY <1>2, <1>4 DEF SetsStage
<1>7. exec'[c] = f /\ \A d \in Pages : d # c => exec'[d] = exec[d]
  BY <1>1, <1>6
<1> QED
  BY <1>3, <1>5, <1>7

LEMMA RunSet ==
    ASSUME Typed, NEW c \in Pages, NEW i \in Ids, NEW r, exec' = [exec EXCEPT ![c][i] = r]
    PROVE  /\ exec'[c][i] = r
           /\ \A d \in Pages : \A k \in Ids : d # c \/ k # i => exec'[d][k] = exec[d][k]
  BY DEF Typed, HelpersTyped, Execs

LEMMA HelperGuarded ==
    ASSUME Typed, Guards, Facts, PromptHandlers, NEW c \in Pages, Helper(c), ~unblocked'
    PROVE  Guards' /\ Facts'
<1>1. CASE HelperStart(c)
  <2>1. PICK i \in Ids : i = job[c].id
    BY <1>1, Mine DEF HelperStart, Named
  <2>2. /\ HandlersIdle /\ UNCHANGED <<store, memory, pc, job, batches>>
        /\ pc[c] = "waiting" /\ exec' = [exec EXCEPT ![c][i].stage = "running"]
        /\ exec[c][i].stage = "none"
    BY <1>1, <2>1 DEF HelperStart, Slow
  <2>3. /\ exec'[c][i].stage = "running"
        /\ \A d \in Pages : \A k \in Ids : d # c \/ k # i => exec'[d][k] = exec[d][k]
    <3>1. SetsStage(c, i, "running")
      BY <2>2 DEF SetsStage
    <3> QED
      BY <3>1, StageSet
  <2>4. Claim(c, i)
    BY <2>1, <2>2 DEF Claim, Holds, Holding
  <2>5. \A d \in Pages : \A k \in Ids : Claim(d, k)' => Claim(d, k)
    BY <2>2, <2>3, <2>4 DEF Claim, HasMade, Holds, Live, memory
  <2>6. Guards'
    BY <2>2, <2>5, RunsGuarded
  <2>7. i <= issued
    BY <2>1, <2>2 DEF Facts, Numbered
  <2>8. Started' /\ MadeByRun'
    BY <2>2, <2>3, <2>7 DEF Facts, Started, MadeByRun, HasMade, Made, memory
  <2>9. Facts'
    BY <2>2, <2>8, RunsFacts DEF Facts
  <2> QED
    BY <2>6, <2>9
<1>2. ASSUME NEW i \in Ids, HelperSubmit(c, i) PROVE Guards' /\ Facts'
  <2> DEFINE r == [stage |-> "submitted", batch |-> Len(batches')]
  <2>1. /\ HandlersIdle /\ UNCHANGED <<store, memory, pc, job>>
        /\ exec[c][i].stage = "running" /\ batches' = Append(batches, i)
        /\ exec' = [exec EXCEPT ![c][i] = r]
    BY <1>2 DEF HelperSubmit, Slow
  <2>2. r.stage = "submitted" /\ r.batch = Len(batches')
    OBVIOUS
  <2>3. PICK q : q = r
    OBVIOUS
  <2>4. q.stage = "submitted" /\ q.batch = Len(batches') /\ exec' = [exec EXCEPT ![c][i] = q]
    BY <2>1, <2>2, <2>3
  <2> HIDE DEF r
  <2>5. /\ exec'[c][i] = q
        /\ \A d \in Pages : \A k \in Ids : d # c \/ k # i => exec'[d][k] = exec[d][k]
    BY <2>4, RunSet
  <2>6. Claim(c, i) /\ ~HasMade(c, i)
    BY <2>1 DEF Claim, HasMade, Made
  <2>7. \A d \in Pages : \A k \in Ids : Claim(d, k)' => Claim(d, k)
    BY <2>1, <2>5, <2>6 DEF Claim, HasMade, Holds, Live, memory
  <2>8. Guards'
    BY <2>1, <2>7, RunsGuarded
  <2>9. batches = <<>>
    <3>1. \A d \in Pages : \A k \in Ids : Claim(d, k) => d = c /\ k = i
      BY <2>6 DEF Guards, OneClaim
    <3>2. \A d \in Pages : \A k \in Ids : ~HasMade(d, k)
      BY <2>6, <3>1 DEF Claim
    <3> QED
      BY <3>2 DEF Facts, MadeByRun
  <2>10. Len(batches') = 1 /\ batches' # <<>>
    BY <2>1, <2>9
  <2>11. HasMade(c, i)'
    BY <2>4, <2>5 DEF HasMade, Made
  <2>12. MadeByRun'
    BY <2>11 DEF MadeByRun
  <2>13. i <= issued /\ issued' = issued
    BY <2>1 DEF Facts, Started, memory
  <2>14. Started'
    BY <2>1, <2>4, <2>5, <2>10, <2>13 DEF Facts, Started, HasMade
  <2>15. Facts'
    BY <2>1, <2>10, <2>12, <2>14, RunsFacts
  <2> QED
    BY <2>8, <2>15
<1>3. ASSUME NEW i \in Ids, HelperRefuse(c, i) \/ HelperAnswer(c, i) PROVE Guards' /\ Facts'
  <2>1. PICK final \in Finals :
          /\ HandlersIdle /\ UNCHANGED <<store, memory, pc, job, batches>>
          /\ exec' = [exec EXCEPT ![c][i].stage = final]
          /\ \/ exec[c][i].stage = "running" /\ final = "failed"
             \/ exec[c][i].stage = "submitted" /\ final \in Made
    BY <1>3 DEF HelperRefuse, HelperAnswer, Finals, Slow, Made
  <2>2. /\ exec'[c][i].stage = final /\ exec'[c][i].batch = exec[c][i].batch
        /\ \A d \in Pages : \A k \in Ids : d # c \/ k # i => exec'[d][k] = exec[d][k]
    <3>1. SetsStage(c, i, final)
      BY <2>1 DEF SetsStage
    <3> QED
      BY <3>1, StageSet
  <2>3. Claim(c, i)
    BY <2>1 DEF Claim, HasMade, Made
  <2>4. \A d \in Pages : \A k \in Ids : Claim(d, k)' => Claim(d, k)
    BY <2>1, <2>2, <2>3 DEF Claim, HasMade, Holds, Live, memory
  <2>5. Guards'
    BY <2>1, <2>4, RunsGuarded
  <2>6. Started'
    BY <2>1, <2>2 DEF Facts, Started, HasMade, Made, memory
  <2>7. \A d \in Pages : \A k \in Ids : HasMade(d, k) => HasMade(d, k)'
    BY <2>1, <2>2 DEF HasMade, Made
  <2>8. MadeByRun'
    BY <2>1, <2>7 DEF Facts, MadeByRun
  <2>9. Facts'
    BY <2>1, <2>6, <2>8, RunsFacts DEF Facts
  <2> QED
    BY <2>5, <2>9
<1>4. ASSUME NEW i \in Ids, HelperLookupFails(c, i) PROVE FALSE
  BY <1>4 DEF HelperLookupFails
<1> QED
  BY <1>1, <1>2, <1>3, <1>4 DEF Helper

(* A preparation that expires, or dies with the server, leaves its claim to  *)
(* the run it started, if it started one.                                    *)
LEMMA ExpiryGuarded ==
    ASSUME Guards, Facts, PromptHandlers, PreparationExpires
    PROVE  Guards' /\ Facts'
<1>1. /\ HandlersIdle /\ preparations' \subseteq preparations
      /\ UNCHANGED <<store, issued, inFlight, pc, job, helper>>
  BY DEF PreparationExpires, Slow
<1>2. \A d \in Pages : \A k \in Ids : Claim(d, k)' => Claim(d, k)
  BY <1>1 DEF Claim, HasMade, Holds, Live, helper
<1>3. OneClaim'
  BY <1>2, OneClaimKept DEF Guards
<1>4. HandlersIdle' /\ (StoreFree' => StoreFree)
  BY <1>1 DEF HandlersIdle, StoreFree, store
<1>5. Guards'
  BY <1>1, <1>2, <1>3, <1>4, FreeWhenIdle, GuardsIdle
<1>6. CodesKnown' /\ Retrying' /\ Recorded' /\ Numbered' /\ Started' /\ MadeByRun'
  BY <1>1 DEF Facts, CodesKnown, Retrying, Recorded, Numbered, Started, MadeByRun, HasMade,
              store, helper
<1>7. Reported' /\ (Len(batches) <= 1)'
  BY <1>1 DEF Facts, Reported, ReportFits, helper
<1> QED
  BY <1>5, <1>6, <1>7 DEF Facts

LEMMA RestartGuarded ==
    ASSUME Guards, Facts, ServerRestart
    PROVE  Guards' /\ Facts'
<1>1. /\ preparations' = {} /\ UNCHANGED <<store, issued, helper>>
      /\ \A d \in Pages : /\ pc'[d] = (IF pc[d] = "waiting" THEN "waiting" ELSE "idle")
                          /\ job'[d] = (IF pc[d] = "waiting" THEN job[d] ELSE NoJob)
  BY DEF ServerRestart
<1>2. \A d \in Pages : \/ pc'[d] = "waiting" /\ pc[d] = "waiting" /\ job'[d] = job[d]
                       \/ pc'[d] = "idle" /\ job'[d] = NoJob
  BY <1>1
<1>3. code' = code /\ ob' = ob /\ issued' = issued /\ exec' = exec /\ batches' = batches
  BY <1>1 DEF store, helper
<1>4. \A d \in Pages : \A k \in Ids : Claim(d, k)' => Claim(d, k)
  BY <1>1, <1>2, <1>3 DEF Claim, HasMade, Holds, Holding, Live
<1>5. OneClaim'
  BY <1>4, OneClaimKept DEF Guards
<1>6. HandlersIdle'
  BY <1>2 DEF HandlersIdle
<1>7. ASSUME StoreFree', NEW d \in Pages, NEW k \in Ids, Claim(d, k)' PROVE FALSE
  <2>1. StoreFree /\ Claim(d, k)
    BY <1>3, <1>4, <1>7 DEF StoreFree
  <2>2. pc[d] = "preparing" /\ job[d].id = k
    BY <2>1 DEF Guards, StoreGuards, Holds
  <2>3. exec[d][k].stage = "none"
    BY <2>2 DEF Guards, PreparingLive, Unstarted
  <2>4. pc'[d] = "idle"
    BY <1>2, <2>2
  <2> QED
    BY <1>1, <1>3, <1>7, <2>3, <2>4 DEF Claim, HasMade, Made, Holds, Holding, Live
<1>8. Guards'
  BY <1>5, <1>6, <1>7, GuardsIdle
<1>9. CodesKnown'
  <2>1. NoJob.ob.code = 0
    BY DEF NoJob
  <2> QED
    BY <1>2, <1>3, <2>1 DEF Facts, CodesKnown
<1>10. Retrying' /\ Recorded' /\ Numbered' /\ Started' /\ MadeByRun' /\ (Len(batches) <= 1)'
  BY <1>1, <1>2, <1>3 DEF Facts, Retrying, Recorded, Numbered, Started, MadeByRun, HasMade
<1>11. Reported'
  BY <1>2 DEF Reported, ReportFits, Reporting, Engaged
<1> QED
  BY <1>8, <1>9, <1>10, <1>11 DEF Facts

LEMMA GuardedInit == Init => Guarded
<1> SUFFICES ASSUME Init PROVE Guards /\ Facts
  BY DEF Guarded
<1>1. /\ code = 0 /\ ob.code = 0 /\ preparations = {} /\ batches = <<>>
      /\ \A c \in Pages : pc[c] = "idle" /\ job[c].ob.code = 0
      /\ \A c \in Pages : \A i \in Ids : exec[c][i].stage = "none"
  BY DEF Init, NoJob, NoExec
<1>2. \A c \in Pages : \A i \in Ids : ~Claim(c, i)
  BY <1>1 DEF Claim, HasMade, Made, Holds, Holding, Live
<1>3. Guards
  BY <1>1, <1>2 DEF Guards, OneClaim, StoreGuards, ReadersGuarded, HolderLive, PreparingLive,
                    UnlockingClear, Engaged
<1>4. CodesKnown /\ Retrying /\ Recorded /\ Numbered /\ Started /\ MadeByRun /\ Len(batches) <= 1
  BY <1>1 DEF CodesKnown, Retrying, Recorded, Numbered, Started, MadeByRun, HasMade, Made
<1>5. Reported
  BY <1>1 DEF Reported, ReportFits, Reporting, Engaged
<1> QED
  BY <1>3, <1>4, <1>5 DEF Facts

(* What was unblocked too early stays so.                                    *)
LEMMA UnblockedStays == ASSUME [Next]_vars, unblocked PROVE unblocked'
<1>1. ASSUME NEW c \in Pages, Create(c) \/ Helper(c) PROVE unblocked'
  BY <1>1 DEF Create, CreateRead, CreateJoin, CreatePrepare, CreateRefuse, CreateCommit,
              CreateCommitFails, LeavePage, Helper, HelperStart, HelperSubmit, HelperRefuse,
              HelperAnswer, HelperLookupFails
<1>2. ASSUME NEW c \in Pages, Complete(c) PROVE unblocked'
  BY <1>2 DEF Complete, CompleteRead, Timeout, CompleteAcquire, CompleteRefuse, CompleteMark,
              CompleteMarkFails, CompleteRefetch, CompleteStore, CompleteStoreFails,
              CompleteFail, CompleteFailFails, Finish
<1>3. ASSUME NEW c \in Pages, Correct(c) PROVE unblocked'
  BY <1>3 DEF Correct, RetryRead, RetryUnlock, RetryRefuse, RetryWrite, RecordRead, RecordWrite,
              DraftRead, DraftWrite
<1>4. CASE PreparationExpires \/ ServerRestart \/ UNCHANGED vars
  BY <1>4 DEF PreparationExpires, ServerRestart, vars
<1> QED
  BY <1>1, <1>2, <1>3, <1>4 DEF Next

LEMMA GuardedStep ==
    ASSUME Typed, Guarded, PromptHandlers, OneAccountEach, [Next]_vars
    PROVE  Guarded'
<1> SUFFICES ASSUME ~unblocked' PROVE Guards' /\ Facts'
  BY DEF Guarded
<1>1. Guards /\ Facts
  BY UnblockedStays DEF Guarded
<1>2. CASE UNCHANGED vars
  <2>1. /\ code' = code /\ ob' = ob /\ preparations' = preparations /\ issued' = issued
        /\ inFlight' = inFlight /\ pc' = pc /\ job' = job /\ exec' = exec /\ batches' = batches
    BY <1>2 DEF vars, store, memory, helper
  <2>2. /\ \A d \in Pages : \A k \in Ids : Claim(d, k)' => Claim(d, k)
        /\ \A d \in Pages : \A k \in Ids : Unstarted(d, k) => Unstarted(d, k)'
    BY <2>1 DEF Claim, Unstarted, HasMade, Holds, Live
  <2>3. PreparingLive' /\ HolderLive'
    BY <1>1, <2>1 DEF Guards, PreparingLive, HolderLive, Unstarted, Holds, Live
  <2>4. OneClaim' /\ StoreGuards'
    BY <1>1, <2>1, <2>2, OneClaimKept DEF Guards, StoreGuards, StoreFree, Holds
  <2>5. ReadersGuarded' /\ UnlockingClear'
    BY <1>1, <2>1, <2>2
       DEF Guards, ReadersGuarded, ReadFree, KnownCode, UnlockingClear, Live
  <2>6. Guards'
    BY <2>3, <2>4, <2>5 DEF Guards
  <2>7. Facts'
    BY <1>1, <2>1 DEF Facts, CodesKnown, Retrying, Reported, ReportFits, Recorded, Started,
                      Numbered, MadeByRun, HasMade
  <2> QED
    BY <2>6, <2>7
<1> QED
  BY <1>1, <1>2, CreateGuarded, HelperGuarded, CompleteGuarded, CorrectGuarded, ExpiryGuarded,
     RestartGuarded DEF Next

LEMMA GuardedCreatesOnce == Typed /\ Guarded => CreatedOnce
<1> SUFFICES ASSUME Typed, Guards, Facts PROVE
             /\ CreationOpen => batches = <<>> /\ ~HelperRunning
                                /\ \A c \in Pages : pc[c] # "waiting"
             /\ Len(batches) <= 1
  BY DEF Guarded, CreatedOnce
<1>1. ASSUME CreationOpen PROVE \A c \in Pages : \A i \in Ids : ~Claim(c, i)
  BY <1>1, FreeWhenIdle DEF CreationOpen, StoreFree
<1>2. ASSUME CreationOpen PROVE batches = <<>> /\ ~HelperRunning
  BY <1>1, <1>2 DEF Facts, MadeByRun, HelperRunning, Claim, HasMade, Made
<1>3. ASSUME CreationOpen, NEW c \in Pages PROVE pc[c] # "waiting"
  BY <1>1, <1>3, Mine DEF Named, Claim, Holds, Holding
<1> QED
  BY <1>2, <1>3 DEF Facts

(* Unless creation was allowed again too early, a click on "create" is       *)
(* accepted only while the console has no batch of the project and nothing   *)
(* is about to make one, so there is one batch at most, whatever is lost,    *)
(* closed, expired or restarted: for any number of pages, each with its own  *)
(* account, when no helper or deadline overtakes a handler in progress.      *)
THEOREM CreatedOnceHolds ==
    ASSUME PromptHandlers, OneAccountEach
    PROVE  Spec => []CreatedOnce
<1>1. Init => Typed /\ Guarded
  BY TypedInit, GuardedInit
<1>2. Typed /\ Guarded /\ [Next]_vars => (Typed /\ Guarded)'
  BY TypedStep, GuardedStep
<1> QED
  BY <1>1, <1>2, GuardedCreatesOnce, PTL DEF Spec

=============================================================================
