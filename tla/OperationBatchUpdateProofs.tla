--------------------- MODULE OperationBatchUpdateProofs ---------------------
(* What holds of OperationBatchUpdate for any pages, bounds and hazards:     *)
(* types, one helper that writes at a time, a managed snapshot that was on   *)
(* the console's page, failures that saved nothing, and no change overwritten*)
(* that the operator was not shown.                                          *)
EXTENDS OperationBatchUpdate, FiniteSetTheorems, TLAPS

Places == {"idle", "inspecting", "inspected", "previewing", "confirming", "asked", "preparing",
           "starting", "updating", "completing"}
InspectingPlaces == {"inspecting", "inspected", "previewing"}
Tokened == {"confirming", "asked", "preparing", "starting", "updating", "completing"}
Jobs == [version : 0..MaxEdits, desired : Snapshots, services : BOOLEAN, inspected : Snapshots,
         token : 0..MaxPreviews, ob : Obs]
Runs == [stage : {"none", "saving", "saved", "failed", "answered"}, desired : Snapshots,
         expected : Snapshots, done : SUBSET Parts, after : Snapshots, disturbed : BOOLEAN]

WorldTyped == desired \in [Parts -> Asked] /\ version \in 0..MaxEdits /\ console \in Snapshots
StoreTyped ==
    ob \in Obs /\ previews \subseteq Pages /\ preparations \subseteq Ids /\ lost \subseteq Ids
    /\ abandoned \subseteq Ids
PagesTyped ==
    /\ pc \in [Pages -> Places] /\ job \in [Pages -> Jobs]
    /\ \A c \in Pages : pc[c] \in Tokened => job[c].token \in Ids /\ job[c].token <= bound.previews
RunsTyped == run \in [Ids -> Runs]
(* Every inspection has a preview left to end in.                            *)
BoundTyped ==
    /\ bound \in [hands : 0..MaxHandChanges, previews : 0..MaxPreviews]
    /\ bound.previews + Cardinality(Inspecting) <= MaxPreviews
Typed == WorldTyped /\ StoreTyped /\ PagesTyped /\ RunsTyped /\ BoundTyped

LEMMA TypedIsTypeOK == Typed => TypeOK
  BY DEF Typed, TypeOK, WorldTyped, StoreTyped, PagesTyped, RunsTyped, BoundTyped, Places, Jobs,
         Runs

LEMMA Numbers ==
    /\ MaxPreviews \in Nat /\ MaxEdits \in Nat /\ MaxHandChanges \in Nat
    /\ IsFiniteSet(Pages) /\ Ids \subseteq 0..MaxPreviews /\ Ids \subseteq Nat
  BY UpdateAssumption DEF Ids

LEMMA Blank ==
    /\ Nothing \in Snapshots /\ NoPreview \in Previews /\ NoJob.ob \in Obs /\ NoJob \in Jobs
    /\ NoRun \in Runs
<1>1. Nothing \in Snapshots
  BY DEF Nothing, Snapshots, Foreign
<1>2. NoPreview \in Previews
  BY <1>1, Numbers DEF NoPreview, Previews
<1>3. [i \in Ids |-> "none"] \in Attempts
  BY DEF Attempts
<1>4. NoJob.ob \in Obs
  BY <1>1, <1>2, <1>3 DEF NoJob, Obs, Statuses
<1>5. NoJob \in Jobs
  BY <1>1, <1>4, Numbers DEF NoJob, Jobs
<1>6. NoRun \in Runs
  BY <1>1 DEF NoRun, Runs
<1> QED
  BY <1>1, <1>2, <1>4, <1>5, <1>6

LEMMA TypedInit == Init => Typed
<1> SUFFICES ASSUME Init PROVE Typed
  OBVIOUS
<1>1. desired \in [Parts -> Asked] /\ desired \in Snapshots
  BY DEF Init, Asked, Snapshots, Foreign
<1>2. [desired EXCEPT !.services = 0] \in Snapshots /\ [desired EXCEPT !.schedules = 0] \in Snapshots
  BY <1>1 DEF Snapshots, Foreign, Parts
<1>3. WorldTyped
  BY <1>1, <1>2, Numbers DEF Init, WorldTyped
<1>4. ob \in Obs
  <2>1. PICK known \in Snapshots : ob = [NoJob.ob EXCEPT !.managed = known]
    BY <1>1, <1>2, Blank DEF Init
  <2>2. PICK o \in Obs : o = NoJob.ob
    BY Blank
  <2>3. [o EXCEPT !.managed = known] \in Obs
    BY DEF Obs
  <2> QED
    BY <2>1, <2>2, <2>3
<1>5. StoreTyped
  BY <1>4 DEF Init, StoreTyped
<1>6. PagesTyped
  BY Blank DEF Init, PagesTyped, Places, Tokened
<1>7. RunsTyped
  BY Blank DEF Init, RunsTyped
<1>8. BoundTyped
  <2>1. Inspecting = {}
    BY DEF Init, Inspecting
  <2>2. Cardinality(Inspecting) = 0
    BY <2>1, FS_EmptySet
  <2> QED
    BY <2>2, Numbers DEF Init, BoundTyped
<1> QED
  BY <1>3, <1>5, <1>6, <1>7, <1>8 DEF Typed

LEMMA Moves ==
    ASSUME Typed, NEW c \in Pages, NEW place, NEW j, Goto(c, place, j)
    PROVE  /\ pc'[c] = place /\ job'[c] = j
           /\ \A d \in Pages : d # c => pc'[d] = pc[d] /\ job'[d] = job[d]
  BY DEF Goto, Typed, PagesTyped

LEMMA Mine ==
    ASSUME Typed, NEW c \in Pages
    PROVE  /\ job[c] \in Jobs /\ pc[c] \in Places /\ job[c].ob \in Obs
           /\ job[c].inspected \in Snapshots /\ job[c].desired \in Snapshots
           /\ pc[c] \in Tokened => job[c].token \in Ids /\ job[c].token <= bound.previews
           /\ Read(c) \in Jobs /\ Read(c).ob = ob /\ Read(c).token = job[c].token
           /\ Read(c).inspected = job[c].inspected
<1>1. job[c] \in Jobs /\ pc[c] \in Places
  BY DEF Typed, PagesTyped
<1>2. pc[c] \in Tokened => job[c].token \in Ids /\ job[c].token <= bound.previews
  BY DEF Typed, PagesTyped
<1>3. desired \in Snapshots /\ version \in 0..MaxEdits /\ ob \in Obs
  BY DEF Typed, WorldTyped, StoreTyped, Snapshots, Asked, Foreign
<1>4. /\ Read(c) \in Jobs /\ Read(c).ob = ob /\ Read(c).token = job[c].token
      /\ Read(c).inspected = job[c].inspected
  BY <1>1, <1>3 DEF Read, Jobs
<1>5. job[c].ob \in Obs /\ job[c].inspected \in Snapshots /\ job[c].desired \in Snapshots
  BY <1>1 DEF Jobs
<1> QED
  BY <1>1, <1>2, <1>4, <1>5

LEMMA Services ==
    ASSUME NEW s \in Snapshots, NEW m \in Snapshots
    PROVE  WithService(s, m) \in Snapshots /\ Visible(WithService(s, m)) = Visible(s)
<1>1. WithService(s, m) \in Snapshots
  BY DEF WithService, Snapshots, Parts, Foreign
<1>2. \A p \in Parts \ {"services"} : WithService(s, m)[p] = s[p]
  BY DEF WithService, Snapshots, Parts
<1> QED
  BY <1>1, <1>2 DEF Visible

(* Inspections end, or go on; only a new one needs room for its preview.     *)
LEMMA BoundKept ==
    ASSUME Typed, NEW c \in Pages, NEW place, NEW j, Goto(c, place, j), UNCHANGED bound,
           place \in InspectingPlaces => pc[c] \in InspectingPlaces
    PROVE  BoundTyped'
<1>1. /\ pc'[c] = place
      /\ \A d \in Pages : d # c => pc'[d] = pc[d]
  BY Moves
<1>2. Inspecting' \subseteq Inspecting
  BY <1>1 DEF Inspecting, InspectingPlaces
<1>3. IsFiniteSet(Inspecting)
  <2>1. Inspecting \subseteq Pages
    BY DEF Inspecting
  <2> QED
    BY <2>1, Numbers, FS_Subset
<1>4. /\ Cardinality(Inspecting') <= Cardinality(Inspecting)
      /\ Cardinality(Inspecting) \in Nat /\ Cardinality(Inspecting') \in Nat
  BY <1>2, <1>3, FS_Subset, FS_CardinalityType
<1> QED
  BY <1>4, Numbers DEF Typed, BoundTyped

(* A page moves on.                                                          *)
LEMMA MovedOn ==
    ASSUME Typed, NEW c \in Pages, NEW place \in Places, NEW j \in Jobs, Goto(c, place, j),
           place \in Tokened => j.token \in Ids /\ j.token <= bound'.previews,
           bound.previews <= bound'.previews,
           UNCHANGED <<desired, version, console>>, StoreTyped', RunsTyped', BoundTyped'
    PROVE  Typed'
<1>1. WorldTyped'
  BY DEF Typed, WorldTyped
<1>2. \A d \in Pages : pc[d] \in Tokened => job[d].token \in Nat
  BY Numbers DEF Typed, PagesTyped
<1>3. bound.previews \in Nat /\ bound'.previews \in Nat
  BY Numbers DEF Typed, BoundTyped
<1>4. PagesTyped'
  BY <1>2, <1>3 DEF Typed, PagesTyped, Goto
<1> QED
  BY <1>1, <1>4 DEF Typed

LEMMA MovedBack ==
    ASSUME Typed, NEW c \in Pages, Leave(c), bound' = bound,
           UNCHANGED <<desired, version, console>>, StoreTyped', RunsTyped'
    PROVE  Typed'
<1> DEFINE place == "idle"
<1> DEFINE j == NoJob
<1>1. /\ Goto(c, place, j) /\ place \in Places /\ j \in Jobs
      /\ place \notin Tokened /\ place \notin InspectingPlaces
  BY Blank DEF Leave, Places, Tokened, InspectingPlaces
<1>2. bound.previews <= bound'.previews
  BY Numbers DEF Typed, BoundTyped
<1> HIDE DEF place, j
<1>3. BoundTyped'
  BY <1>1, BoundKept
<1> QED
  BY <1>1, <1>2, <1>3, MovedOn

(* What only reads keeps the types of the rest.                              *)
LEMMA Untouched ==
    ASSUME Typed
    PROVE  /\ UNCHANGED <<ob, memory, lost, abandoned>> => StoreTyped'
           /\ UNCHANGED run => RunsTyped'
           /\ UNCHANGED bound => bound.previews <= bound'.previews
<1>1. UNCHANGED <<ob, memory, lost, abandoned>> => StoreTyped'
  BY DEF Typed, StoreTyped, memory
<1>2. UNCHANGED run => RunsTyped'
  BY DEF Typed, RunsTyped
<1>3. UNCHANGED bound => bound.previews <= bound'.previews
  BY Numbers DEF Typed, BoundTyped
<1> QED
  BY <1>1, <1>2, <1>3

LEMMA WriteTyped ==
    ASSUME Typed, NEW c \in Pages, NEW w \in Obs, Write(c, w), UNCHANGED <<previews, abandoned>>,
           preparations' \subseteq preparations
    PROVE  StoreTyped' /\ ob' = w
  BY DEF Write, Typed, StoreTyped

LEMMA PreviewTyped == ASSUME Typed, NEW c \in Pages, Preview(c) PROVE Typed'
<1>1. CASE PreviewPrepare(c)
  <2>1. PICK services \in BOOLEAN :
          Goto(c, "inspecting", [NoJob EXCEPT !.version = version, !.desired = desired,
                                              !.services = services])
    <3> DEFINE s == \/ ob.managed = Nothing
                    \/ "services" \in Diff(ob.managed, desired)
    <3>1. s \in BOOLEAN
      OBVIOUS
    <3>2. PICK b \in BOOLEAN : b = s
      BY <3>1
    <3> QED
      BY <1>1, <3>2 DEF PreviewPrepare
  <2>2. PICK k \in Jobs : k = NoJob
    BY Blank
  <2> DEFINE j == [k EXCEPT !.version = version, !.desired = desired, !.services = services]
  <2> DEFINE place == "inspecting"
  <2>3. desired \in Snapshots /\ version \in 0..MaxEdits
    BY DEF Typed, WorldTyped, Snapshots, Asked, Foreign
  <2>4. j \in Jobs
    BY <2>3 DEF Jobs
  <2>5. Goto(c, place, j) /\ place \in Places /\ place \notin Tokened /\ place = "inspecting"
    BY <2>1, <2>2 DEF Places, Tokened
  <2> HIDE DEF j, place
  <2>6. Inspecting' = Inspecting \cup {c} /\ c \notin Inspecting
    <3>1. pc'[c] = place /\ \A d \in Pages : d # c => pc'[d] = pc[d]
      BY <2>5, Moves
    <3> QED
      BY <1>1, <2>5, <3>1 DEF PreviewPrepare, Inspecting
  <2>7. IsFiniteSet(Inspecting)
    <3>1. Inspecting \subseteq Pages
      BY DEF Inspecting
    <3> QED
      BY <3>1, Numbers, FS_Subset
  <2>8. Cardinality(Inspecting') = Cardinality(Inspecting) + 1 /\ Cardinality(Inspecting) \in Nat
    BY <2>6, <2>7, FS_AddElement, FS_CardinalityType
  <2>9. bound' = bound /\ bound.previews + Cardinality(Inspecting) < MaxPreviews
    BY <1>1 DEF PreviewPrepare
  <2>10. BoundTyped'
    BY <2>8, <2>9, Numbers DEF Typed, BoundTyped
  <2>11. StoreTyped'
    BY <1>1 DEF PreviewPrepare, task, history, Typed, StoreTyped
  <2> QED
    BY <1>1, <2>4, <2>5, <2>9, <2>10, <2>11, Untouched, MovedOn DEF PreviewPrepare, task
<1>2. CASE Inspect(c)
  <2> DEFINE seen == [console EXCEPT !.services = IF job[c].services THEN @ ELSE 0]
  <2> DEFINE j == [job[c] EXCEPT !.inspected = seen]
  <2> DEFINE place == "inspected"
  <2>1. seen \in Snapshots
    BY DEF Typed, WorldTyped, Snapshots, Parts, Foreign
  <2> HIDE DEF seen
  <2>2. j \in Jobs
    BY <2>1, Mine DEF Jobs
  <2>3. /\ Goto(c, place, j) /\ place \in Places /\ place \notin Tokened
        /\ pc[c] \in InspectingPlaces
    BY <1>2 DEF Inspect, Places, Tokened, InspectingPlaces, seen
  <2> HIDE DEF j, place
  <2>4. BoundTyped'
    BY <1>2, <2>3, BoundKept DEF Inspect
  <2> QED
    BY <1>2, <2>2, <2>3, <2>4, Untouched, MovedOn DEF Inspect, task, memory, history
<1>3. CASE PreviewRead(c)
  <2> DEFINE seen == WithService(job[c].inspected, ob.managed)
  <2> DEFINE j == [Read(c) EXCEPT !.inspected = seen]
  <2> DEFINE place == "previewing"
  <2>1. ob.managed \in Snapshots
    BY DEF Typed, StoreTyped, Obs
  <2>2. seen \in Snapshots
    BY <2>1, Mine, Services
  <2>3. Goto(c, place, j)
    <3>1. Goto(c, place, [Read(c) EXCEPT !.inspected = WithService(Read(c).inspected, ob.managed)])
      BY <1>3 DEF PreviewRead
    <3> QED
      BY <3>1, Mine
  <2> HIDE DEF seen
  <2>4. j \in Jobs
    BY <2>2, Mine DEF Jobs
  <2>5. place \in Places /\ place \notin Tokened /\ pc[c] \in InspectingPlaces
    BY <1>3 DEF PreviewRead, Places, Tokened, InspectingPlaces
  <2> HIDE DEF j, place
  <2>6. BoundTyped'
    BY <1>3, <2>3, <2>5, BoundKept DEF PreviewRead
  <2>7. StoreTyped'
    BY <1>3 DEF PreviewRead, task, history, Typed, StoreTyped
  <2> QED
    BY <1>3, <2>3, <2>4, <2>5, <2>6, <2>7, Untouched, MovedOn DEF PreviewRead, task
<1>4. CASE PreviewRefuse(c)
  <2>1. StoreTyped'
    BY <1>4 DEF PreviewRefuse, task, history, Typed, StoreTyped
  <2> QED
    BY <1>4, <2>1, Untouched, MovedBack DEF PreviewRefuse, task
<1>5. CASE PreviewAligned(c)
  <2>1. PICK managed \in Snapshots :
          Write(c, [job[c].ob EXCEPT !.status = "success", !.preview = NoPreview,
                                     !.managed = managed])
    <3>1. PICK m : /\ m \in {job[c].inspected, job[c].ob.managed}
                   /\ Write(c, [job[c].ob EXCEPT !.status = "success", !.preview = NoPreview,
                                                 !.managed = m])
      BY <1>5 DEF PreviewAligned
    <3>2. m \in Snapshots
      BY <3>1, Mine DEF Obs
    <3> QED
      BY <3>1, <3>2
  <2>2. PICK w \in Obs : Write(c, w)
    <3>1. [job[c].ob EXCEPT !.status = "success", !.preview = NoPreview, !.managed = managed] \in Obs
      BY Mine, Blank DEF Obs, Statuses
    <3> QED
      BY <2>1, <3>1
  <2>3. StoreTyped'
    BY <1>5, <2>2, WriteTyped DEF PreviewAligned, memory
  <2> QED
    BY <1>5, <2>3, Untouched, MovedBack DEF PreviewAligned
<1>6. CASE PreviewOffer(c)
  <2>1. PICK token : token = bound.previews + 1
    OBVIOUS
  <2>2. /\ pc[c] = "previewing" /\ bound' = [bound EXCEPT !.previews = token]
        /\ Goto(c, "confirming", [NoJob EXCEPT !.token = token])
    BY <1>6, <2>1 DEF PreviewOffer
  <2> DEFINE place == "confirming"
  <2> DEFINE j == [NoJob EXCEPT !.token = token]
  <2>3. pc'[c] = "confirming" /\ \A d \in Pages : d # c => pc'[d] = pc[d]
    BY <2>2, Moves
  <2>4. Inspecting' = Inspecting \ {c} /\ c \in Inspecting
    BY <2>2, <2>3 DEF Inspecting
  <2>5. IsFiniteSet(Inspecting)
    <3>1. Inspecting \subseteq Pages
      BY DEF Inspecting
    <3> QED
      BY <3>1, Numbers, FS_Subset
  <2>6. /\ Cardinality(Inspecting') = Cardinality(Inspecting) - 1
        /\ Cardinality(Inspecting) \in Nat /\ Cardinality(Inspecting') \in Nat
    <3>1. IsFiniteSet(Inspecting')
      BY <2>4, <2>5, FS_Subset
    <3> QED
      BY <2>4, <2>5, <3>1, FS_RemoveElement, FS_CardinalityType
  <2>7. /\ token \in Ids /\ bound'.previews = token /\ bound.previews \in Nat
        /\ BoundTyped'
    BY <2>1, <2>2, <2>6, Numbers DEF Typed, BoundTyped, Ids
  <2>8. PICK w \in Obs : Write(c, w)
    <3> DEFINE preview == [token |-> token, version |-> job[c].version,
                           desired |-> job[c].desired, inspected |-> job[c].inspected]
    <3>1. preview \in Previews
      BY <2>7, Mine, Numbers DEF Previews, Jobs
    <3>2. Write(c, [job[c].ob EXCEPT !.status = "update_available", !.preview = preview])
      BY <1>6, <2>1 DEF PreviewOffer
    <3> HIDE DEF preview
    <3>3. [job[c].ob EXCEPT !.status = "update_available", !.preview = preview] \in Obs
      BY <3>1, Mine DEF Obs, Statuses
    <3> QED
      BY <3>2, <3>3
  <2>9. StoreTyped'
    BY <1>6, <2>8, WriteTyped DEF PreviewOffer, memory
  <2>10. PICK k \in Jobs : k = NoJob
    BY Blank
  <2>11. /\ j \in Jobs /\ j.token = token
    BY <2>7, <2>10, Numbers DEF Jobs
  <2>12. Goto(c, place, j) /\ place \in Places
    BY <2>2 DEF Places
  <2>13. bound.previews <= bound'.previews /\ token <= bound'.previews
    BY <2>1, <2>7
  <2> HIDE DEF place, j
  <2> QED
    BY <1>6, <2>7, <2>9, <2>11, <2>12, <2>13, Untouched, MovedOn DEF PreviewOffer
<1> QED
  BY <1>1, <1>2, <1>3, <1>4, <1>5, <1>6 DEF Preview

LEMMA UpdateTyped == ASSUME Typed, NEW c \in Pages, Update(c) PROVE Typed'
<1>1. CASE UpdateAsk(c) \/ UpdateRead(c)
  <2>1. PICK place \in {"asked", "preparing"}, j \in {job[c], Read(c)} :
          Goto(c, place, j) /\ UNCHANGED <<task, memory, run, console, bound, history>>
    BY <1>1 DEF UpdateAsk, UpdateRead
  <2>2. /\ j \in Jobs /\ j.token = job[c].token /\ place \in Places /\ place \notin InspectingPlaces
        /\ pc[c] \in Tokened
    BY <1>1, <2>1, Mine DEF UpdateAsk, UpdateRead, Places, InspectingPlaces, Tokened
  <2>3. BoundTyped'
    BY <2>1, <2>2, BoundKept
  <2>4. bound' = bound
    BY <2>1
  <2> QED
    BY <2>1, <2>2, <2>3, <2>4, Mine, Untouched, MovedOn DEF task, memory, history
<1>2. CASE UpdateLocked(c) \/ UpdateRefuse(c)
  <2>1. Leave(c) /\ UNCHANGED <<task, memory, run, console, bound, history>>
    BY <1>2 DEF UpdateLocked, UpdateRefuse
  <2> QED
    BY <2>1, Untouched, MovedBack DEF task, memory, history
<1>3. CASE UpdatePrepare(c)
  <2>1. PICK i \in Ids : i = job[c].token
    BY <1>3, Mine DEF UpdatePrepare, Tokened
  <2> DEFINE place == "starting"
  <2>2. /\ Goto(c, place, job[c]) /\ UNCHANGED <<task, previews, console, bound, history>>
        /\ preparations' = preparations \cup {i} /\ pc[c] = "preparing"
        /\ run' = [run EXCEPT ![i].desired = job[c].desired,
                              ![i].expected = job[c].ob.preview.inspected]
    BY <1>3, <2>1 DEF UpdatePrepare
  <2>3. place \in Places /\ place \notin InspectingPlaces /\ pc[c] \in Tokened
    BY <2>2 DEF Places, InspectingPlaces, Tokened
  <2> HIDE DEF place
  <2>4. BoundTyped'
    BY <2>2, <2>3, BoundKept
  <2>5. StoreTyped'
    BY <2>2 DEF task, history, Typed, StoreTyped
  <2>6. RunsTyped'
    <3>1. job[c].ob.preview.inspected \in Snapshots /\ job[c].desired \in Snapshots
      BY Mine DEF Obs, Previews
    <3>2. run[i] \in Runs /\ run \in [Ids -> Runs]
      BY DEF Typed, RunsTyped
    <3>3. PICK r : r = [run[i] EXCEPT !.desired = job[c].desired,
                                      !.expected = job[c].ob.preview.inspected]
      OBVIOUS
    <3>4. r \in Runs
      BY <3>1, <3>2, <3>3 DEF Runs
    <3>5. run' = [run EXCEPT ![i] = r]
      BY <2>2, <3>2, <3>3
    <3> QED
      BY <3>2, <3>4, <3>5 DEF RunsTyped
  <2>7. /\ bound' = bound /\ Goto(c, place, job[c])
        /\ UNCHANGED <<desired, version, console>>
    BY <2>2 DEF task
  <2> QED
    BY <2>3, <2>4, <2>5, <2>6, <2>7, Mine, Untouched, MovedOn
<1>4. CASE UpdateCommit(c)
  <2> DEFINE place == "updating"
  <2> DEFINE j == [NoJob EXCEPT !.token = job[c].token]
  <2>1. /\ Goto(c, place, j) /\ pc[c] = "starting"
        /\ Write(c, [job[c].ob EXCEPT !.status = "updating", !.preview = NoPreview,
                                      !.attempts[job[c].token] = "pending"])
        /\ UNCHANGED <<desired, version, memory, run, console, bound, shown, abandoned>>
    BY <1>4 DEF UpdateCommit
  <2>2. PICK i \in Ids : i = job[c].token /\ i <= bound.previews
    BY <2>1, Mine DEF Tokened
  <2>3. PICK k \in Jobs : k = NoJob
    BY Blank
  <2>4. j \in Jobs /\ j.token = i
    BY <2>2, <2>3, Numbers DEF Jobs
  <2>5. place \in Places /\ place \notin InspectingPlaces
    BY DEF Places, InspectingPlaces
  <2> HIDE DEF place, j
  <2>6. PICK w \in Obs : Write(c, w)
    <3>1. [job[c].ob.attempts EXCEPT ![i] = "pending"] \in Attempts
      BY Mine DEF Obs, Attempts
    <3>2. [job[c].ob EXCEPT !.status = "updating", !.preview = NoPreview,
                            !.attempts[i] = "pending"] \in Obs
      BY <3>1, Mine, Blank DEF Obs, Statuses
    <3> QED
      BY <2>1, <2>2, <3>2
  <2>7. StoreTyped'
    BY <2>1, <2>6, WriteTyped DEF memory
  <2>8. BoundTyped' /\ bound' = bound
    BY <2>1, <2>5, BoundKept
  <2> QED
    BY <2>1, <2>2, <2>4, <2>5, <2>7, <2>8, Untouched, MovedOn
<1> QED
  BY <1>1, <1>2, <1>3, <1>4 DEF Update

LEMMA LeaveTyped == ASSUME Typed, NEW c \in Pages, LeavePage(c) PROVE Typed'
<1>1. Leave(c) /\ UNCHANGED <<task, memory, run, console, bound, shown, lost>>
  BY DEF LeavePage
<1>2. abandoned' \subseteq Ids
  <2>1. CASE abandoned' = abandoned
    BY <2>1 DEF Typed, StoreTyped
  <2>2. CASE pc[c] = "updating" /\ abandoned' = abandoned \cup {job[c].token}
    BY <2>2, Mine DEF Typed, StoreTyped, Tokened
  <2> QED
    BY <2>1, <2>2 DEF LeavePage, GiveUp
<1>3. StoreTyped'
  BY <1>1, <1>2 DEF task, memory, Typed, StoreTyped
<1> QED
  BY <1>1, <1>3, Untouched, MovedBack DEF task

(* A run goes on, the console with it.                                       *)
LEMMA RanOn ==
    ASSUME Typed, UNCHANGED <<task, memory, pc, job, bound, lost, abandoned>>,
           RunsTyped', console' \in Snapshots
    PROVE  Typed'
<1>1. WorldTyped' /\ StoreTyped'
  BY DEF Typed, WorldTyped, StoreTyped, task, memory
<1>2. PagesTyped' /\ BoundTyped'
  BY DEF Typed, PagesTyped, BoundTyped, Inspecting
<1> QED
  BY <1>1, <1>2 DEF Typed

LEMMA OneRun ==
    ASSUME Typed, NEW i \in Ids, NEW r, run' = [run EXCEPT ![i] = r]
    PROVE  /\ run[i] \in Runs /\ run'[i] = r /\ \A k \in Ids : k # i => run'[k] = run[k]
           /\ r \in Runs => RunsTyped'
  BY DEF Typed, RunsTyped

LEMMA Managed ==
    ASSUME Typed, NEW i \in Ids, NEW p \in Parts
    PROVE  /\ [console EXCEPT ![p] = run[i].desired[p]] \in Snapshots
           /\ [console EXCEPT ![p] = Foreign] \in Snapshots
<1>1. run[i].desired \in Snapshots /\ console \in Snapshots
  BY DEF Typed, RunsTyped, Runs, WorldTyped
<1> QED
  BY <1>1 DEF Snapshots, Foreign

(* What each step of a helper does to its run.                               *)
Begun(i, r) ==
    /\ run[i].stage = "none"
    /\ \E s \in {"saved", "saving", "failed"} :
        /\ r = [run[i] EXCEPT !.stage = s]
        /\ s = "saving" => Agree(i, console, run[i].expected)
    /\ UNCHANGED <<console, shown>>
Saved(i, r) ==
    /\ run[i].stage = "saving"
    /\ \E p \in Changes(i) \ run[i].done :
        /\ console' = [console EXCEPT ![p] = run[i].desired[p]]
        /\ \E s \in {"saved", "saving"} :
            r = [run[i] EXCEPT !.done = @ \cup {p}, !.stage = s]
    /\ shown' = shown \cup {Visible(console')}
Broken(i, r) ==
    /\ run[i].stage \in {"saving", "saved"} /\ r = [run[i] EXCEPT !.stage = "failed"]
    /\ UNCHANGED <<console, shown>>
Answered(i, r) ==
    /\ run[i].stage \in {"saved", "failed"}
    /\ \/ r = [run[i] EXCEPT !.stage = "answered", !.after = console]
       \/ r = [run[i] EXCEPT !.stage = "answered"]
    /\ UNCHANGED <<console, shown>>
Ran(i, r) ==
    /\ run' = [run EXCEPT ![i] = r]
    /\ Begun(i, r) \/ Saved(i, r) \/ Broken(i, r) \/ Answered(i, r)
    /\ UNCHANGED <<task, memory, pc, job, bound, lost, abandoned>>

LEMMA HelperSteps ==
    ASSUME Typed, NEW i \in Ids,
           Helper(i) \/ \E c \in Pages : HelperStart(c) /\ job[c].token = i
    PROVE  \E r : Ran(i, r)
<1>r. run[i] \in Runs /\ run \in [Ids -> Runs]
  BY DEF Typed, RunsTyped
<1>1. ASSUME NEW c \in Pages, HelperStart(c), job[c].token = i PROVE \E r : Ran(i, r)
  <2>1. PICK s \in {"saved", "saving", "failed"} :
          /\ run' = [run EXCEPT ![i].stage = s]
          /\ s = "saving" => Agree(i, console, run[i].expected)
    BY <1>1 DEF HelperStart, MaySave
  <2>2. PICK r : r = [run[i] EXCEPT !.stage = s]
    OBVIOUS
  <2>3. run' = [run EXCEPT ![i] = r]
    BY <2>1, <2>2
  <2>4. UNCHANGED <<task, memory, pc, job, console, bound, history>> /\ run[i].stage = "none"
    BY <1>1 DEF HelperStart
  <2>5. Begun(i, r)
    BY <2>1, <2>2, <2>4 DEF Begun, history
  <2> QED
    BY <2>3, <2>4, <2>5 DEF Ran, history
<1>2. CASE HelperSave(i)
  <2>1. PICK p \in Changes(i) \ run[i].done, s \in {"saved", "saving"} :
          /\ console' = [console EXCEPT ![p] = run[i].desired[p]]
          /\ run' = [run EXCEPT ![i].done = @ \cup {p}, ![i].stage = s]
    BY <1>2 DEF HelperSave
  <2>2. PICK r : r = [run[i] EXCEPT !.done = @ \cup {p}, !.stage = s]
    OBVIOUS
  <2>3. run' = [run EXCEPT ![i] = r]
    BY <1>r, <2>1, <2>2
  <2>4. /\ UNCHANGED <<task, memory, pc, job, bound, lost, abandoned>> /\ run[i].stage = "saving"
        /\ shown' = shown \cup {Visible(console')}
    BY <1>2 DEF HelperSave
  <2>5. Saved(i, r)
    BY <2>1, <2>2, <2>4 DEF Saved
  <2> QED
    BY <2>3, <2>4, <2>5 DEF Ran
<1>3. CASE HelperFails(i) \/ HelperVerify(i) \/ HelperReadback(i) \/ HelperUnread(i)
  <2>1. /\ UNCHANGED <<task, memory, pc, job, console, bound, history>>
        /\ \/ run[i].stage \in {"saving", "saved"} /\ run' = [run EXCEPT ![i].stage = "failed"]
           \/ /\ run[i].stage \in {"saved", "failed"}
              /\ \/ run' = [run EXCEPT ![i].stage = "answered", ![i].after = console]
                 \/ run' = [run EXCEPT ![i].stage = "answered"]
    BY <1>3 DEF HelperFails, HelperVerify, HelperReadback, HelperUnread
  <2>2. PICK r : /\ run' = [run EXCEPT ![i] = r]
                 /\ Broken(i, r) \/ Answered(i, r)
    <3>1. CASE run[i].stage \in {"saving", "saved"} /\ run' = [run EXCEPT ![i].stage = "failed"]
      <4>1. PICK r : r = [run[i] EXCEPT !.stage = "failed"]
        OBVIOUS
      <4> QED
        BY <2>1, <3>1, <4>1 DEF Broken, history
    <3>2. CASE /\ run[i].stage \in {"saved", "failed"}
               /\ run' = [run EXCEPT ![i].stage = "answered", ![i].after = console]
      <4>1. PICK r : r = [run[i] EXCEPT !.stage = "answered", !.after = console]
        OBVIOUS
      <4>2. run' = [run EXCEPT ![i] = r]
        BY <1>r, <3>2, <4>1
      <4> QED
        BY <2>1, <3>2, <4>1, <4>2 DEF Answered, history
    <3>3. CASE /\ run[i].stage \in {"saved", "failed"}
               /\ run' = [run EXCEPT ![i].stage = "answered"]
      <4>1. PICK r : r = [run[i] EXCEPT !.stage = "answered"]
        OBVIOUS
      <4> QED
        BY <2>1, <3>3, <4>1 DEF Answered, history
    <3> QED
      BY <2>1, <3>1, <3>2, <3>3
  <2> QED
    BY <2>1, <2>2 DEF Ran, history
<1> QED
  BY <1>1, <1>2, <1>3 DEF Helper

LEMMA RunTyped == ASSUME Typed, NEW i \in Ids, NEW r, Ran(i, r) PROVE Typed' /\ r \in Runs
<1>1. run[i] \in Runs /\ console \in Snapshots /\ Changes(i) \subseteq Parts
  BY DEF Typed, RunsTyped, WorldTyped, Changes, Diff
<1>2. r \in Runs /\ console' \in Snapshots
  <2>1. CASE Begun(i, r)
    BY <1>1, <2>1 DEF Begun, Runs
  <2>2. CASE Saved(i, r)
    <3>1. PICK p \in Parts, s \in {"saved", "saving"} :
            /\ console' = [console EXCEPT ![p] = run[i].desired[p]]
            /\ r = [run[i] EXCEPT !.done = @ \cup {p}, !.stage = s]
      BY <1>1, <2>2 DEF Saved
    <3>2. console' \in Snapshots
      BY <3>1, Managed
    <3>3. run[i].done \cup {p} \in SUBSET Parts
      BY <1>1 DEF Runs
    <3>4. r \in Runs
      BY <1>1, <3>1, <3>3 DEF Runs
    <3> QED
      BY <3>2, <3>4
  <2>3. CASE Broken(i, r)
    BY <1>1, <2>3 DEF Broken, Runs
  <2>4. CASE Answered(i, r)
    BY <1>1, <2>4 DEF Answered, Runs
  <2> QED
    BY <2>1, <2>2, <2>3, <2>4 DEF Ran
<1>3. RunsTyped'
  BY <1>2, OneRun DEF Ran
<1> QED
  BY <1>2, <1>3, RanOn DEF Ran

LEMMA CompleteTyped == ASSUME Typed, NEW c \in Pages, Complete(c) PROVE Typed'
<1>1. CASE CompleteRead(c)
  <2> DEFINE place == "completing"
  <2> DEFINE j == Read(c)
  <2>1. /\ Goto(c, place, j) /\ pc[c] = "updating"
        /\ UNCHANGED <<task, memory, run, console, bound, history>>
    BY <1>1 DEF CompleteRead
  <2>2. /\ place \in Places /\ place \notin InspectingPlaces /\ pc[c] \in Tokened
        /\ j \in Jobs /\ j.token = job[c].token
    BY <2>1, Mine DEF Places, InspectingPlaces, Tokened
  <2> HIDE DEF place, j
  <2>3. BoundTyped' /\ bound' = bound
    BY <2>1, <2>2, BoundKept
  <2> QED
    BY <2>1, <2>2, <2>3, Mine, Untouched, MovedOn DEF task, memory, history
<1>2. CASE CompleteRefuse(c)
  <2>1. Leave(c) /\ UNCHANGED <<task, memory, run, console, bound, shown, lost>>
    BY <1>2 DEF CompleteRefuse
  <2>2. StoreTyped'
    BY <1>2, Mine DEF CompleteRefuse, GiveUp, task, memory, Typed, StoreTyped, Tokened
  <2> QED
    BY <2>1, <2>2, Untouched, MovedBack DEF task
<1>3. CASE CompleteWrite(c)
  <2>1. PICK i \in Ids : i = job[c].token
    BY <1>3, Mine DEF CompleteWrite, Tokened
  <2>2. PICK outcome \in Terminal : outcome = Outcome(i)
    BY DEF Outcome, Terminal
  <2>3. PICK managed \in Snapshots :
          managed = IF outcome = "succeeded" THEN WithService(run[i].desired, job[c].ob.managed)
                    ELSE job[c].ob.managed
    <3>1. run[i].desired \in Snapshots /\ job[c].ob.managed \in Snapshots
      BY Mine DEF Typed, RunsTyped, Runs, Obs
    <3> QED
      BY <3>1, Services
  <2>4. Write(c, [job[c].ob EXCEPT !.status = StatusAfter(outcome), !.preview = NoPreview,
                                   !.attempts[i] = outcome, !.managed = managed])
    <3>1. Write(c, [job[c].ob EXCEPT !.status = StatusAfter(outcome), !.preview = NoPreview,
                                     !.attempts[i] = outcome,
                                     !.managed = IF outcome = "succeeded"
                                                 THEN WithService(run[i].desired, @) ELSE @])
      BY <1>3, <2>1, <2>2 DEF CompleteWrite
    <3>2. job[c].ob \in Obs
      BY Mine
    <3> QED
      BY <2>3, <3>1, <3>2 DEF Obs
  <2>5. PICK w \in Obs : Write(c, w)
    <3>1. [job[c].ob.attempts EXCEPT ![i] = outcome] \in Attempts
      BY Mine DEF Obs, Attempts
    <3>2. StatusAfter(outcome) \in Statuses
      BY DEF StatusAfter, Statuses
    <3>3. [job[c].ob EXCEPT !.status = StatusAfter(outcome), !.preview = NoPreview,
                            !.attempts[i] = outcome, !.managed = managed] \in Obs
      BY <3>1, <3>2, Mine, Blank DEF Obs
    <3> QED
      BY <2>4, <3>3
  <2>6. StoreTyped'
    BY <1>3, <2>5, WriteTyped DEF CompleteWrite
  <2> QED
    BY <1>3, <2>6, Untouched, MovedBack DEF CompleteWrite
<1>4. CASE CompleteMissing(c)
  BY <1>4, Untouched, MovedBack DEF CompleteMissing, task, memory, history
<1>5. CASE StoreFails(c)
  <2>1. preparations' \subseteq preparations /\ abandoned' \subseteq Ids
    BY <1>5, Mine DEF StoreFails, GiveUp, Typed, StoreTyped, Tokened
  <2>2. StoreTyped'
    BY <1>5, <2>1 DEF StoreFails, task, Typed, StoreTyped
  <2> QED
    BY <1>5, <2>2, Untouched, MovedBack DEF StoreFails, task
<1> QED
  BY <1>1, <1>2, <1>3, <1>4, <1>5 DEF Complete

(* What people change, and what time and restarts take away.                 *)
LEMMA WorldSteps ==
    ASSUME Typed, Edit \/ HandChange \/ PreparationExpires \/ ServerRestart \/ UNCHANGED vars
    PROVE  Typed'
<1>1. CASE Edit
  <2>1. desired' \in [Parts -> Asked] /\ version' \in 0..MaxEdits /\ console' \in Snapshots
    BY <1>1, Numbers DEF Edit, Typed, WorldTyped
  <2> QED
    BY <1>1, <2>1
       DEF Edit, memory, history, Typed, WorldTyped, StoreTyped, PagesTyped, RunsTyped,
           BoundTyped, Inspecting
<1>2. CASE HandChange
  <2>1. PICK p \in Parts : console' = [console EXCEPT ![p] = Foreign]
    BY <1>2 DEF HandChange
  <2>2. console' \in Snapshots
    BY <2>1 DEF Typed, WorldTyped, Snapshots, Foreign
  <2>3. RunsTyped'
    <3>1. \A i \in Ids : run[i] \in Runs /\ (run[i].stage # "none") \in BOOLEAN
      BY DEF Typed, RunsTyped
    <3>2. \A i \in Ids : [run[i] EXCEPT !.disturbed = run[i].stage # "none"] \in Runs
      BY <3>1 DEF Runs
    <3> QED
      BY <1>2, <3>2 DEF HandChange, RunsTyped
  <2>4. /\ bound' \in [hands : 0..MaxHandChanges, previews : 0..MaxPreviews]
        /\ bound'.previews = bound.previews
    BY <1>2, Numbers DEF HandChange, Typed, BoundTyped
  <2>5. UNCHANGED <<task, memory, pc, job, lost, abandoned>>
    BY <1>2 DEF HandChange
  <2>6. BoundTyped' /\ PagesTyped'
    BY <2>4, <2>5 DEF Typed, BoundTyped, PagesTyped, Inspecting
  <2>7. WorldTyped' /\ StoreTyped'
    BY <2>2, <2>5 DEF task, memory, Typed, WorldTyped, StoreTyped
  <2> QED
    BY <2>3, <2>6, <2>7 DEF Typed
<1>3. CASE PreparationExpires
  BY <1>3 DEF PreparationExpires, task, history, Typed, WorldTyped, StoreTyped, PagesTyped,
              RunsTyped, BoundTyped, Inspecting
<1>4. CASE ServerRestart
  <2>1. /\ UNCHANGED <<task, run, console, bound, shown, lost>>
        /\ previews' = {} /\ preparations' = {}
        /\ pc' = [c \in Pages |-> IF pc[c] \in Unnoticed THEN pc[c] ELSE "idle"]
        /\ job' = [c \in Pages |-> IF pc[c] \in Unnoticed THEN job[c] ELSE NoJob]
    BY <1>4 DEF ServerRestart
  <2>2. PagesTyped'
    BY <2>1, Blank DEF Typed, PagesTyped, Places, Tokened
  <2>3. abandoned' \subseteq Ids
    <3>1. \A c \in Pages : pc[c] = "completing" => job[c].token \in Ids
      BY Mine DEF Tokened
    <3> QED
      BY <1>4, <3>1 DEF ServerRestart, GiveUp, Typed, StoreTyped
  <2>4. StoreTyped' /\ WorldTyped' /\ RunsTyped'
    BY <2>1, <2>3 DEF task, Typed, StoreTyped, WorldTyped, RunsTyped
  <2>5. BoundTyped'
    <3>1. Inspecting' \subseteq Inspecting
      BY <2>1 DEF Inspecting
    <3>2. Inspecting \subseteq Pages
      BY DEF Inspecting
    <3>3. /\ Cardinality(Inspecting') <= Cardinality(Inspecting)
          /\ Cardinality(Inspecting) \in Nat /\ Cardinality(Inspecting') \in Nat
      BY <3>1, <3>2, Numbers, FS_Subset, FS_CardinalityType
    <3> QED
      BY <2>1, <3>3, Numbers DEF Typed, BoundTyped
  <2> QED
    BY <2>2, <2>4, <2>5 DEF Typed
<1>5. CASE UNCHANGED vars
  BY <1>5 DEF vars, task, memory, history, Typed, WorldTyped, StoreTyped, PagesTyped, RunsTyped,
              BoundTyped, Inspecting
<1> QED
  BY <1>1, <1>2, <1>3, <1>4, <1>5

LEMMA StartsToken ==
    ASSUME Typed, NEW c \in Pages, HelperStart(c)
    PROVE  job[c].token \in Ids
  BY Mine DEF HelperStart, Tokened

LEMMA TypedStep == ASSUME Typed, [Next]_vars PROVE Typed'
<1>1. ASSUME NEW i \in Ids, Helper(i) PROVE Typed'
  BY <1>1, HelperSteps, RunTyped
<1>2. ASSUME NEW c \in Pages, HelperStart(c) PROVE Typed'
  <2>1. PICK i \in Ids : i = job[c].token
    BY <1>2, StartsToken
  <2> QED
    BY <1>2, <2>1, HelperSteps, RunTyped
<1> QED
  BY <1>1, <1>2, PreviewTyped, UpdateTyped, LeaveTyped, CompleteTyped, WorldSteps DEF Next

(* The types of the state, for any pages, bounds and hazards: no attempt is  *)
(* given a number beyond the previews there may be.                          *)
THEOREM TypesHold == Spec => []TypeOK
  BY TypedInit, TypedStep, TypedIsTypeOK, PTL DEF Spec

-----------------------------------------------------------------------------
(* The helper's run: before it begins, and what it may have saved.           *)
Active == {"saving", "saved", "failed"}
Early == {"confirming", "asked", "preparing", "starting"}
ChangesOf(r) == Diff(r.expected, r.desired)
Shape(r) ==
    /\ r.stage = "none" => r.done = {}
    /\ r.done \subseteq ChangesOf(r)
    /\ r.stage # "answered" => r.after = Nothing
Shaped == \A i \in Ids : Shape(run[i]) /\ (i > bound.previews => run[i].stage = "none")

(* A token belongs to one page, whose helper begins once it is updating.     *)
Owned ==
    /\ \A c, d \in Pages :
          pc[c] \in Tokened /\ pc[d] \in Tokened /\ job[c].token = job[d].token => c = d
    /\ \A c \in Pages :
          /\ pc[c] \in Early => run[job[c].token].stage = "none"
          /\ pc[c] = "completing" => run[job[c].token].stage = "answered"
          /\ pc[c] = "starting" => \A i \in Ids : job[c].ob.attempts[i] # "pending"

(* Every snapshot that may become the managed one was on the console's page. *)
Seen(snapshot) == snapshot = Nothing \/ Visible(snapshot) \in shown
SnapshotsSeen ==
    /\ Visible(console) \in shown /\ Seen(ob.managed)
    /\ \A i \in Ids : Seen(run[i].after)
    /\ \A c \in Pages :
          /\ Seen(job[c].ob.managed)
          /\ pc[c] \in {"inspected", "previewing"} => Visible(job[c].inspected) \in shown

(* What a helper has saved is there, and the rest is as it was confirmed,    *)
(* as long as nobody else writes the batch: its attempt is the only one.     *)
Backed(r, attempt, there) ==
    /\ r.stage \in Active => attempt = "pending"
    /\ attempt \in Terminal => r.stage = "answered"
    /\ ~r.disturbed =>
          /\ r.stage \in Active => \A p \in r.done : there[p] = r.desired[p]
          /\ r.stage = "saving" => \A p \in ChangesOf(r) \ r.done : there[p] = r.expected[p]
          /\ r.stage = "answered" /\ r.after # Nothing =>
                \A p \in r.done : r.after[p] = r.desired[p]
          /\ attempt = "failed" => r.done = {} \/ r.after = Nothing
Pending(i) == ob.attempts[i] = "pending"
AttemptsBacked ==
    lost = {} =>
        /\ \A i \in Ids : Backed(run[i], ob.attempts[i], console)
        /\ \A i, k \in Ids : Pending(i) /\ Pending(k) => i = k
        /\ \A c \in Pages :
              pc[c] = "updating" /\ run[job[c].token].stage = "none" => Pending(job[c].token)

Inv == Typed /\ Owned /\ Shaped /\ SnapshotsSeen /\ AttemptsBacked

LEMMA InvInit == Init => Inv
<1> SUFFICES ASSUME Init PROVE Inv
  OBVIOUS
<1>1. Typed
  BY TypedInit
<1>2. Owned
  BY DEF Init, Owned, Tokened, Early
<1>3. Shaped
  <2>1. Shape(NoRun)
    BY DEF Shape, NoRun, ChangesOf, Diff
  <2> QED
    BY <2>1 DEF Init, Shaped, NoRun
<1>4. SnapshotsSeen
  <2>1. Visible(console) \in shown
    BY DEF Init
  <2>2. desired \in Snapshots
    BY DEF Init, Snapshots, Foreign
  <2>3. Seen(ob.managed)
    <3>1. PICK known \in {Nothing, [desired EXCEPT !.services = 0], desired} :
            ob = [NoJob.ob EXCEPT !.managed = known]
      BY DEF Init
    <3>2. ob.managed = known
      BY <3>1 DEF NoJob
    <3>3. CASE known = Nothing
      BY <3>2, <3>3 DEF Seen
    <3>4. CASE known # Nothing
      <4>1. console = desired
        BY <3>2, <3>4 DEF Init
      <4>2. \A p \in Parts \ {"services"} : known[p] = desired[p]
        BY <2>2, <3>1, <3>4 DEF Snapshots, Parts
      <4>3. Visible(known) = Visible(console)
        BY <4>1, <4>2 DEF Visible
      <4> QED
        BY <2>1, <3>2, <4>3 DEF Seen
    <3> QED
      BY <3>3, <3>4
  <2>4. \A i \in Ids : Seen(run[i].after)
    BY DEF Init, Seen, NoRun
  <2>5. \A c \in Pages : Seen(job[c].ob.managed) /\ pc[c] = "idle"
    BY DEF Init, Seen, NoJob
  <2> QED
    BY <2>1, <2>3, <2>4, <2>5 DEF SnapshotsSeen
<1>5. AttemptsBacked
  <2>1. \A i \in Ids : ob.attempts[i] = "none"
    <3>1. PICK known : ob = [NoJob.ob EXCEPT !.managed = known]
      BY DEF Init
    <3> QED
      BY <3>1 DEF NoJob
  <2>2. \A i \in Ids : run[i].stage = "none"
    BY DEF Init, NoRun
  <2>3. \A c \in Pages : pc[c] = "idle"
    BY DEF Init
  <2> QED
    BY <2>1, <2>2, <2>3 DEF AttemptsBacked, Backed, Pending, Active, Terminal
<1> QED
  BY <1>1, <1>2, <1>3, <1>4, <1>5 DEF Inv

(* What a page's step leaves of each part.                                   *)
LEMMA OwnedMoves ==
    ASSUME Inv, NEW c \in Pages, NEW place, NEW j, Goto(c, place, j),
           \A i \in Ids : run'[i].stage = run[i].stage,
           place \in Tokened =>
              /\ j.token \in Ids
              /\ \/ pc[c] \in Tokened /\ j.token = job[c].token
                 \/ \A d \in Pages : pc[d] \in Tokened => job[d].token # j.token,
           place \in Early => run[j.token].stage = "none",
           place = "completing" => run[j.token].stage = "answered",
           place = "starting" => \A i \in Ids : j.ob.attempts[i] # "pending"
    PROVE  Owned'
<1>1. /\ pc'[c] = place /\ job'[c] = j
      /\ \A d \in Pages : d # c => pc'[d] = pc[d] /\ job'[d] = job[d]
  BY Moves DEF Inv
<1>2. \A d \in Pages : pc[d] \in Tokened => job[d].token \in Ids
  BY DEF Inv, Typed, PagesTyped
<1>3. Owned
  BY DEF Inv
<1>4. \A d, e \in Pages :
        pc'[d] \in Tokened /\ pc'[e] \in Tokened /\ job'[d].token = job'[e].token => d = e
  BY <1>1, <1>3 DEF Owned
<1>5. ASSUME NEW d \in Pages
      PROVE  /\ pc'[d] \in Early => run'[job'[d].token].stage = "none"
             /\ pc'[d] = "completing" => run'[job'[d].token].stage = "answered"
             /\ pc'[d] = "starting" => \A i \in Ids : job'[d].ob.attempts[i] # "pending"
  <2>1. CASE d = c
    BY <1>1, <2>1 DEF Tokened, Early
  <2>2. CASE d # c
    BY <1>1, <1>2, <1>3, <2>2 DEF Owned, Tokened, Early
  <2> QED
    BY <2>1, <2>2
<1> QED
  BY <1>4, <1>5 DEF Owned

LEMMA SeenMoves ==
    ASSUME Inv, NEW c \in Pages, NEW place, NEW j, Goto(c, place, j),
           UNCHANGED <<console, shown>>, \A i \in Ids : run'[i].after = run[i].after,
           Seen(ob'.managed), Seen(j.ob.managed),
           place \in {"inspected", "previewing"} => Visible(j.inspected) \in shown
    PROVE  SnapshotsSeen'
<1>1. /\ pc'[c] = place /\ job'[c] = j
      /\ \A d \in Pages : d # c => pc'[d] = pc[d] /\ job'[d] = job[d]
  BY Moves DEF Inv
<1>2. SnapshotsSeen
  BY DEF Inv
<1>3. Visible(console') \in shown' /\ (ob'.managed = Nothing \/ Visible(ob'.managed) \in shown')
  BY <1>2 DEF SnapshotsSeen, Seen
<1>4. \A i \in Ids : run'[i].after = Nothing \/ Visible(run'[i].after) \in shown'
  BY <1>2 DEF SnapshotsSeen, Seen
<1>5. ASSUME NEW d \in Pages
      PROVE  /\ job'[d].ob.managed = Nothing \/ Visible(job'[d].ob.managed) \in shown'
             /\ pc'[d] \in {"inspected", "previewing"} => Visible(job'[d].inspected) \in shown'
  BY <1>1, <1>2 DEF SnapshotsSeen, Seen
<1> QED
  BY <1>3, <1>4, <1>5 DEF SnapshotsSeen, Seen, Visible

LEMMA BackedMoves ==
    ASSUME Inv, NEW c \in Pages, NEW place, NEW j, Goto(c, place, j), place # "updating",
           UNCHANGED <<console, run>>,
           lost' = {} => lost = {} /\ ob'.attempts = ob.attempts
    PROVE  AttemptsBacked'
<1>1. /\ pc'[c] = place
      /\ \A d \in Pages : d # c => pc'[d] = pc[d] /\ job'[d] = job[d]
  BY Moves DEF Inv
<1> SUFFICES ASSUME lost' = {} PROVE AttemptsBacked'
  BY DEF AttemptsBacked
<1>2. AttemptsBacked /\ lost = {} /\ ob'.attempts = ob.attempts /\ run' = run /\ console' = console
  BY DEF Inv
<1>3. \A i \in Ids : Backed(run'[i], ob'.attempts[i], console')
  BY <1>2 DEF AttemptsBacked
<1>4. /\ \A i, k \in Ids : ob'.attempts[i] = "pending" /\ ob'.attempts[k] = "pending" => i = k
      /\ \A d \in Pages : pc'[d] = "updating" /\ run'[job'[d].token].stage = "none" =>
            ob'.attempts[job'[d].token] = "pending"
  BY <1>1, <1>2 DEF AttemptsBacked, Pending
<1> QED
  BY <1>3, <1>4 DEF AttemptsBacked, Pending

LEMMA ShapedKept ==
    ASSUME Shaped, Typed, bound.previews <= bound'.previews, bound'.previews \in Nat,
           UNCHANGED run
    PROVE  Shaped'
<1>1. bound.previews \in Nat
  BY Numbers DEF Typed, BoundTyped
<1>2. \A i \in Ids : Shape(run'[i]) /\ (i > bound'.previews => run'[i].stage = "none")
  BY <1>1, Numbers DEF Shaped
<1> QED
  BY <1>2 DEF Shaped, Shape

(* What a write that undoes nothing starts from.                             *)
LEMMA WriteKeeps ==
    ASSUME Typed, NEW c \in Pages, NEW w, Write(c, w), lost' = {}
    PROVE  lost = {} /\ job[c].ob.attempts = ob.attempts /\ ob' = w
<1>1. lost = {} /\ \A i \in Ids : job[c].ob.attempts[i] = ob.attempts[i]
  BY DEF Write
<1>2. job[c].ob.attempts \in Attempts /\ ob.attempts \in Attempts
  BY Mine DEF Typed, StoreTyped, Obs
<1> QED
  BY <1>1, <1>2 DEF Write, Attempts

(* A page that only reads, or gives up.                                      *)
LEMMA PageMoves ==
    ASSUME Inv, Typed', NEW c \in Pages, NEW place, NEW j, Goto(c, place, j), place # "updating",
           UNCHANGED <<ob, run, console, shown, lost, bound>>,
           place \in Tokened => pc[c] \in Tokened /\ j.token = job[c].token,
           place \in Early => pc[c] \in Early,
           place = "completing" => run[j.token].stage = "answered",
           place = "starting" => \A i \in Ids : j.ob.attempts[i] # "pending",
           Seen(j.ob.managed),
           place \in {"inspected", "previewing"} => Visible(j.inspected) \in shown
    PROVE  Inv'
<1>1. Typed /\ Owned /\ Shaped /\ SnapshotsSeen
  BY DEF Inv
<1>2. pc[c] \in Tokened => job[c].token \in Ids
  BY <1>1, Mine
<1>3. place \in Early => run[j.token].stage = "none"
  BY <1>1 DEF Owned, Early, Tokened
<1>4. Owned'
  BY <1>2, <1>3, OwnedMoves
<1>5. Shaped'
  BY <1>1, ShapedKept, Numbers DEF Typed, BoundTyped
<1>6. SnapshotsSeen'
  BY <1>1, SeenMoves DEF SnapshotsSeen
<1>7. AttemptsBacked'
  BY BackedMoves
<1> QED
  BY <1>4, <1>5, <1>6, <1>7 DEF Inv

LEMMA PageLeaves ==
    ASSUME Inv, Typed', NEW c \in Pages, Leave(c),
           UNCHANGED <<ob, run, console, shown, lost, bound>>
    PROVE  Inv'
<1> DEFINE place == "idle"
<1> DEFINE j == NoJob
<1>1. /\ Goto(c, place, j) /\ place # "updating" /\ place \notin Tokened /\ place \notin Early
      /\ place \notin {"completing", "starting", "inspected", "previewing"} /\ Seen(j.ob.managed)
  BY DEF Leave, Tokened, Early, Seen, NoJob
<1> HIDE DEF place, j
<1> QED
  BY <1>1, PageMoves

(* A handler's write, if it leaves the attempts as it read them.             *)
LEMMA PageWrites ==
    ASSUME Inv, Typed', NEW c \in Pages, NEW place, NEW j, Goto(c, place, j),
           place \notin {"updating", "completing", "starting", "inspected", "previewing"},
           NEW w, Write(c, w), w.attempts = job[c].ob.attempts, Seen(w.managed),
           UNCHANGED <<run, console, shown>>, bound.previews <= bound'.previews,
           place \in Tokened =>
              j.token \in Ids /\ \A d \in Pages : pc[d] \in Tokened => job[d].token # j.token,
           place \in Early => run[j.token].stage = "none",
           Seen(j.ob.managed)
    PROVE  Inv'
<1>1. Typed /\ Owned /\ Shaped /\ SnapshotsSeen
  BY DEF Inv
<1>2. ob' = w
  BY DEF Write
<1>3. Owned'
  BY OwnedMoves
<1>4. Shaped'
  BY <1>1, ShapedKept, Numbers DEF Typed, BoundTyped
<1>5. SnapshotsSeen'
  BY <1>2, SeenMoves
<1>6. AttemptsBacked'
  <2>1. lost' = {} => lost = {} /\ ob'.attempts = ob.attempts
    BY <1>1, WriteKeeps
  <2> QED
    BY <2>1, BackedMoves
<1> QED
  BY <1>3, <1>4, <1>5, <1>6 DEF Inv

LEMMA PreviewInv == ASSUME Inv, NEW c \in Pages, Preview(c) PROVE Inv'
<1>t. Typed /\ Owned /\ Shaped /\ SnapshotsSeen
  BY DEF Inv
<1>u. Typed'
  BY <1>t, PreviewTyped
<1>1. CASE PreviewPrepare(c)
  <2> DEFINE place == "inspecting"
  <2> DEFINE services == ob.managed = Nothing \/ "services" \in Diff(ob.managed, desired)
  <2> DEFINE j == [NoJob EXCEPT !.version = version, !.desired = desired, !.services = services]
  <2>1. Goto(c, place, j) /\ UNCHANGED <<task, preparations, run, console, bound, history>>
    BY <1>1 DEF PreviewPrepare
  <2>2. Seen(j.ob.managed)
    BY DEF NoJob, Seen
  <2>3. place # "updating" /\ place \notin Tokened /\ place \notin Early
        /\ place \notin {"completing", "starting", "inspected", "previewing"}
    BY DEF Tokened, Early
  <2> HIDE DEF place, j
  <2> QED
    BY <1>u, <2>1, <2>2, <2>3, PageMoves DEF task, history
<1>2. CASE Inspect(c)
  <2> DEFINE place == "inspected"
  <2> DEFINE seen == [console EXCEPT !.services = IF job[c].services THEN @ ELSE 0]
  <2> DEFINE j == [job[c] EXCEPT !.inspected = seen]
  <2>1. Goto(c, place, j) /\ UNCHANGED <<task, memory, run, console, bound, history>>
    BY <1>2 DEF Inspect
  <2>2. Visible(seen) = Visible(console)
    <3>1. \A p \in Parts \ {"services"} : seen[p] = console[p]
      BY <1>t DEF Typed, WorldTyped, Snapshots, Parts
    <3> QED
      BY <3>1 DEF Visible
  <2> HIDE DEF seen
  <2>3. job[c] \in Jobs
    BY <1>t, Mine
  <2>4. j.inspected = seen /\ j.ob = job[c].ob
    BY <2>3 DEF Jobs
  <2>5. Seen(j.ob.managed) /\ Visible(j.inspected) \in shown
    BY <1>t, <2>2, <2>4 DEF SnapshotsSeen
  <2>6. place # "updating" /\ place \notin Tokened /\ place \notin Early
        /\ place \notin {"completing", "starting"}
    BY DEF Tokened, Early
  <2> HIDE DEF place, j
  <2> QED
    BY <1>u, <2>1, <2>5, <2>6, PageMoves DEF task, history
<1>3. CASE PreviewRead(c)
  <2> DEFINE place == "previewing"
  <2> DEFINE seen == WithService(job[c].inspected, ob.managed)
  <2> DEFINE j == [Read(c) EXCEPT !.inspected = seen]
  <2>1. /\ Goto(c, place, j) /\ UNCHANGED <<task, preparations, run, console, bound, history>>
        /\ pc[c] = "inspected"
    <3>1. Goto(c, place, [Read(c) EXCEPT !.inspected = WithService(Read(c).inspected, ob.managed)])
      BY <1>3 DEF PreviewRead
    <3> QED
      BY <1>3, <1>t, <3>1, Mine DEF PreviewRead
  <2>2. Visible(seen) = Visible(job[c].inspected)
    <3>1. ob.managed \in Snapshots
      BY <1>t DEF Typed, StoreTyped, Obs
    <3> QED
      BY <1>t, <3>1, Mine, Services
  <2> HIDE DEF seen
  <2>3. Read(c) \in Jobs /\ Read(c).ob = ob
    BY <1>t, Mine
  <2>4. j.inspected = seen /\ j.ob = ob
    BY <2>3 DEF Jobs
  <2>5. Seen(j.ob.managed) /\ Visible(j.inspected) \in shown
    BY <1>t, <2>1, <2>2, <2>4 DEF SnapshotsSeen
  <2>6. place # "updating" /\ place \notin Tokened /\ place \notin Early
        /\ place \notin {"completing", "starting"}
    BY DEF Tokened, Early
  <2> HIDE DEF place, j
  <2> QED
    BY <1>u, <2>1, <2>5, <2>6, PageMoves DEF task, history
<1>4. CASE PreviewRefuse(c)
  BY <1>4, <1>u, PageLeaves DEF PreviewRefuse, task, history
<1>5. CASE PreviewAligned(c)
  <2>1. PICK m : /\ m \in {job[c].inspected, job[c].ob.managed}
                 /\ Write(c, [job[c].ob EXCEPT !.status = "success", !.preview = NoPreview,
                                               !.managed = m])
    BY <1>5 DEF PreviewAligned
  <2>2. Seen(m)
    BY <1>5, <1>t, <2>1 DEF PreviewAligned, SnapshotsSeen, Seen
  <2>3. PICK w : Write(c, w) /\ w.attempts = job[c].ob.attempts /\ w.managed = m
    <3>1. PICK w : w = [job[c].ob EXCEPT !.status = "success", !.preview = NoPreview, !.managed = m]
      OBVIOUS
    <3>2. job[c].ob \in Obs
      BY <1>t, Mine
    <3>3. w.attempts = job[c].ob.attempts /\ w.managed = m
      BY <3>1, <3>2 DEF Obs
    <3> QED
      BY <2>1, <3>1, <3>3
  <2> DEFINE place == "idle"
  <2> DEFINE j == NoJob
  <2>4. /\ Goto(c, place, j) /\ Seen(j.ob.managed)
        /\ place \notin {"updating", "completing", "starting", "inspected", "previewing"}
        /\ place \notin Tokened /\ place \notin Early
        /\ UNCHANGED <<run, console, shown, bound>> /\ bound.previews <= bound'.previews
    BY <1>5, <1>t, Untouched DEF PreviewAligned, Leave, Tokened, Early, Seen, NoJob
  <2> HIDE DEF place, j
  <2> QED
    BY <1>u, <2>2, <2>3, <2>4, PageWrites
<1>6. CASE PreviewOffer(c)
  <2>1. PICK token : token = bound.previews + 1
    OBVIOUS
  <2> DEFINE place == "confirming"
  <2> DEFINE j == [NoJob EXCEPT !.token = token]
  <2> DEFINE preview == [token |-> token, version |-> job[c].version,
                         desired |-> job[c].desired, inspected |-> job[c].inspected]
  <2>2. /\ Goto(c, place, j) /\ UNCHANGED <<desired, version, memory, run, console, shown, abandoned>>
        /\ bound' = [bound EXCEPT !.previews = token]
        /\ Write(c, [job[c].ob EXCEPT !.status = "update_available", !.preview = preview])
    BY <1>6, <2>1 DEF PreviewOffer
  <2> HIDE DEF preview
  <2>3. PICK w : Write(c, w) /\ w.attempts = job[c].ob.attempts /\ w.managed = job[c].ob.managed
    <3>1. PICK w : w = [job[c].ob EXCEPT !.status = "update_available", !.preview = preview]
      OBVIOUS
    <3>2. job[c].ob \in Obs
      BY <1>t, Mine
    <3>3. w.attempts = job[c].ob.attempts /\ w.managed = job[c].ob.managed
      BY <3>1, <3>2 DEF Obs
    <3> QED
      BY <2>2, <3>1, <3>3
  <2>4. j.token = token /\ j.ob.managed = Nothing
    BY DEF NoJob
  <2>5. pc'[c] = place /\ job'[c] = j
    BY <1>t, <2>2, Moves
  <2>6. token \in Ids
    BY <1>u, <2>4, <2>5 DEF Typed, PagesTyped, Tokened
  <2>7. /\ bound.previews < token /\ bound'.previews = token /\ bound.previews \in Nat
        /\ token \in Nat
    BY <1>t, <2>1, <2>2, <2>6, Numbers DEF Typed, BoundTyped
  <2>8. run[token].stage = "none"
    BY <1>t, <2>6, <2>7 DEF Shaped
  <2>9. \A d \in Pages : pc[d] \in Tokened => job[d].token # token
    BY <1>t, <2>7, Numbers DEF Typed, PagesTyped
  <2>10. Seen(w.managed) /\ Seen(j.ob.managed)
    BY <1>t, <2>3, <2>4 DEF SnapshotsSeen, Seen
  <2>11. /\ place \notin {"updating", "completing", "starting", "inspected", "previewing"}
         /\ bound.previews <= bound'.previews
    BY <2>7
  <2> HIDE DEF place, j
  <2> QED
    BY <1>u, <2>2, <2>3, <2>4, <2>6, <2>8, <2>9, <2>10, <2>11, PageWrites
<1> QED
  BY <1>1, <1>2, <1>3, <1>4, <1>5, <1>6 DEF Preview

LEMMA UpdateInv == ASSUME Inv, NEW c \in Pages, Update(c) PROVE Inv'
<1>t. Typed /\ Owned /\ Shaped /\ SnapshotsSeen /\ AttemptsBacked
  BY DEF Inv
<1>u. Typed'
  BY <1>t, UpdateTyped
<1>1. CASE UpdateAsk(c) \/ UpdateRead(c)
  <2>1. PICK place \in {"asked", "preparing"}, j \in {job[c], Read(c)} :
          Goto(c, place, j) /\ UNCHANGED <<task, memory, run, console, bound, history>>
    BY <1>1 DEF UpdateAsk, UpdateRead
  <2>2. pc[c] \in Tokened /\ pc[c] \in Early
    BY <1>1 DEF UpdateAsk, UpdateRead, Tokened, Early
  <2>3. j.token = job[c].token /\ j.ob \in {job[c].ob, ob}
    BY <1>t, <2>1, Mine
  <2>4. Seen(j.ob.managed)
    BY <1>t, <2>3 DEF SnapshotsSeen
  <2> QED
    BY <1>u, <2>1, <2>2, <2>3, <2>4, PageMoves DEF task, history
<1>2. CASE UpdateLocked(c) \/ UpdateRefuse(c)
  BY <1>2, <1>u, PageLeaves DEF UpdateLocked, UpdateRefuse, task, history
<1>3. CASE UpdatePrepare(c)
  <2>1. PICK i \in Ids : i = job[c].token
    BY <1>3, <1>t, Mine DEF UpdatePrepare, Tokened
  <2> DEFINE place == "starting"
  <2>2. /\ Goto(c, place, job[c]) /\ UNCHANGED <<task, previews, console, bound, history>>
        /\ pc[c] = "preparing" /\ UpdateAllowed(c)
        /\ run' = [run EXCEPT ![i].desired = job[c].desired,
                              ![i].expected = job[c].ob.preview.inspected]
    BY <1>3, <2>1 DEF UpdatePrepare
  <2>3. /\ run[i].stage = "none" /\ run[i].done = {} /\ run[i].after = Nothing
        /\ run[i] \in Runs /\ run \in [Ids -> Runs]
    BY <1>t, <2>1, <2>2 DEF Owned, Early, Shaped, Shape, Typed, RunsTyped
  <2>4. PICK r : r = [run[i] EXCEPT !.desired = job[c].desired,
                                    !.expected = job[c].ob.preview.inspected]
    OBVIOUS
  <2>5. /\ run' = [run EXCEPT ![i] = r]
        /\ r.stage = "none" /\ r.done = {} /\ r.after = Nothing
    <3>1. run' = [run EXCEPT ![i] = r]
      BY <2>2, <2>3, <2>4
    <3>2. r.stage = "none" /\ r.done = {} /\ r.after = Nothing
      BY <2>3, <2>4 DEF Runs
    <3> QED
      BY <3>1, <3>2
  <2>6. run'[i] = r /\ \A k \in Ids : k # i => run'[k] = run[k]
    BY <1>t, <2>5, OneRun
  <2>7. \A k \in Ids : run'[k].stage = run[k].stage /\ run'[k].after = run[k].after
    BY <2>3, <2>5, <2>6
  <2>8. Owned'
    <3>1. \A k \in Ids : job[c].ob.attempts[k] # "pending"
      BY <2>2 DEF UpdateAllowed
    <3>2. job[c].token \in Ids /\ pc[c] \in Tokened /\ run[job[c].token].stage = "none"
      BY <2>1, <2>2, <2>3 DEF Tokened
    <3>3. place # "completing"
      OBVIOUS
    <3> HIDE DEF place
    <3> QED
      BY <2>2, <2>7, <3>1, <3>2, <3>3, OwnedMoves
  <2>9. Shaped'
    <3>1. Shape(r)
      BY <2>5 DEF Shape
    <3>2. \A k \in Ids : Shape(run'[k]) /\ (k > bound'.previews => run'[k].stage = "none")
      BY <1>t, <2>2, <2>5, <2>6, <3>1 DEF Shaped
    <3> QED
      BY <3>2 DEF Shaped, Shape
  <2>10. SnapshotsSeen'
    <3>1. Seen(ob'.managed) /\ Seen(job[c].ob.managed) /\ UNCHANGED <<console, shown>>
      BY <1>t, <2>2 DEF SnapshotsSeen, task, history, Seen
    <3>2. place \notin {"inspected", "previewing"}
      OBVIOUS
    <3> HIDE DEF place
    <3> QED
      BY <2>2, <2>7, <3>1, <3>2, SeenMoves
  <2>11. AttemptsBacked'
    <3> SUFFICES ASSUME lost' = {} PROVE AttemptsBacked'
      BY DEF AttemptsBacked
    <3>1. lost = {} /\ ob' = ob /\ console' = console
      BY <2>2 DEF task, history
    <3>2. /\ pc'[c] = place
          /\ \A d \in Pages : d # c => pc'[d] = pc[d] /\ job'[d] = job[d]
      BY <1>t, <2>2, Moves
    <3>3. Backed(r, ob.attempts[i], console)
      <4>1. ob.attempts[i] \notin Terminal
        BY <1>t, <2>3, <3>1 DEF AttemptsBacked, Backed
      <4> QED
        BY <2>5, <4>1 DEF Backed, Active, Terminal
    <3>4. \A k \in Ids : Backed(run'[k], ob'.attempts[k], console')
      BY <1>t, <2>6, <3>1, <3>3 DEF AttemptsBacked
    <3>5. \A k, l \in Ids : ob'.attempts[k] = "pending" /\ ob'.attempts[l] = "pending" => k = l
      BY <1>t, <3>1 DEF AttemptsBacked, Pending
    <3>6. ASSUME NEW d \in Pages, pc'[d] = "updating", run'[job'[d].token].stage = "none"
          PROVE  ob'.attempts[job'[d].token] = "pending"
      <4>1. d # c /\ pc[d] = "updating" /\ job'[d] = job[d]
        BY <3>2, <3>6
      <4>2. job[d].token \in Ids
        BY <1>t, <4>1, Mine DEF Tokened
      <4> QED
        BY <1>t, <2>7, <3>1, <3>6, <4>1, <4>2 DEF AttemptsBacked, Pending
    <3> QED
      BY <3>4, <3>5, <3>6 DEF AttemptsBacked, Pending
  <2> QED
    BY <1>u, <2>8, <2>9, <2>10, <2>11 DEF Inv
<1>4. CASE UpdateCommit(c)
  <2>1. PICK i \in Ids : i = job[c].token
    BY <1>4, <1>t, Mine DEF UpdateCommit, Tokened
  <2> DEFINE place == "updating"
  <2> DEFINE j == [NoJob EXCEPT !.token = i]
  <2>2. /\ Goto(c, place, j) /\ pc[c] = "starting"
        /\ Write(c, [job[c].ob EXCEPT !.status = "updating", !.preview = NoPreview,
                                      !.attempts[i] = "pending"])
        /\ UNCHANGED <<desired, version, memory, run, console, bound, shown, abandoned>>
    BY <1>4, <2>1 DEF UpdateCommit
  <2>3. PICK w : /\ Write(c, w) /\ w.managed = job[c].ob.managed
                 /\ w.attempts = [job[c].ob.attempts EXCEPT ![i] = "pending"]
    <3>1. PICK w : w = [job[c].ob EXCEPT !.status = "updating", !.preview = NoPreview,
                                         !.attempts[i] = "pending"]
      OBVIOUS
    <3>2. job[c].ob \in Obs
      BY <1>t, Mine
    <3>3. w.managed = job[c].ob.managed /\ w.attempts = [job[c].ob.attempts EXCEPT ![i] = "pending"]
      BY <3>1, <3>2 DEF Obs
    <3> QED
      BY <2>2, <3>1, <3>3
  <2>4. j.token = i /\ j.ob.managed = Nothing
    BY DEF NoJob
  <2>5. Owned'
    <3>1. place \notin Early /\ place \notin {"completing", "starting"} /\ pc[c] \in Tokened
      BY <2>2 DEF Early, Tokened
    <3> HIDE DEF place, j
    <3> QED
      BY <2>1, <2>2, <2>4, <3>1, OwnedMoves
  <2>6. Shaped'
    BY <1>t, <1>u, <2>2, ShapedKept, Numbers DEF Typed, BoundTyped
  <2>7. ob' = w
    BY <2>3 DEF Write
  <2>8. SnapshotsSeen'
    <3>1. Seen(ob'.managed) /\ Seen(j.ob.managed) /\ place \notin {"inspected", "previewing"}
      BY <1>t, <2>3, <2>4, <2>7 DEF SnapshotsSeen, Seen
    <3> HIDE DEF place, j
    <3> QED
      BY <2>2, <3>1, SeenMoves
  <2>9. AttemptsBacked'
    <3> SUFFICES ASSUME lost' = {} PROVE AttemptsBacked'
      BY DEF AttemptsBacked
    <3>1. lost = {} /\ job[c].ob.attempts = ob.attempts
      BY <1>t, <2>3, WriteKeeps
    <3>2. \A k \in Ids : ob.attempts[k] # "pending"
      BY <1>t, <2>2, <3>1 DEF Owned
    <3>3. ob.attempts \in [Ids -> {"none", "pending"} \cup Terminal]
      BY <1>t DEF Typed, StoreTyped, Obs, Attempts
    <3>4. ob'.attempts[i] = "pending" /\ \A k \in Ids : k # i => ob'.attempts[k] = ob.attempts[k]
      BY <2>3, <2>7, <3>1, <3>3
    <3>5. /\ pc'[c] = place /\ job'[c] = j
          /\ \A d \in Pages : d # c => pc'[d] = pc[d] /\ job'[d] = job[d]
      BY <1>t, <2>2, Moves
    <3>6. run[i].stage = "none" /\ run[i].done = {} /\ run[i].after = Nothing
      BY <1>t, <2>1, <2>2 DEF Owned, Early, Shaped, Shape
    <3>7. Backed(run[i], "pending", console)
      BY <3>6 DEF Backed, Active, Terminal
    <3>8. \A k \in Ids : Backed(run'[k], ob'.attempts[k], console')
      BY <1>t, <2>2, <3>1, <3>4, <3>7 DEF AttemptsBacked
    <3>9. \A k, l \in Ids : ob'.attempts[k] = "pending" /\ ob'.attempts[l] = "pending" => k = l
      BY <3>2, <3>4
    <3>10. ASSUME NEW d \in Pages, pc'[d] = "updating", run'[job'[d].token].stage = "none"
           PROVE  ob'.attempts[job'[d].token] = "pending"
      <4>1. CASE d = c
        BY <2>4, <3>4, <3>5, <4>1
      <4>2. CASE d # c
        <5>1. pc[d] = "updating" /\ job'[d] = job[d] /\ run' = run
          BY <2>2, <3>5, <3>10, <4>2
        <5>2. job[d].token \in Ids
          BY <1>t, <5>1, Mine DEF Tokened
        <5>3. ob.attempts[job[d].token] = "pending"
          BY <1>t, <3>1, <3>10, <5>1 DEF AttemptsBacked, Pending
        <5> QED
          BY <3>2, <5>2, <5>3
      <4> QED
        BY <4>1, <4>2
    <3> QED
      BY <3>8, <3>9, <3>10 DEF AttemptsBacked, Pending
  <2> QED
    BY <1>u, <2>5, <2>6, <2>8, <2>9 DEF Inv
<1> QED
  BY <1>1, <1>2, <1>3, <1>4 DEF Update

LEMMA LeaveInv == ASSUME Inv, NEW c \in Pages, LeavePage(c) PROVE Inv'
<1>1. Typed'
  BY LeaveTyped DEF Inv
<1>2. Leave(c) /\ UNCHANGED <<ob, run, console, shown, lost, bound>>
  BY DEF LeavePage, task
<1> QED
  BY <1>1, <1>2, PageLeaves

(* The service apart, an answer that agrees with what was asked shows it.    *)
LEMMA AgreeShows ==
    ASSUME NEW i \in Ids, NEW left, NEW right, Agree(i, left, right)
    PROVE  /\ Visible(left) = Visible(right)
           /\ \A p \in Changes(i) : p \in Parts => left[p] = right[p]
<1>1. \A p \in Parts \ {"services"} : left[p] = right[p]
  BY DEF Agree
<1>2. \A p \in Changes(i) : p \in Parts => left[p] = right[p]
  BY DEF Agree
<1> QED
  BY <1>1, <1>2 DEF Visible

LEMMA CompleteInv == ASSUME Inv, NEW c \in Pages, Complete(c) PROVE Inv'
<1>t. Typed /\ Owned /\ Shaped /\ SnapshotsSeen /\ AttemptsBacked
  BY DEF Inv
<1>u. Typed'
  BY <1>t, CompleteTyped
<1>1. CASE CompleteRead(c)
  <2> DEFINE place == "completing"
  <2> DEFINE j == Read(c)
  <2>1. /\ Goto(c, place, j) /\ UNCHANGED <<task, memory, run, console, bound, history>>
        /\ pc[c] \in Tokened /\ run[job[c].token].stage = "answered"
    BY <1>1 DEF CompleteRead, Tokened
  <2>2. j.token = job[c].token /\ Seen(j.ob.managed)
    BY <1>t, Mine DEF SnapshotsSeen
  <2>3. place \notin Early /\ place \notin {"updating", "starting", "inspected", "previewing"}
    BY DEF Early
  <2> HIDE DEF place, j
  <2> QED
    BY <1>u, <2>1, <2>2, <2>3, PageMoves DEF task, history
<1>2. CASE CompleteRefuse(c) \/ CompleteMissing(c) \/ StoreFails(c)
  <2>1. Leave(c) /\ UNCHANGED <<ob, run, console, shown, lost, bound>>
    BY <1>2 DEF CompleteRefuse, CompleteMissing, StoreFails, task, history
  <2> QED
    BY <1>u, <2>1, PageLeaves
<1>3. CASE CompleteWrite(c)
  <2>1. PICK i \in Ids : i = job[c].token
    BY <1>3, <1>t, Mine DEF CompleteWrite, Tokened
  <2>2. PICK outcome \in Terminal : outcome = Outcome(i)
    BY DEF Outcome, Terminal
  <2>3. PICK managed : managed = IF outcome = "succeeded"
                                 THEN WithService(run[i].desired, job[c].ob.managed)
                                 ELSE job[c].ob.managed
    OBVIOUS
  <2>4. run[i].stage = "answered" /\ run[i] \in Runs /\ job[c].ob \in Obs
    BY <1>3, <1>t, <2>1, Mine DEF CompleteWrite, Owned, Typed, RunsTyped
  <2>5. Seen(managed)
    <3>1. CASE outcome = "succeeded"
      <4>1. run[i].after # Nothing /\ Agree(i, run[i].after, run[i].desired)
        BY <2>2, <3>1 DEF Outcome
      <4>2. Visible(managed) = Visible(run[i].desired)
        BY <2>3, <2>4, <3>1, Services DEF Runs, Obs
      <4>3. Visible(managed) = Visible(run[i].after)
        BY <4>1, <4>2, AgreeShows
      <4>4. Visible(run[i].after) \in shown
        BY <1>t, <4>1 DEF SnapshotsSeen, Seen
      <4> QED
        BY <4>3, <4>4 DEF Seen
    <3>2. CASE outcome # "succeeded"
      BY <1>t, <2>3, <3>2 DEF SnapshotsSeen
    <3> QED
      BY <3>1, <3>2
  <2>6. PICK w : /\ Write(c, w) /\ w.managed = managed
                 /\ w.attempts = [job[c].ob.attempts EXCEPT ![i] = outcome]
    <3>1. PICK w : w = [job[c].ob EXCEPT !.status = StatusAfter(outcome), !.preview = NoPreview,
                          !.attempts[i] = outcome,
                          !.managed = IF outcome = "succeeded"
                                      THEN WithService(run[i].desired, @) ELSE @]
      OBVIOUS
    <3>2. Write(c, w)
      BY <1>3, <2>1, <2>2, <3>1 DEF CompleteWrite
    <3>3. w.managed = managed /\ w.attempts = [job[c].ob.attempts EXCEPT ![i] = outcome]
      BY <2>3, <2>4, <3>1 DEF Obs
    <3> QED
      BY <3>2, <3>3
  <2>7. /\ Leave(c) /\ pc[c] = "completing" /\ ob' = w
        /\ UNCHANGED <<desired, version, previews, run, console, bound, shown, abandoned>>
    BY <1>3, <2>6 DEF CompleteWrite, Write
  <2> DEFINE place == "idle"
  <2> DEFINE j == NoJob
  <2>8. /\ Goto(c, place, j) /\ Seen(j.ob.managed) /\ place \notin Tokened /\ place \notin Early
        /\ place \notin {"updating", "completing", "starting", "inspected", "previewing"}
    BY <2>7 DEF Leave, Tokened, Early, Seen, NoJob
  <2> HIDE DEF place, j
  <2>9. Owned'
    BY <2>7, <2>8, OwnedMoves
  <2>10. Shaped'
    BY <1>t, <1>u, <2>7, ShapedKept, Numbers DEF Typed, BoundTyped
  <2>11. SnapshotsSeen'
    BY <2>5, <2>6, <2>7, <2>8, SeenMoves
  <2>12. AttemptsBacked'
    <3> SUFFICES ASSUME lost' = {} PROVE AttemptsBacked'
      BY DEF AttemptsBacked
    <3>1. lost = {} /\ job[c].ob.attempts = ob.attempts
      BY <1>t, <2>6, WriteKeeps
    <3>2. ob.attempts \in [Ids -> {"none", "pending"} \cup Terminal]
      BY <1>t DEF Typed, StoreTyped, Obs, Attempts
    <3>3. ob'.attempts[i] = outcome /\ \A k \in Ids : k # i => ob'.attempts[k] = ob.attempts[k]
      BY <2>6, <2>7, <3>1, <3>2
    <3>4. /\ pc'[c] = place
          /\ \A d \in Pages : d # c => pc'[d] = pc[d] /\ job'[d] = job[d]
      BY <1>t, <2>8, Moves
    <3>5. Backed(run[i], ob.attempts[i], console)
      BY <1>t, <3>1 DEF AttemptsBacked
    <3>6. outcome = "failed" /\ ~run[i].disturbed => run[i].done = {} \/ run[i].after = Nothing
      <4> SUFFICES ASSUME outcome = "failed", ~run[i].disturbed, run[i].after # Nothing,
                          NEW p \in run[i].done
                   PROVE  FALSE
        OBVIOUS
      <4>1. Agree(i, run[i].after, run[i].expected)
        BY <2>2 DEF Outcome
      <4>2. p \in Changes(i) /\ p \in Parts
        BY <1>t, <2>4 DEF Shaped, Shape, ChangesOf, Changes, Runs
      <4>3. run[i].after[p] = run[i].expected[p]
        BY <4>1, <4>2, AgreeShows
      <4>4. run[i].after[p] = run[i].desired[p]
        BY <2>4, <3>5 DEF Backed
      <4>5. run[i].expected[p] # run[i].desired[p]
        BY <4>2 DEF Changes, Diff
      <4> QED
        BY <4>3, <4>4, <4>5
    <3>7. Backed(run[i], outcome, console)
      BY <2>4, <3>5, <3>6 DEF Backed, Active
    <3>8. \A k \in Ids : Backed(run'[k], ob'.attempts[k], console')
      BY <1>t, <2>7, <3>1, <3>3, <3>7 DEF AttemptsBacked
    <3>9. \A k, l \in Ids : ob'.attempts[k] = "pending" /\ ob'.attempts[l] = "pending" => k = l
      BY <1>t, <3>1, <3>3 DEF AttemptsBacked, Pending, Terminal
    <3>10. ASSUME NEW d \in Pages, pc'[d] = "updating", run'[job'[d].token].stage = "none"
           PROVE  ob'.attempts[job'[d].token] = "pending"
      <4>1. d # c /\ pc[d] = "updating" /\ job'[d] = job[d] /\ run' = run
        BY <2>7, <2>8, <3>4, <3>10
      <4>2. job[d].token \in Ids /\ ob.attempts[job[d].token] = "pending"
        BY <1>t, <3>1, <3>10, <4>1, Mine DEF AttemptsBacked, Pending, Tokened
      <4>3. job[d].token # i
        BY <2>4, <3>10, <4>1
      <4> QED
        BY <3>3, <4>1, <4>2, <4>3
    <3> QED
      BY <3>8, <3>9, <3>10 DEF AttemptsBacked, Pending
  <2> QED
    BY <1>u, <2>9, <2>10, <2>11, <2>12 DEF Inv
<1> QED
  BY <1>1, <1>2, <1>3 DEF Complete

(* A helper's step; the only attempt under way is the one it works on.       *)
LEMMA RunInv ==
    ASSUME Inv, NEW i \in Ids, NEW r, Ran(i, r),
           Begun(i, r) => \E c \in Pages : pc[c] = "updating" /\ job[c].token = i
    PROVE  Inv'
<1>t. Typed /\ Owned /\ Shaped /\ SnapshotsSeen /\ AttemptsBacked
  BY DEF Inv
<1>u. Typed' /\ r \in Runs
  BY <1>t, RunTyped
<1>1. /\ run' = [run EXCEPT ![i] = r]
      /\ UNCHANGED <<pc, job, ob, bound, lost>>
      /\ Begun(i, r) \/ Saved(i, r) \/ Broken(i, r) \/ Answered(i, r)
  BY DEF Ran, task
<1>2. run[i] \in Runs /\ run'[i] = r /\ \A k \in Ids : k # i => run'[k] = run[k]
  BY <1>t, <1>1, OneRun
<1>3. /\ Begun(i, r) => run[i].stage = "none"
      /\ ~Begun(i, r) => run[i].stage \in Active
      /\ r.stage # "none"
  BY <1>1, <1>2 DEF Begun, Saved, Broken, Answered, Active, Runs
<1>4. i <= bound.previews /\ bound.previews \in Nat /\ i \in Nat
  <2>1. bound.previews \in Nat
    BY <1>t, Numbers DEF Typed, BoundTyped
  <2>2. CASE Begun(i, r)
    BY <1>t, <2>1, <2>2, Numbers DEF Typed, PagesTyped, Tokened
  <2>3. CASE ~Begun(i, r)
    BY <1>3, <1>t, <2>1, <2>3, Numbers DEF Shaped, Active
  <2> QED
    BY <2>1, <2>2, <2>3, Numbers
<1>5. \A c \in Pages : pc[c] \in Early \/ pc[c] = "completing" => job[c].token # i
  <2> SUFFICES ASSUME NEW c \in Pages, pc[c] \in Early \/ pc[c] = "completing", job[c].token = i
               PROVE  FALSE
    OBVIOUS
  <2>1. CASE Begun(i, r)
    <3>1. PICK d \in Pages : pc[d] = "updating" /\ job[d].token = i
      BY <2>1
    <3>2. c = d
      BY <1>t, <3>1 DEF Owned, Early, Tokened
    <3> QED
      BY <3>1, <3>2 DEF Early
  <2>2. CASE ~Begun(i, r)
    BY <1>3, <1>t, <2>2 DEF Owned, Active
  <2> QED
    BY <2>1, <2>2
<1>6. Owned'
  <2>1. \A c \in Pages : pc[c] \in Tokened => job[c].token \in Ids
    BY <1>t DEF Typed, PagesTyped
  <2>2. \A c \in Pages :
          /\ pc[c] \in Early => run'[job[c].token].stage = "none"
          /\ pc[c] = "completing" => run'[job[c].token].stage = "answered"
    BY <1>2, <1>5, <1>t, <2>1 DEF Owned, Early, Tokened
  <2>3. \A c, d \in Pages :
          pc[c] \in Tokened /\ pc[d] \in Tokened /\ job[c].token = job[d].token => c = d
    BY <1>t DEF Owned
  <2>4. \A c \in Pages : pc[c] = "starting" => \A k \in Ids : job[c].ob.attempts[k] # "pending"
    BY <1>t DEF Owned
  <2>5. pc' = pc /\ job' = job
    BY <1>1
  <2> QED
    BY <2>2, <2>3, <2>4, <2>5 DEF Owned
<1>7. /\ r.expected = run[i].expected /\ r.desired = run[i].desired
      /\ r.disturbed = run[i].disturbed
      /\ \/ r.done = run[i].done /\ ~Saved(i, r)
         \/ \E p \in Changes(i) \ run[i].done :
              /\ r.done = run[i].done \cup {p} /\ r.stage \in {"saved", "saving"}
              /\ console' = [console EXCEPT ![p] = run[i].desired[p]]
              /\ run[i].stage = "saving"
  <2>1. CASE Saved(i, r)
    BY <1>2, <2>1 DEF Saved, Runs
  <2>2. CASE ~Saved(i, r)
    BY <1>1, <1>2, <2>2 DEF Begun, Broken, Answered, Runs
  <2> QED
    BY <2>1, <2>2
<1>8. ChangesOf(r) = ChangesOf(run[i]) /\ Changes(i) = ChangesOf(run[i])
  BY <1>7 DEF ChangesOf, Changes
<1>9. /\ Shape(run[i]) /\ run[i].after = Nothing
      /\ r.stage # "answered" => r.after = Nothing
      /\ r.after = Nothing \/ r.after = console
  <2>1. Shape(run[i]) /\ run[i].after = Nothing
    BY <1>3, <1>t DEF Shaped, Shape, Active
  <2> QED
    BY <1>1, <1>2, <2>1 DEF Begun, Saved, Broken, Answered, Runs
<1>10. Shaped'
  <2>1. Shape(r)
    BY <1>3, <1>7, <1>8, <1>9 DEF Shape
  <2>2. \A k \in Ids : Shape(run'[k]) /\ (k > bound'.previews => run'[k].stage = "none")
    BY <1>1, <1>2, <1>4, <1>t, <2>1 DEF Shaped
  <2> QED
    BY <2>2 DEF Shaped, Shape
<1>11. SnapshotsSeen'
  <2>1. shown \subseteq shown' /\ Visible(console') \in shown'
    BY <1>1, <1>t DEF Begun, Saved, Broken, Answered, SnapshotsSeen
  <2>2. \A k \in Ids : run'[k].after = Nothing \/ Visible(run'[k].after) \in shown'
    BY <1>2, <1>9, <1>t, <2>1 DEF SnapshotsSeen, Seen
  <2> QED
    BY <1>1, <1>t, <2>1, <2>2 DEF SnapshotsSeen, Seen, Visible
<1>12. AttemptsBacked'
  <2> SUFFICES ASSUME lost' = {} PROVE AttemptsBacked'
    BY DEF AttemptsBacked
  <2>1. lost = {} /\ ob' = ob /\ pc' = pc /\ job' = job
    BY <1>1
  <2>2. Backed(run[i], ob.attempts[i], console)
    BY <1>t, <2>1 DEF AttemptsBacked
  <2>3. ob.attempts[i] = "pending"
    <3>1. CASE Begun(i, r)
      BY <1>3, <1>t, <2>1, <3>1 DEF AttemptsBacked, Pending
    <3>2. CASE ~Begun(i, r)
      BY <1>3, <2>2, <3>2 DEF Backed
    <3> QED
      BY <3>1, <3>2
  <2>4. \A k \in Ids : k # i => Backed(run'[k], ob'.attempts[k], console')
    <3> SUFFICES ASSUME NEW k \in Ids, k # i PROVE Backed(run[k], ob.attempts[k], console')
      BY <1>2, <2>1
    <3>1. Backed(run[k], ob.attempts[k], console) /\ ob.attempts[k] # "pending"
      BY <1>t, <2>1, <2>3 DEF AttemptsBacked, Pending
    <3> QED
      BY <3>1 DEF Backed, Active
  <2>5. Backed(r, "pending", console')
    <3>1. ~r.disturbed /\ r.stage \in Active => \A p \in r.done : console'[p] = r.desired[p]
      <4>1. CASE Begun(i, r)
        BY <1>3, <1>7, <1>9, <4>1 DEF Begun, Shape, Saved
      <4>2. CASE Saved(i, r)
        <5>1. \A p \in run[i].done : console[p] = run[i].desired[p] \/ run[i].disturbed
          BY <2>2, <4>2 DEF Backed, Saved, Active
        <5>2. PICK p \in Changes(i) \ run[i].done :
                /\ r.done = run[i].done \cup {p}
                /\ console' = [console EXCEPT ![p] = run[i].desired[p]]
          BY <1>7, <4>2
        <5>3. console \in [Parts -> 0..Foreign] /\ run[i].done \subseteq Parts /\ p \in Parts
          BY <1>2, <1>t, <5>2 DEF Typed, WorldTyped, Snapshots, Runs, Changes, Diff
        <5> QED
          BY <1>7, <5>1, <5>2, <5>3
      <4>3. CASE Broken(i, r) \/ Answered(i, r)
        <5>1. console' = console /\ run[i].stage \in Active /\ r.done = run[i].done
          BY <1>2, <4>3 DEF Broken, Answered, Active, Runs
        <5> QED
          BY <1>7, <2>2, <5>1 DEF Backed
      <4> QED
        BY <1>1, <4>1, <4>2, <4>3
    <3>2. ~r.disturbed /\ r.stage = "saving" =>
             \A p \in ChangesOf(r) \ r.done : console'[p] = r.expected[p]
      <4>1. CASE Begun(i, r)
        <5>1. console' = console /\ (r.stage = "saving" => Agree(i, console, run[i].expected))
          BY <1>2, <4>1 DEF Begun, Runs
        <5>2. \A p \in ChangesOf(r) : p \in Parts /\ p \in Changes(i)
          BY <1>8 DEF ChangesOf, Diff
        <5> QED
          BY <1>7, <5>1, <5>2, AgreeShows
      <4>2. CASE Saved(i, r)
        <5>1. PICK p \in Changes(i) \ run[i].done :
                /\ r.done = run[i].done \cup {p} /\ run[i].stage = "saving"
                /\ console' = [console EXCEPT ![p] = run[i].desired[p]]
          BY <1>7, <4>2
        <5>2. \A q \in ChangesOf(run[i]) \ run[i].done :
                 console[q] = run[i].expected[q] \/ run[i].disturbed
          BY <2>2, <5>1 DEF Backed
        <5>3. \A q \in ChangesOf(r) \ r.done : q \in ChangesOf(run[i]) \ run[i].done /\ q # p
          BY <1>8, <5>1
        <5>4. \A q : q # p /\ q \in Parts => console'[q] = console[q]
          BY <1>t, <5>1 DEF Typed, WorldTyped, Snapshots
        <5>5. ChangesOf(r) \subseteq Parts
          BY DEF ChangesOf, Diff
        <5> QED
          BY <1>7, <5>2, <5>3, <5>4, <5>5
      <4>3. CASE Broken(i, r) \/ Answered(i, r)
        BY <1>2, <4>3 DEF Broken, Answered, Runs
      <4> QED
        BY <1>1, <4>1, <4>2, <4>3
    <3>3. ~r.disturbed /\ r.stage = "answered" /\ r.after # Nothing =>
             \A p \in r.done : r.after[p] = r.desired[p]
      <4> SUFFICES ASSUME ~r.disturbed, r.stage = "answered", r.after # Nothing
                   PROVE  \A p \in r.done : r.after[p] = r.desired[p]
        OBVIOUS
      <4>1. Answered(i, r) /\ r.after = console
        BY <1>1, <1>2, <1>9 DEF Begun, Saved, Broken, Runs
      <4>2. run[i].stage \in Active /\ r.done = run[i].done
        BY <1>2, <4>1 DEF Answered, Active, Runs
      <4> QED
        BY <1>7, <2>2, <4>1, <4>2 DEF Backed
    <3> QED
      BY <3>1, <3>2, <3>3 DEF Backed, Terminal
  <2>6. \A k \in Ids : Backed(run'[k], ob'.attempts[k], console')
    BY <1>2, <2>1, <2>3, <2>4, <2>5
  <2>7. \A k, l \in Ids : ob'.attempts[k] = "pending" /\ ob'.attempts[l] = "pending" => k = l
    BY <1>t, <2>1 DEF AttemptsBacked, Pending
  <2>8. ASSUME NEW d \in Pages, pc'[d] = "updating", run'[job'[d].token].stage = "none"
        PROVE  ob'.attempts[job'[d].token] = "pending"
    <3>1. job[d].token \in Ids /\ pc[d] = "updating" /\ run'[job[d].token].stage = "none"
      BY <1>t, <2>1, <2>8, Mine DEF Tokened
    <3>2. job[d].token # i
      BY <1>2, <1>3, <3>1
    <3> QED
      BY <1>2, <1>t, <2>1, <3>1, <3>2 DEF AttemptsBacked, Pending
  <2> QED
    BY <2>6, <2>7, <2>8 DEF AttemptsBacked, Pending
<1> QED
  BY <1>u, <1>6, <1>10, <1>11, <1>12 DEF Inv

LEMMA WorldInv ==
    ASSUME Inv, Edit \/ HandChange \/ PreparationExpires \/ ServerRestart \/ UNCHANGED vars
    PROVE  Inv'
<1>t. Typed /\ Owned /\ Shaped /\ SnapshotsSeen /\ AttemptsBacked
  BY DEF Inv
<1>u. Typed'
  BY <1>t, WorldSteps
<1>1. CASE Edit \/ PreparationExpires \/ UNCHANGED vars
  <2>1. UNCHANGED <<ob, pc, job, run, console, bound, shown, lost>>
    BY <1>1 DEF Edit, PreparationExpires, vars, task, history
  <2>2. Owned'
    BY <1>t, <2>1 DEF Owned
  <2>3. Shaped'
    BY <1>t, <2>1 DEF Shaped, Shape
  <2>4. SnapshotsSeen'
    BY <1>t, <2>1 DEF SnapshotsSeen, Seen, Visible
  <2>5. AttemptsBacked'
    BY <1>t, <2>1 DEF AttemptsBacked, Backed, Pending
  <2> QED
    BY <1>u, <2>2, <2>3, <2>4, <2>5 DEF Inv
<1>2. CASE HandChange
  <2>1. /\ UNCHANGED <<ob, pc, job, lost>> /\ bound' = [bound EXCEPT !.hands = @ + 1]
        /\ shown' = shown \cup {Visible(console')}
        /\ run' = [i \in Ids |-> [run[i] EXCEPT !.disturbed = run[i].stage # "none"]]
    BY <1>2 DEF HandChange, task
  <2>2. bound'.previews = bound.previews
    BY <1>t, <2>1 DEF Typed, BoundTyped
  <2>3. \A i \in Ids :
          /\ run'[i].stage = run[i].stage /\ run'[i].done = run[i].done
          /\ run'[i].after = run[i].after /\ run'[i].expected = run[i].expected
          /\ run'[i].desired = run[i].desired /\ run'[i].disturbed = (run[i].stage # "none")
    BY <1>t, <2>1 DEF Typed, RunsTyped, Runs
  <2>4. Owned'
    <3>1. \A c \in Pages : pc[c] \in Tokened => job[c].token \in Ids
      BY <1>t DEF Typed, PagesTyped
    <3>2. \A c \in Pages :
            /\ pc[c] \in Early => run'[job[c].token].stage = "none"
            /\ pc[c] = "completing" => run'[job[c].token].stage = "answered"
      BY <1>t, <2>3, <3>1 DEF Owned, Early, Tokened
    <3> QED
      BY <1>t, <2>1, <3>2 DEF Owned
  <2>5. Shaped'
    <3>1. \A i \in Ids : Shape(run'[i]) /\ (i > bound'.previews => run'[i].stage = "none")
      BY <1>t, <2>2, <2>3 DEF Shaped, Shape, ChangesOf
    <3> QED
      BY <3>1 DEF Shaped, Shape
  <2>6. SnapshotsSeen'
    <3>1. \A i \in Ids : run'[i].after = Nothing \/ Visible(run'[i].after) \in shown'
      BY <1>t, <2>1, <2>3 DEF SnapshotsSeen, Seen
    <3> QED
      BY <1>t, <2>1, <3>1 DEF SnapshotsSeen, Seen, Visible
  <2>7. AttemptsBacked'
    <3> SUFFICES ASSUME lost' = {} PROVE AttemptsBacked'
      BY DEF AttemptsBacked
    <3>1. lost = {} /\ ob' = ob /\ pc' = pc /\ job' = job
      BY <2>1
    <3>2. ASSUME NEW i \in Ids PROVE Backed(run'[i], ob'.attempts[i], console')
      <4>1. Backed(run[i], ob.attempts[i], console)
        BY <1>t, <3>1 DEF AttemptsBacked
      <4>2. CASE run[i].stage = "none"
        BY <2>3, <3>1, <4>1, <4>2 DEF Backed, Active, Terminal
      <4>3. CASE run[i].stage # "none"
        BY <2>3, <3>1, <4>1, <4>3 DEF Backed
      <4> QED
        BY <4>2, <4>3
    <3>3. \A i, k \in Ids : ob'.attempts[i] = "pending" /\ ob'.attempts[k] = "pending" => i = k
      BY <1>t, <3>1 DEF AttemptsBacked, Pending
    <3>4. ASSUME NEW d \in Pages, pc'[d] = "updating", run'[job'[d].token].stage = "none"
          PROVE  ob'.attempts[job'[d].token] = "pending"
      <4>1. job[d].token \in Ids /\ pc[d] = "updating" /\ run'[job[d].token].stage = "none"
        BY <1>t, <3>1, <3>4, Mine DEF Tokened
      <4>2. run[job[d].token].stage = "none"
        BY <2>3, <4>1
      <4> QED
        BY <1>t, <3>1, <4>1, <4>2 DEF AttemptsBacked, Pending
    <3> QED
      BY <3>2, <3>3, <3>4 DEF AttemptsBacked, Pending
  <2> QED
    BY <1>u, <2>4, <2>5, <2>6, <2>7 DEF Inv
<1>3. CASE ServerRestart
  <2>1. /\ UNCHANGED <<ob, run, console, bound, shown, lost>>
        /\ pc' = [c \in Pages |-> IF pc[c] \in Unnoticed THEN pc[c] ELSE "idle"]
        /\ job' = [c \in Pages |-> IF pc[c] \in Unnoticed THEN job[c] ELSE NoJob]
    BY <1>3 DEF ServerRestart, task
  <2>2. \A c \in Pages :
          \/ pc'[c] = pc[c] /\ job'[c] = job[c]
          \/ pc'[c] = "idle" /\ job'[c] = NoJob
    BY <2>1
  <2>3. Owned'
    <3>1. /\ \A c, d \in Pages :
                pc'[c] \in Tokened /\ pc'[d] \in Tokened /\ job'[c].token = job'[d].token => c = d
      BY <1>t, <2>2 DEF Owned, Tokened
    <3>2. ASSUME NEW c \in Pages
          PROVE  /\ pc'[c] \in Early => run[job'[c].token].stage = "none"
                 /\ pc'[c] = "completing" => run[job'[c].token].stage = "answered"
                 /\ pc'[c] = "starting" => \A i \in Ids : job'[c].ob.attempts[i] # "pending"
      BY <1>t, <2>2 DEF Owned, Early
    <3> QED
      BY <2>1, <3>1, <3>2 DEF Owned
  <2>4. Shaped'
    BY <1>t, <2>1 DEF Shaped, Shape
  <2>5. SnapshotsSeen'
    <3>1. NoJob.ob.managed = Nothing
      BY DEF NoJob
    <3>2. ASSUME NEW c \in Pages
          PROVE  /\ job'[c].ob.managed = Nothing \/ Visible(job'[c].ob.managed) \in shown
                 /\ pc'[c] \in {"inspected", "previewing"} => Visible(job'[c].inspected) \in shown
      BY <1>t, <2>2, <3>1 DEF SnapshotsSeen, Seen
    <3> QED
      BY <1>t, <2>1, <3>2 DEF SnapshotsSeen, Seen, Visible
  <2>6. AttemptsBacked'
    <3>1. \A c \in Pages : pc'[c] = "updating" => pc[c] = "updating" /\ job'[c] = job[c]
      BY <2>2
    <3> QED
      BY <1>t, <2>1, <3>1 DEF AttemptsBacked, Backed, Pending
  <2> QED
    BY <1>u, <2>3, <2>4, <2>5, <2>6 DEF Inv
<1> QED
  BY <1>1, <1>2, <1>3

LEMMA HelperInv ==
    ASSUME Inv, NEW i \in Ids,
           Helper(i) \/ \E c \in Pages : HelperStart(c) /\ job[c].token = i
    PROVE  Inv'
<1>1. PICK r : Ran(i, r)
  BY HelperSteps DEF Inv
<1>2. Begun(i, r) => \E c \in Pages : pc[c] = "updating" /\ job[c].token = i
  <2>1. CASE Helper(i)
    BY <2>1 DEF Helper, HelperSave, HelperFails, HelperVerify, HelperReadback, HelperUnread, Begun
  <2>2. CASE \E c \in Pages : HelperStart(c) /\ job[c].token = i
    BY <2>2 DEF HelperStart
  <2> QED
    BY <2>1, <2>2
<1> QED
  BY <1>1, <1>2, RunInv

LEMMA InvStep == ASSUME Inv, [Next]_vars PROVE Inv'
<1>1. ASSUME NEW c \in Pages, HelperStart(c) PROVE Inv'
  <2>1. PICK i \in Ids : i = job[c].token
    BY <1>1, StartsToken DEF Inv
  <2> QED
    BY <1>1, <2>1, HelperInv
<1> QED
  BY <1>1, HelperInv, PreviewInv, UpdateInv, LeaveInv, CompleteInv, WorldInv DEF Next

(* The inductive invariant: one unfinished attempt at most until a stale     *)
(* write, and what each helper's run has done to the console so far.         *)
THEOREM InvHolds == Spec => []Inv
  BY InvInit, InvStep, PTL DEF Spec

-----------------------------------------------------------------------------
(* Two helpers never write the batch at the same time, unless a stale write  *)
(* dropped the unfinished attempt: while attempts are only added by          *)
(* update/apply, a second update finds the first one unfinished.             *)
LEMMA InvOneWriter == Inv => OneWriter
<1> SUFFICES ASSUME Inv, lost = {} PROVE Cardinality(Writing) <= 1
  BY DEF OneWriter
<1>1. \A i \in Writing : i \in Ids /\ Pending(i)
  BY DEF Inv, AttemptsBacked, Backed, Writing, Active, Pending
<1>2. \A i, k \in Writing : i = k
  BY <1>1 DEF Inv, AttemptsBacked
<1>3. CASE Writing = {}
  BY <1>3, FS_EmptySet
<1>4. CASE Writing # {}
  <2>1. PICK i : Writing = {i}
    BY <1>2, <1>4
  <2> QED
    BY <2>1, FS_Singleton
<1> QED
  BY <1>3, <1>4

THEOREM OneWriterHolds == Spec => []OneWriter
  BY InvHolds, InvOneWriter, PTL

(* The managed snapshot was on the console's page as a whole at some moment, *)
(* however updates broke off half-way and whatever writes undid.             *)
LEMMA InvSnapshot == Inv => SnapshotWasShown
  BY DEF Inv, SnapshotsSeen, Seen, SnapshotWasShown

THEOREM SnapshotWasShownHolds == Spec => []SnapshotWasShown
  BY InvHolds, InvSnapshot, PTL

(* An attempt that failed saved nothing, unless the batch could not be read  *)
(* after the error, was changed by hand or a stale write undid an attempt.   *)
LEMMA InvFailed == Inv => FailedMeansUntouched
  BY DEF Inv, AttemptsBacked, Backed, FailedMeansUntouched

THEOREM FailedMeansUntouchedHolds == Spec => []FailedMeansUntouched
  BY InvHolds, InvFailed, PTL

(* What an update overwrites is what its operator was shown in the preview,  *)
(* unless somebody changed the batch after the helper had looked.            *)
Overwrites ==
    \A i \in Ids, p \in Parts :
        p \in run'[i].done \ run[i].done =>
            console[p] = run[i].expected[p] \/ run[i].disturbed \/ lost # {}

LEMMA RunOverwrites ==
    ASSUME Inv, NEW i \in Ids,
           Helper(i) \/ \E c \in Pages : HelperStart(c) /\ job[c].token = i
    PROVE  Overwrites
<1>t. Typed /\ AttemptsBacked
  BY DEF Inv
<1>1. PICK r : Ran(i, r)
  BY <1>t, HelperSteps
<1>2. /\ run[i] \in Runs /\ run'[i] = r /\ \A k \in Ids : k # i => run'[k] = run[k]
  BY <1>t, <1>1, OneRun DEF Ran
<1>3. CASE Saved(i, r)
  <2>1. PICK p \in Changes(i) \ run[i].done :
          run[i].stage = "saving" /\ r.done = run[i].done \cup {p}
    BY <1>2, <1>3 DEF Saved, Runs
  <2>2. p \in ChangesOf(run[i]) \ run[i].done
    BY <2>1 DEF ChangesOf, Changes
  <2>3. console[p] = run[i].expected[p] \/ run[i].disturbed \/ lost # {}
    BY <1>t, <2>1, <2>2 DEF AttemptsBacked, Backed
  <2> QED
    BY <1>2, <2>1, <2>3 DEF Overwrites
<1>4. CASE ~Saved(i, r)
  <2>1. r.done = run[i].done
    BY <1>1, <1>2, <1>4 DEF Ran, Begun, Broken, Answered, Runs
  <2> QED
    BY <1>2, <2>1 DEF Overwrites
<1> QED
  BY <1>3, <1>4

LEMMA StepOverwrites == ASSUME Inv, [Next]_vars PROVE Overwrites
<1>1. ASSUME UNCHANGED run PROVE Overwrites
  BY <1>1 DEF Overwrites
<1>2. ASSUME NEW i \in Ids, Helper(i) PROVE Overwrites
  BY <1>2, RunOverwrites
<1>3. ASSUME NEW c \in Pages, HelperStart(c) PROVE Overwrites
  <2>1. PICK i \in Ids : i = job[c].token
    BY <1>3, StartsToken DEF Inv
  <2> QED
    BY <1>3, <2>1, RunOverwrites
<1>4. ASSUME NEW c \in Pages, UpdatePrepare(c) PROVE Overwrites
  <2>1. \A i \in Ids : run'[i].done = run[i].done
    BY <1>4 DEF UpdatePrepare, Inv, Typed, RunsTyped, Runs
  <2> QED
    BY <2>1 DEF Overwrites
<1>5. CASE HandChange
  <2>1. \A i \in Ids : run'[i].done = run[i].done
    BY <1>5 DEF HandChange, Inv, Typed, RunsTyped, Runs
  <2> QED
    BY <2>1 DEF Overwrites
<1>6. ASSUME NEW c \in Pages,
             \/ Preview(c) \/ LeavePage(c) \/ Complete(c)
             \/ UpdateAsk(c) \/ UpdateLocked(c) \/ UpdateRead(c) \/ UpdateRefuse(c)
             \/ UpdateCommit(c)
      PROVE  Overwrites
  <2>1. UNCHANGED run
    BY <1>6
       DEF Preview, PreviewPrepare, Inspect, PreviewRead, PreviewRefuse, PreviewAligned,
           PreviewOffer, UpdateAsk, UpdateLocked, UpdateRead, UpdateRefuse, UpdateCommit,
           LeavePage, Complete, CompleteRead, CompleteRefuse, CompleteWrite, CompleteMissing,
           StoreFails
  <2> QED
    BY <1>1, <2>1
<1>7. CASE Edit \/ PreparationExpires \/ ServerRestart \/ UNCHANGED vars
  BY <1>1, <1>7 DEF Edit, PreparationExpires, ServerRestart, vars
<1> QED
  BY <1>2, <1>3, <1>4, <1>5, <1>6, <1>7 DEF Next, Update

THEOREM OverwritesOnlyConfirmedHolds == Spec => OverwritesOnlyConfirmed
<1>1. Inv /\ [Next]_vars => [Overwrites]_vars
  BY StepOverwrites
<1>2. [Overwrites]_vars =>
        [\A i \in Ids, p \in Parts :
            p \in run'[i].done \ run[i].done =>
                \/ console[p] = run[i].expected[p]
                \/ run[i].disturbed \/ lost # {}]_vars
  BY DEF Overwrites
<1> QED
  BY <1>1, <1>2, InvHolds, PTL DEF Spec, OverwritesOnlyConfirmed
=============================================================================
