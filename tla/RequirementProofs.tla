------------------------- MODULE RequirementProofs -------------------------
(***************************************************************************)
(* For any number of requests, fields, versions and changes: the store is  *)
(* well formed, no field changes unnamed, what is handed over was          *)
(* confirmed, a change is applied once, edits are overwritten knowingly,   *)
(* and the task has what was accepted.                                     *)
(***************************************************************************)
EXTENDS RequirementRequest, FiniteSetTheorems, TLAPS

(* ReadyWasConfirmed says nothing of the status from which a hand-over       *)
(* starts: a requirement that is confirmed was confirmed as it is.           *)
ConfirmedInv ==
    /\ status = "customer_confirmed" => confirmed = Latest
    /\ ReadyWasConfirmed

HandedOver == {"ready_for_manual_execution", "linked_to_execution_task"}
Settled == {"customer_confirmed"} \cup HandedOver

(* StatusOf knows two statuses, and a status that is not settled makes the   *)
(* invariant true whatever happens to the versions.                          *)
LEMMA Unsettled ==
    ASSUME status' \notin Settled
    PROVE  ConfirmedInv'
  BY DEF ConfirmedInv, ReadyWasConfirmed, Settled, HandedOver

LEMMA StatusOfUnsettled == ASSUME NEW content PROVE StatusOf(content) \notin Settled
  BY DEF StatusOf, Settled, HandedOver

(* Steps that change neither status nor versions, nor what was confirmed.    *)
LEMMA Undisturbed ==
    ASSUME ConfirmedInv, UNCHANGED <<status, versions, confirmed, overtaken>>
    PROVE  ConfirmedInv'
  BY DEF ConfirmedInv, ReadyWasConfirmed, Latest

(* Each step keeps the invariant.                                            *)
LEMMA ConfirmedStep ==
    ASSUME ConfirmedInv, [Next]_vars
    PROVE  ConfirmedInv'
<1> USE DEF store, history
<1>1. CASE UNCHANGED vars
  BY <1>1, Undisturbed DEF vars
<1>2. CASE Confirm
  BY <1>2 DEF Confirm, ConfirmedInv, ReadyWasConfirmed, Latest
<1>3. CASE Mark
  <2>1. status' \notin Settled
    BY <1>3 DEF Mark, Settled, HandedOver
  <2> QED
    BY <2>1, Unsettled
<1>4. ASSUME NEW c \in Clients,
             \/ UpsertRead(c) \/ NumberTaken(c) \/ ChangeBegin(c) \/ EditRead(c)
             \/ NumberRead(c) \/ AcceptLoad(c) \/ AcceptRefuse(c) \/ AcceptRead(c)
             \/ SyncRead(c) \/ SyncTask(c) \/ HandOverRead(c)
      PROVE  ConfirmedInv'
  <2>1. UNCHANGED <<status, versions, confirmed, overtaken>>
    BY <1>4 DEF UpsertRead, NumberTaken, ChangeBegin, EditRead, NumberRead, AcceptLoad,
                AcceptRefuse, AcceptRead, SyncRead, SyncTask, HandOverRead
  <2> QED
    BY <2>1, Undisturbed
<1>5. ASSUME NEW c \in Clients, AcceptCheck(c) \/ BreakOff(c) \/ RejectRead(c)
      PROVE  ConfirmedInv'
  <2>1. UNCHANGED <<status, versions, confirmed, overtaken>>
    BY <1>5 DEF AcceptCheck, BreakOff, RejectRead, Check
  <2> QED
    BY <2>1, Undisturbed
<1>6. ASSUME NEW c \in Clients, UpsertStore(c) \/ EditStore(c)
      PROVE  ConfirmedInv'
  <2>1. PICK content : status' = StatusOf(content)
    BY <1>6, Zenon DEF UpsertStore, EditStore
  <2> QED
    BY <2>1, StatusOfUnsettled, Unsettled
<1>7. ASSUME NEW c \in Clients, AcceptStore(c)
      PROVE  ConfirmedInv'
  <2>1. PICK content : status' = AfterAcceptance(content)
    BY <1>7, Zenon DEF AcceptStore
  <2>2. status' = "change_requested" \/ status' = StatusOf(content)
    BY <2>1 DEF AfterAcceptance
  <2>3. "change_requested" \notin Settled
    BY DEF Settled, HandedOver
  <2> QED
    BY <2>2, <2>3, StatusOfUnsettled, Unsettled
<1>8. ASSUME NEW c \in Clients, ChangeStore(c)
      PROVE  ConfirmedInv'
  <2>1. status' \notin Settled
    BY <1>8 DEF ChangeStore, Settled, HandedOver
  <2> QED
    BY <2>1, Unsettled
<1>9. ASSUME NEW c \in Clients, RejectStore(c)
      PROVE  ConfirmedInv'
  <2>1. /\ UNCHANGED <<versions, confirmed, overtaken>>
        /\ status' = status \/ status' = "pending_internal_review"
    BY <1>9 DEF RejectStore
  <2>2. "pending_internal_review" \notin Settled
    BY DEF Settled, HandedOver
  <2> QED
    BY <2>1, <2>2, Undisturbed, Unsettled
<1>10. ASSUME NEW c \in Clients, HandOverStore(c)
       PROVE  ConfirmedInv'
  <2>1. UNCHANGED <<versions, confirmed>>
    BY <1>10 DEF HandOverStore
  <2>2. PICK place \in DOMAIN HandOver :
            overtaken' = (overtaken \/ status # HandOver[place].from)
    BY <1>10, Zenon DEF HandOverStore
  <2>3. HandOver[place].from \in Settled
    BY DEF HandOver, HandedOver, Settled
  <2>4. overtaken' \/ (status \in Settled /\ ~overtaken)
    BY <2>2, <2>3
  <2>5. status \in Settled => confirmed = Latest \/ overtaken
    BY DEF ConfirmedInv, ReadyWasConfirmed, HandedOver, Settled
  <2>6. confirmed' = Latest' \/ overtaken'
    BY <2>1, <2>4, <2>5, Zenon DEF Latest
  <2>7. status' # "customer_confirmed"
    BY <1>10 DEF HandOverStore, HandOver
  <2> QED
    BY <2>6, <2>7, Zenon DEF ConfirmedInv, ReadyWasConfirmed
<1> QED
  BY <1>1, <1>2, <1>3, <1>4, <1>5, <1>6, <1>7, <1>8, <1>9, <1>10 DEF Next

(* A requirement that is ready or linked is the version the customer         *)
(* confirmed, however many requests interleave, unless a hand-over wrote     *)
(* over a status it had not read.                                            *)
THEOREM ReadyWasConfirmedHolds == Spec => []ReadyWasConfirmed
<1>1. Init => ConfirmedInv
  BY DEF Init, ConfirmedInv, ReadyWasConfirmed
<1>2. ConfirmedInv /\ [Next]_vars => ConfirmedInv'
  BY ConfirmedStep
<1>3. ConfirmedInv => ReadyWasConfirmed
  BY DEF ConfirmedInv
<1> QED
  BY <1>1, <1>2, <1>3, PTL DEF Spec

-----------------------------------------------------------------------------
(* Types.  A request's base is a version there is; a change that is being    *)
(* asked for or decided has a number; an upsert's number follows its base.   *)

(* A record of a change touches no more than what it names, implies, or      *)
(* switches on; what is stored has subjects wherever it has their text.      *)
Formed == {r \in ChangeRequests : r.fields \subseteq Implied(r.asked) \cup Switches}
Normal(content) == content[Subjects] = 0 => content[SubjectsText] = 0
Filled == \A n \in 1..Latest : Normal(versions[n].fields)
FieldsOK == OnlyNamedFieldsChange /\ Filled

JobTyped(place, j) ==
    /\ j.base \in 0..Latest
    /\ place \in {"changing", "loaded", "rejecting"} => j.change \in Changes
    /\ place = "upserting" => j.number = j.base + 1
Typed ==
    /\ TypeOK
    /\ changes \in [Changes -> Formed]
    /\ \A c \in Clients : JobTyped(pc[c], job[c])
    /\ FieldsOK

StoreTyped ==
    /\ status \in Statuses
    /\ versions \in Seq(Versions) /\ Latest \in Numbers
    /\ changes \in [Changes -> Formed]
RestTyped ==
    /\ task \in 0..Latest
    /\ confirmed \in 0..Latest /\ contested \subseteq Changes
    /\ {overtaken, overlapped, brokenOff} \subseteq BOOLEAN

LEMMA Parts == Typed => StoreTyped /\ RestTyped
  BY DEF Typed, TypeOK, StoreTyped, RestTyped

LEMMA FormedTyped == ASSUME NEW r \in Formed PROVE r \in ChangeRequests
  BY DEF Formed

LEMMA Together ==
    ASSUME StoreTyped', RestTyped', pc' \in [Clients -> Places], job' \in [Clients -> Jobs],
           (\A c \in Clients : JobTyped(pc[c], job[c]))', FieldsOK'
    PROVE  Typed'
<1>1. changes' \in [Changes -> Formed] /\ changes' \in [Changes -> ChangeRequests]
  BY FormedTyped DEF StoreTyped
<1> QED
  BY <1>1, Zenon DEF Typed, TypeOK, StoreTyped, RestTyped

LEMMA Counts == MaxVersions \in Nat /\ Latest \in Nat /\ 0 \in Numbers /\ NoJob \in Jobs
<1>1. MaxVersions \in Nat /\ MaxChanges \in Nat
  BY RequirementAssumption
<1>2. 0 \in Numbers
  BY <1>1 DEF Numbers
<1>3. NoJob \in Jobs
  BY <1>1, <1>2 DEF NoJob, Jobs
<1> QED
  BY <1>1, <1>2, <1>3 DEF Latest

(* What a version holds.                                                     *)
LEMMA ContentTyped ==
    ASSUME Typed, NEW n \in 0..Latest
    PROVE  Content(n) \in Contents
<1>1. CASE n = 0
  <2>1. 0 \in 0..Default
    BY Counts DEF Default
  <2> QED
    BY <1>1, <2>1 DEF Content, Contents
<1>2. CASE n # 0
  <2>1. n \in 1..Len(versions) /\ versions \in Seq(Versions)
    BY <1>2, Counts DEF Typed, TypeOK, Latest
  <2>2. versions[n] \in Versions
    BY <2>1
  <2> QED
    BY <1>2, <2>2 DEF Content, Versions
<1> QED
  BY <1>1, <1>2

(* One request moves on.                                                     *)
LEMMA Moved ==
    ASSUME Typed, NEW c \in Clients, NEW place \in Places, NEW j \in Jobs, Goto(c, place, j),
           JobTyped(place, j)', Latest' \in Nat, Latest <= Latest'
    PROVE  /\ pc' \in [Clients -> Places] /\ job' \in [Clients -> Jobs]
           /\ (\A d \in Clients : JobTyped(pc[d], job[d]))'
<1>1. pc \in [Clients -> Places] /\ job \in [Clients -> Jobs]
  BY DEF Typed, TypeOK
<1>2. pc'[c] = place /\ job'[c] = j /\ \A d \in Clients \ {c} : pc'[d] = pc[d] /\ job'[d] = job[d]
  BY <1>1 DEF Goto
<1>3. ASSUME NEW d \in Clients PROVE JobTyped(pc[d], job[d])'
  <2>1. CASE d = c
    BY <1>2, <2>1 DEF JobTyped
  <2>2. CASE d # c
    BY <1>2, <2>2, Counts DEF JobTyped, Typed
  <2> QED
    BY <2>1, <2>2
<1> QED
  BY <1>1, <1>3 DEF Goto

(* A request that goes away.                                                 *)
LEMMA Left ==
    ASSUME Typed, NEW c \in Clients, Leave(c), Latest' \in Nat, Latest <= Latest'
    PROVE  /\ pc' \in [Clients -> Places] /\ job' \in [Clients -> Jobs]
           /\ (\A d \in Clients : JobTyped(pc[d], job[d]))'
<1>1. JobTyped("idle", NoJob)' /\ "idle" \in Places /\ NoJob \in Jobs
  BY Counts DEF JobTyped, NoJob, Places
<1> QED
  BY <1>1, Moved DEF Leave

LEMMA VersionsKept ==
    ASSUME Typed, UNCHANGED versions
    PROVE  FieldsOK' /\ Latest' = Latest
<1>1. Latest' = Latest /\ \A n : Content(n)' = Content(n)
  BY DEF Latest, Content
<1> QED
  BY <1>1 DEF Typed, FieldsOK, OnlyNamedFieldsChange, SwitchedOn, Filled, Normal

LEMMA StoreKept ==
    ASSUME Typed, UNCHANGED store
    PROVE  StoreTyped' /\ FieldsOK' /\ Latest' = Latest /\ Latest' \in Nat
  BY VersionsKept, Parts, Counts DEF store, StoreTyped

(* A step that reads, or writes only the task and the history.               *)
LEMMA Reads ==
    ASSUME Typed, NEW c \in Clients, NEW place \in Places, NEW j \in Jobs, Goto(c, place, j),
           JobTyped(place, j), UNCHANGED store, RestTyped'
    PROVE  Typed'
<1>1. StoreTyped' /\ FieldsOK' /\ Latest' = Latest /\ Latest' \in Nat
  BY StoreKept
<1>2. JobTyped(place, j)'
  BY <1>1 DEF JobTyped
<1> QED
  BY <1>1, <1>2, Moved, Together

LEMMA RestKept ==
    ASSUME Typed, UNCHANGED <<task, history>>, Latest' \in Nat, Latest <= Latest'
    PROVE  RestTyped'
  BY Parts, Counts DEF RestTyped, history

(* What a request stores is what it read, but for what it gives and what it  *)
(* switches on: subjects that were not given are filled from their text only *)
(* if that was given, when what was read had subjects wherever it had text.  *)
Replaces(content, base, given, on) ==
    /\ content \in Contents /\ Normal(content)
    /\ \A f \in on : content[f] = Default
    /\ \A f \in Fields \ (Implied(given) \cup on) :
          f # Subjects \/ Normal(base) => content[f] = base[f]

LEMMA MergedFacts ==
    ASSUME NEW base \in Contents, NEW given \in SUBSET Fields, NEW on \in SUBSET Switches,
           NEW number \in Numbers
    PROVE  Replaces(Merged(base, given, on, number), base, given, on)
<1> DEFINE plain == [f \in Fields |-> IF f \in on THEN Default ELSE IF f \in given THEN number
                                      ELSE base[f]]
           content == Normalized(plain)
<1>1. content = Merged(base, given, on, number)
  BY DEF Merged
<1>2. /\ Subjects \in Fields /\ SubjectsText \in Fields /\ Subjects # SubjectsText
      /\ Subjects \notin Switches /\ SubjectsText \notin Switches
  BY RequirementAssumption DEF Fields
<1>3. number \in 0..Default /\ Default \in 0..Default
  BY Counts DEF Numbers, Default
<1>4. plain \in Contents
  BY <1>3 DEF Contents
<1>5. /\ \A f \in on : plain[f] = Default
      /\ \A f \in Fields \ (given \cup on) : plain[f] = base[f]
  BY DEF Fields
<1> HIDE DEF plain
<1>6. /\ \A f \in Fields \ {Subjects} : content[f] = plain[f]
      /\ content[Subjects] = IF plain[Subjects] = 0 THEN plain[SubjectsText] ELSE plain[Subjects]
      /\ content \in Contents
  BY <1>2, <1>4 DEF Contents, Normalized
<1> HIDE DEF content
<1>7. Normal(content)
  BY <1>2, <1>6 DEF Normal
<1>8. \A f \in on : content[f] = Default
  BY <1>2, <1>5, <1>6 DEF Fields
<1>9. ASSUME NEW f \in Fields \ (Implied(given) \cup on), f # Subjects \/ Normal(base)
      PROVE  content[f] = base[f]
  <2>1. plain[f] = base[f]
    BY <1>5 DEF Implied
  <2>2. CASE f # Subjects
    BY <1>6, <2>1, <2>2
  <2>3. CASE f = Subjects
    <3>1. SubjectsText \notin given \cup on
      BY <1>2, <2>3 DEF Implied
    <3>2. plain[SubjectsText] = base[SubjectsText]
      BY <1>2, <1>5, <3>1
    <3> QED
      BY <1>6, <1>9, <2>1, <2>3, <3>2 DEF Normal
  <2> QED
    BY <2>2, <2>3
<1> QED
  BY <1>1, <1>6, <1>7, <1>8, <1>9 DEF Replaces

(* What a request finds was normalised when it was stored.                   *)
LEMMA FoundNormal == ASSUME Typed, NEW n \in 0..Latest PROVE Normal(Content(n))
<1>1. CASE n = 0
  <2>1. SubjectsText \in Fields
    BY RequirementAssumption DEF Fields
  <2> QED
    BY <1>1, <2>1 DEF Content, Normal
<1>2. CASE n # 0
  BY <1>2, Counts DEF Typed, FieldsOK, Filled, Content
<1> QED
  BY <1>1, <1>2

(* A version is added to those there are: it follows the one its request     *)
(* started from, or one that was stored since.                               *)
Keeps(source, content, named, base) ==
    \A f \in Fields \ Implied(named) :
        \/ content[f] = base[f]
        \/ source # "staff_manual_edit" /\ f \in Switches /\ content[f] = Default

LEMMA Added ==
    ASSUME Typed, NEW c \in Clients, NEW source \in Sources, NEW content \in Contents,
           NEW named \in SUBSET Fields, AddVersion(c, source, content, named), Normal(content),
           source = "upsert" => job[c].number = job[c].base + 1,
           Keeps(source, content, named, Content(job[c].base))
    PROVE  /\ versions' \in Seq(Versions) /\ Latest' \in Numbers /\ Latest' = Latest + 1
           /\ FieldsOK'
<1>1. job[c] \in Jobs /\ job[c].base \in 0..Latest /\ job[c].number = Latest + 1
  BY DEF Typed, TypeOK, JobTyped, AddVersion, Free
<1>2. PICK v \in Versions : /\ v = [source |-> source, fields |-> content,
                                    named |-> named, by |-> job[c]]
                            /\ versions' = Append(versions, v)
  BY <1>1 DEF AddVersion, Versions
<1>3. versions \in Seq(Versions)
  BY DEF Typed, TypeOK
<1>4. /\ versions' \in Seq(Versions) /\ Latest' = Latest + 1
      /\ versions'[Latest + 1] = v /\ \A n \in 1..Latest : versions'[n] = versions[n]
  <2> DEFINE T == Versions
  <2>1. versions \in Seq(T) /\ v \in T
    BY <1>3
  <2> HIDE DEF T
  <2>2. versions' \in Seq(T) /\ Latest' = Latest + 1
        /\ versions'[Latest + 1] = v /\ \A n \in 1..Latest : versions'[n] = versions[n]
    BY <1>2, <2>1 DEF Latest
  <2> QED
    BY <2>2 DEF T
<1>5. Latest' \in Numbers
  BY <1>1, <1>4, Counts DEF Jobs, Numbers
<1>6. \A n \in 0..Latest : Content(n)' = Content(n)
  BY <1>4, Counts DEF Content
<1>7. v.named = named /\ v.fields = content /\ v.source = source /\ v.by = job[c]
  BY <1>2
<1>8. ASSUME NEW n \in 1..(Latest + 1)
      PROVE  \/ \A f \in Fields \ Implied(versions'[n].named) :
                   versions'[n].fields[f] = Content(n - 1)'[f] \/ SwitchedOn(n, f)'
             \/ versions'[n].source # "upsert" /\ versions'[n].by.base < n - 1
  <2>1. CASE n \in 1..Latest
    <3>1. versions'[n] = versions[n] /\ Content(n - 1)' = Content(n - 1)
      BY <1>4, <1>6, <2>1, Counts
    <3> QED
      BY <2>1, <3>1 DEF Typed, FieldsOK, OnlyNamedFieldsChange, SwitchedOn
  <2>2. CASE n = Latest + 1
    <3>1. versions'[n] = v /\ Content(n - 1)' = Content(Latest)
      BY <1>4, <1>6, <2>2, Counts
    <3>2. CASE job[c].base = Latest
      BY <1>7, <3>1, <3>2 DEF Keeps, SwitchedOn
    <3>3. CASE job[c].base # Latest
      <4>1. v.source # "upsert" /\ v.by.base < n - 1
        BY <1>1, <1>7, <2>2, <3>3, Counts
      <4> QED
        BY <3>1, <4>1
    <3> QED
      BY <3>2, <3>3
  <2> QED
    BY <2>1, <2>2, Counts
<1>9. OnlyNamedFieldsChange'
  BY <1>4, <1>8 DEF OnlyNamedFieldsChange
<1>10. ASSUME NEW n \in 1..(Latest + 1) PROVE Normal(versions'[n].fields)
  <2>1. CASE n \in 1..Latest
    BY <1>4, <2>1 DEF Typed, FieldsOK, Filled
  <2>2. CASE n = Latest + 1
    BY <1>4, <1>7, <2>2
  <2> QED
    BY <2>1, <2>2, Counts
<1>11. FieldsOK'
  BY <1>4, <1>9, <1>10 DEF FieldsOK, Filled, Normal
<1> QED
  BY <1>4, <1>5, <1>11

-----------------------------------------------------------------------------
(* Each step keeps the types.                                                *)

LEMMA MyJob ==
    ASSUME Typed, NEW c \in Clients
    PROVE  /\ job[c] \in Jobs /\ JobTyped(pc[c], job[c]) /\ pc[c] \in Places
           /\ Latest \in Nat /\ Latest <= MaxVersions
  BY Counts DEF Typed, TypeOK, Numbers

(* What requests keep in their jobs.                                         *)
LEMMA Blank ==
    /\ 0 \in 0..MaxChanges /\ Changes \subseteq 0..MaxChanges
    /\ NoJob \in Jobs
  BY Counts, RequirementAssumption DEF Changes

LEMMA NextNumber ==
    Typed => Latest \in Numbers /\ (Latest < MaxVersions => Latest + 1 \in Numbers)
  BY Counts, MyJob DEF Typed, TypeOK, Numbers

LEMMA ConflictsTyped == ASSUME Typed, NEW i \in Changes PROVE Conflicts(i) \subseteq Fields
  BY Parts DEF StoreTyped, Conflicts, Formed, ChangeRequests

LEMMA MarkTyped == ASSUME Typed, Confirm \/ Mark PROVE Typed'
<1>1. UNCHANGED <<versions, changes, pc, job>> /\ status' \in Statuses
  BY DEF Confirm, Mark, Statuses
<1>2. StoreTyped' /\ FieldsOK' /\ Latest' = Latest
  BY <1>1, VersionsKept, Parts DEF StoreTyped
<1>3. RestTyped'
  BY <1>2, Parts, Counts DEF RestTyped, Confirm, Mark, history
<1>4. pc' \in [Clients -> Places] /\ job' \in [Clients -> Jobs]
      /\ (\A c \in Clients : JobTyped(pc[c], job[c]))'
  BY <1>1, <1>2 DEF Typed, TypeOK, JobTyped
<1> QED
  BY <1>2, <1>3, <1>4, Together

LEMMA LeaveTyped ==
    ASSUME Typed, NEW c \in Clients, Leave(c), UNCHANGED store, RestTyped'
    PROVE  Typed'
<1>1. StoreTyped' /\ FieldsOK' /\ Latest' = Latest /\ Latest' \in Nat
  BY StoreKept
<1> QED
  BY <1>1, Left, Together

LEMMA RestStays ==
    ASSUME Typed, UNCHANGED <<store, task, history>>
    PROVE  RestTyped'
  BY StoreKept, RestKept, Counts

LEMMA UpsertReadTyped == ASSUME Typed, NEW c \in Clients, UpsertRead(c) PROVE Typed'
<1>1. PICK j : j = [NoJob EXCEPT !.base = Latest, !.number = Latest + 1]
  OBVIOUS
<1>2. Latest \in Numbers /\ Latest + 1 \in Numbers
  BY NextNumber DEF UpsertRead
<1>3. j \in Jobs /\ j.base = Latest /\ j.number = Latest + 1
  BY <1>1, <1>2, Blank DEF Jobs, NoJob
<1>4. JobTyped("upserting", j)
  BY <1>3, Counts DEF JobTyped
<1>5. Goto(c, "upserting", j) /\ UNCHANGED <<store, task, history>>
  BY <1>1 DEF UpsertRead
<1> QED
  BY <1>3, <1>4, <1>5, RestStays, Reads DEF Places

LEMMA EditReadTyped == ASSUME Typed, NEW c \in Clients, EditRead(c) PROVE Typed'
<1>1. PICK j : j = [NoJob EXCEPT !.base = Latest]
  OBVIOUS
<1>2. j \in Jobs /\ j.base = Latest
  BY <1>1, NextNumber, Blank DEF Jobs, NoJob
<1>3. JobTyped("based", j)
  BY <1>2, Counts DEF JobTyped
<1>4. Goto(c, "based", j) /\ UNCHANGED <<store, task, history>>
  BY <1>1 DEF EditRead
<1> QED
  BY <1>2, <1>3, <1>4, RestStays, Reads DEF Places, Deciding

LEMMA NumberReadTyped == ASSUME Typed, NEW c \in Clients, NumberRead(c) PROVE Typed'
<1>1. PICK j : j = [job[c] EXCEPT !.number = Latest + 1]
  OBVIOUS
<1>2. j \in Jobs /\ j.base = job[c].base
  BY <1>1, NextNumber, MyJob DEF Jobs, NumberRead
<1>3. JobTyped("numbered", j)
  BY <1>2, MyJob DEF JobTyped
<1>4. Goto(c, "numbered", j) /\ UNCHANGED <<store, task, history>>
  BY <1>1 DEF NumberRead
<1> QED
  BY <1>2, <1>3, <1>4, RestStays, Reads DEF Places, Deciding

LEMMA ChangeBeginTyped == ASSUME Typed, NEW c \in Clients, ChangeBegin(c) PROVE Typed'
<1>1. PICK i \in Changes, since \in 0..Latest :
        Goto(c, "changing", [NoJob EXCEPT !.change = i, !.since = since])
  BY Zenon DEF ChangeBegin
<1>2. PICK j : j = [NoJob EXCEPT !.change = i, !.since = since]
  OBVIOUS
<1>n. since \in Numbers
  BY MyJob, Counts DEF Numbers
<1>3. j \in Jobs /\ j.base = 0 /\ j.change = i
  BY <1>2, <1>n, Blank DEF Jobs, NoJob
<1>4. JobTyped("changing", j)
  BY <1>3, Counts DEF JobTyped
<1>5. UNCHANGED <<store, task, history>>
  BY DEF ChangeBegin
<1> QED
  BY <1>1, <1>2, <1>3, <1>4, <1>5, RestStays, Reads DEF Places

LEMMA AcceptLoadTyped == ASSUME Typed, NEW c \in Clients, AcceptLoad(c) PROVE Typed'
<1>1. PICK i \in Changes :
        Goto(c, "loaded", [NoJob EXCEPT !.change = i, !.project = TRUE,
                                        !.shown = Conflicts(i), !.loaded = Latest])
  BY DEF AcceptLoad, Pending
<1>2. PICK j : j = [NoJob EXCEPT !.change = i, !.project = TRUE,
                                 !.shown = Conflicts(i), !.loaded = Latest]
  OBVIOUS
<1>3. Conflicts(i) \in SUBSET Fields
  BY ConflictsTyped
<1>4. j \in Jobs /\ j.base = 0 /\ j.change = i
  BY <1>2, <1>3, NextNumber, Blank DEF Jobs, NoJob
<1>5. JobTyped("loaded", j)
  BY <1>4, Counts DEF JobTyped
<1>6. UNCHANGED <<store, task, history>>
  BY DEF AcceptLoad
<1> QED
  BY <1>1, <1>2, <1>4, <1>5, <1>6, RestStays, Reads DEF Places

LEMMA CheckTyped ==
    ASSUME Typed, NEW c \in Clients, NEW place \in Places, NEW i \in Changes, NEW j \in Jobs,
           JobTyped(place, j), Check(c, place, i, j)
    PROVE  Typed'
<1>1. RestTyped'
  BY Parts, StoreKept DEF Check, RestTyped
<1> QED
  BY <1>1, Reads DEF Check

LEMMA AcceptCheckTyped == ASSUME Typed, NEW c \in Clients, AcceptCheck(c) PROVE Typed'
<1>1. "checked" \in Places
  BY DEF Places, Deciding
<1>2. CASE pc[c] = "loaded"
  <2>1. Check(c, "checked", job[c].change, [job[c] EXCEPT !.checked = Latest])
    BY <1>2 DEF AcceptCheck
  <2>2. job[c].change \in Changes /\ job[c] \in Jobs /\ job[c].base \in 0..Latest
    BY <1>2, MyJob DEF JobTyped
  <2>3. PICK j : j = [job[c] EXCEPT !.checked = Latest]
    OBVIOUS
  <2>4. j \in Jobs /\ j.base = job[c].base
    BY <2>2, <2>3, NextNumber DEF Jobs
  <2>5. JobTyped("checked", j)
    BY <2>2, <2>4 DEF JobTyped
  <2> QED
    BY <1>1, <2>1, <2>2, <2>3, <2>4, <2>5, CheckTyped
<1>3. CASE pc[c] # "loaded"
  <2>1. PICK i \in Changes, project \in BOOLEAN :
          Check(c, "checked", i, [NoJob EXCEPT !.change = i, !.project = project,
                                               !.checked = Latest])
    BY <1>3 DEF AcceptCheck
  <2>2. PICK j : j = [NoJob EXCEPT !.change = i, !.project = project, !.checked = Latest]
    OBVIOUS
  <2>3. j \in Jobs /\ j.base = 0
    BY <2>2, NextNumber, Blank DEF Jobs, NoJob
  <2>4. JobTyped("checked", j)
    BY <2>3, Counts DEF JobTyped
  <2> QED
    BY <1>1, <2>1, <2>2, <2>3, <2>4, CheckTyped
<1> QED
  BY <1>2, <1>3

LEMMA RejectReadTyped == ASSUME Typed, NEW c \in Clients, RejectRead(c) PROVE Typed'
<1>1. PICK i \in Changes : Check(c, "rejecting", i, [NoJob EXCEPT !.change = i])
  BY DEF RejectRead, Pending
<1>2. PICK j : j = [NoJob EXCEPT !.change = i]
  OBVIOUS
<1>3. j \in Jobs /\ j.base = 0 /\ j.change = i
  BY <1>2, Blank DEF Jobs, NoJob
<1>4. JobTyped("rejecting", j)
  BY <1>3, Counts DEF JobTyped
<1> QED
  BY <1>1, <1>2, <1>3, <1>4, CheckTyped DEF Places, Deciding

LEMMA AcceptReadTyped == ASSUME Typed, NEW c \in Clients, AcceptRead(c) PROVE Typed'
<1>1. PICK j : j = [job[c] EXCEPT !.base = Latest]
  OBVIOUS
<1>2. j \in Jobs /\ j.base = Latest
  BY <1>1, NextNumber, MyJob DEF Jobs
<1>3. JobTyped("based", j)
  BY <1>2, Counts DEF JobTyped
<1>4. Goto(c, "based", j) /\ UNCHANGED <<store, task, history>>
  BY <1>1 DEF AcceptRead
<1> QED
  BY <1>2, <1>3, <1>4, RestStays, Reads DEF Places, Deciding

LEMMA SyncReadTyped == ASSUME Typed, NEW c \in Clients, SyncRead(c) PROVE Typed'
<1>1. PICK j : j = [NoJob EXCEPT !.base = Latest]
  OBVIOUS
<1>2. j \in Jobs /\ j.base = Latest
  BY <1>1, NextNumber, Blank DEF Jobs, NoJob
<1>3. JobTyped("syncing", j)
  BY <1>2, Counts DEF JobTyped
<1>4. Goto(c, "syncing", j) /\ UNCHANGED <<store, task, history>>
  BY <1>1 DEF SyncRead
<1> QED
  BY <1>2, <1>3, <1>4, RestStays, Reads DEF Places, Syncing

LEMMA HandOverReadTyped == ASSUME Typed, NEW c \in Clients, HandOverRead(c) PROVE Typed'
<1>1. PICK place \in DOMAIN HandOver : Goto(c, place, NoJob)
  BY Zenon DEF HandOverRead
<1>2. place \in Places /\ JobTyped(place, NoJob)
  BY Counts DEF HandOver, Places, JobTyped, NoJob
<1> QED
  BY <1>1, <1>2, Blank, RestStays, Reads DEF HandOverRead

(* Steps that end a request and store nothing but the task.                  *)
LEMMA EndTyped ==
    ASSUME Typed, NEW c \in Clients,
           NumberTaken(c) \/ AcceptRefuse(c) \/ SyncTask(c) \/ BreakOff(c)
    PROVE  Typed'
<1>1. Leave(c) /\ UNCHANGED store
  BY DEF NumberTaken, AcceptRefuse, SyncTask, BreakOff
<1>2. Latest' = Latest /\ RestTyped
  BY <1>1, StoreKept, Parts
<1>3. RestTyped'
  <2>1. CASE UNCHANGED <<store, task, history>>
    BY <2>1, RestStays
  <2>2. CASE SyncTask(c)
    <3>1. task' = job[c].base /\ job[c].base \in 0..Latest /\ UNCHANGED history
      BY <2>2, MyJob DEF SyncTask, JobTyped
    <3> QED
      BY <1>2, <3>1 DEF RestTyped, history
  <2>3. CASE BreakOff(c)
    BY <1>2, <2>3 DEF BreakOff, RestTyped
  <2> QED
    BY <2>1, <2>2, <2>3 DEF NumberTaken, AcceptRefuse
<1> QED
  BY <1>1, <1>3, LeaveTyped

(* A request that stores and ends: what is left to show of it.               *)
LEMMA StoredTyped ==
    ASSUME Typed, NEW c \in Clients, Leave(c), StoreTyped', FieldsOK',
           Latest' \in Nat, Latest <= Latest', RestTyped'
    PROVE  Typed'
  BY Left, Together

LEMMA StatusTyped == ASSUME NEW content PROVE StatusOf(content) \in Statuses
  BY DEF StatusOf, Statuses

LEMMA ImpliedTyped == ASSUME NEW named \in SUBSET Fields PROVE Implied(named) \in SUBSET Fields
  BY RequirementAssumption DEF Implied, Fields

LEMMA PayloadsTyped == ASSUME NEW named \in Payloads PROVE named \in SUBSET Fields
  BY RequirementAssumption

(* What a request starts from.                                               *)
LEMMA BaseTyped ==
    ASSUME Typed, NEW c \in Clients
    PROVE  /\ Content(job[c].base) \in Contents /\ Normal(Content(job[c].base))
           /\ job[c].number \in Numbers
  BY MyJob, ContentTyped, FoundNormal DEF JobTyped, Jobs

LEMMA UpsertStoreTyped == ASSUME Typed, NEW c \in Clients, UpsertStore(c) PROVE Typed'
<1>0. PICK named \in Payloads, empty \in SUBSET Valueless :
        LET content == Merged(Content(job[c].base), Implied(named), Switches \ (named \cup empty),
                              job[c].number)
        IN  AddVersion(c, "upsert", content, named) /\ status' = StatusOf(content)
  BY Zenon DEF UpsertStore
<1> DEFINE base == Content(job[c].base)
           given == Implied(named)
           on == Switches \ (named \cup empty)
           content == Merged(base, given, on, job[c].number)
<1>1. AddVersion(c, "upsert", content, named) /\ status' = StatusOf(content)
  BY <1>0
<1>2. named \in SUBSET Fields /\ given \in SUBSET Fields /\ Implied(given) = given
  BY PayloadsTyped, ImpliedTyped DEF Implied
<1>3. on \in SUBSET Switches
  OBVIOUS
<1> HIDE DEF base, given, on
<1>4. base \in Contents /\ Normal(base) /\ job[c].number \in Numbers
  BY BaseTyped DEF base
<1>5. /\ content \in Contents /\ Normal(content)
      /\ \A f \in on : content[f] = Default
      /\ \A f \in Fields \ (given \cup on) : content[f] = base[f]
  <2>1. Replaces(content, base, given, on)
    BY <1>2, <1>3, <1>4, MergedFacts
  <2> HIDE DEF content
  <2> QED
    BY <1>2, <1>4, <2>1 DEF Replaces
<1> HIDE DEF content
<1>6. Keeps("upsert", content, named, Content(job[c].base))
  BY <1>3, <1>5 DEF Keeps, given, base
<1>7. job[c].number = job[c].base + 1
  BY MyJob DEF JobTyped, UpsertStore
<1>8. /\ versions' \in Seq(Versions) /\ Latest' \in Numbers /\ Latest' = Latest + 1
      /\ FieldsOK'
  BY <1>1, <1>2, <1>5, <1>6, <1>7, Added DEF Sources
<1>9. StoreTyped'
  BY <1>1, <1>8, Parts, StatusTyped DEF StoreTyped, UpsertStore
<1>10. Leave(c) /\ UNCHANGED <<task, history>>
  BY DEF UpsertStore
<1> QED
  BY <1>8, <1>9, <1>10, Counts, RestKept, StoredTyped

LEMMA EditStoreTyped == ASSUME Typed, NEW c \in Clients, EditStore(c) PROVE Typed'
<1>0. PICK named \in Payloads, value \in {0, job[c].number} :
        LET content == Merged(Content(job[c].base), named, {}, value)
        IN  /\ AddVersion(c, "staff_manual_edit", content, named)
            /\ status' = StatusOf(content)
  BY Zenon DEF EditStore
<1> DEFINE base == Content(job[c].base)
           content == Merged(base, named, {}, value)
<1>1. AddVersion(c, "staff_manual_edit", content, named) /\ status' = StatusOf(content)
  BY <1>0
<1>2. named \in SUBSET Fields
  BY PayloadsTyped
<1> HIDE DEF base
<1>3. base \in Contents /\ Normal(base) /\ value \in Numbers
  BY BaseTyped, Counts DEF base
<1>4. /\ content \in Contents /\ Normal(content)
      /\ \A f \in Fields \ Implied(named) : content[f] = base[f]
  <2>1. Replaces(content, base, named, {})
    BY <1>2, <1>3, MergedFacts
  <2> HIDE DEF content
  <2> QED
    BY <1>3, <2>1 DEF Replaces
<1> HIDE DEF content
<1>5. Keeps("staff_manual_edit", content, named, Content(job[c].base))
  BY <1>4 DEF Keeps, base
<1>6. /\ versions' \in Seq(Versions) /\ Latest' \in Numbers /\ Latest' = Latest + 1
      /\ FieldsOK'
  BY <1>1, <1>2, <1>4, <1>5, Added DEF Sources
<1>7. StoreTyped'
  BY <1>1, <1>6, Parts, StatusTyped DEF StoreTyped, EditStore
<1>8. Leave(c) /\ UNCHANGED <<task, history>>
  BY DEF EditStore
<1> QED
  BY <1>6, <1>7, <1>8, Counts, RestKept, StoredTyped

(* A change that is only marked keeps its form.                              *)
LEMMA Marked ==
    ASSUME Typed, NEW i \in Changes, NEW mark \in ChangeStatuses,
           changes' = [changes EXCEPT ![i].status = mark]
    PROVE  /\ changes' \in [Changes -> Formed]
           /\ changes'[i] = [changes[i] EXCEPT !.status = mark]
           /\ \A k \in Changes \ {i} : changes'[k] = changes[k]
<1>1. changes \in [Changes -> Formed]
  BY DEF Typed
<1>2. [changes[i] EXCEPT !.status = mark] \in Formed
  BY <1>1 DEF Formed, ChangeRequests
<1>3. changes' = [changes EXCEPT ![i] = [changes[i] EXCEPT !.status = mark]]
  BY <1>1
<1> QED
  BY <1>1, <1>2, <1>3

(* An acceptance empties no field but the subjects, if the change names them; *)
(* else it gives what the change touches, or switches it on.                 *)
LEMMA FromChangeFacts ==
    ASSUME NEW change \in Formed, NEW base \in Contents, Normal(base), NEW empty,
           NEW emptied \in SUBSET ({Subjects} \cap change.asked), NEW number \in Numbers
    PROVE  LET content == FromChange(change, base, empty, emptied, number)
           IN  /\ content \in Contents /\ Normal(content)
               /\ Keeps("staff_change_acceptance", content, change.asked, base)
<1> DEFINE start == [f \in Fields |-> IF f \in emptied THEN 0 ELSE base[f]]
           given == change.fields \ (empty \cup emptied)
           on == Switches \ change.asked
           content == FromChange(change, base, empty, emptied, number)
<1>1. content = Merged(start, given, on, number)
  BY DEF FromChange
<1>2. /\ change.fields \in SUBSET Fields /\ change.asked \in SUBSET Fields
      /\ change.fields \subseteq Implied(change.asked) \cup Switches
  BY DEF Formed, ChangeRequests
<1>3. start \in Contents
  BY Counts DEF Contents, Default
<1>4. given \in SUBSET Fields /\ on \in SUBSET Switches
  BY <1>2
<1>5. given \subseteq Implied(change.asked) \cup on
  BY <1>2 DEF Implied
<1>6. \A f \in Fields \ emptied : start[f] = base[f]
  OBVIOUS
<1>7. \A f \in Fields \ Implied(change.asked) : f \notin emptied
  BY DEF Implied
<1>8. Subjects \notin change.asked => Normal(start)
  <2>1. ASSUME Subjects \notin change.asked PROVE emptied = {}
    BY <2>1
  <2>2. Subjects \in Fields /\ SubjectsText \in Fields
    BY RequirementAssumption DEF Fields
  <2> QED
    BY <1>6, <2>1, <2>2 DEF Normal
<1>9. SubjectsText \notin Switches /\ Subjects \notin Switches
  BY RequirementAssumption DEF Fields
<1> HIDE DEF start, given, on
<1>10. /\ content \in Contents /\ Normal(content)
       /\ \A f \in on : content[f] = Default
       /\ \A f \in Fields \ (Implied(given) \cup on) :
             f # Subjects \/ Normal(start) => content[f] = start[f]
  <2>1. Replaces(Merged(start, given, on, number), start, given, on)
    BY <1>3, <1>4, MergedFacts
  <2> HIDE DEF content
  <2> QED
    BY <1>1, <2>1 DEF Replaces
<1> HIDE DEF content
<1>11. ASSUME NEW f \in Fields \ Implied(change.asked), f \notin on PROVE content[f] = base[f]
  <2>1. f \notin given /\ f \notin emptied /\ f \notin change.asked
    BY <1>5, <1>7, <1>11 DEF Implied
  <2>2. f \notin Implied(given)
    <3>1. ASSUME f = Subjects PROVE SubjectsText \notin given
      BY <1>5, <1>9, <1>11, <3>1 DEF Implied, on
    <3> QED
      BY <2>1, <3>1 DEF Implied
  <2>3. f # Subjects \/ Normal(start)
    BY <1>8, <2>1
  <2> QED
    BY <1>6, <1>10, <1>11, <2>1, <2>2, <2>3
<1>12. Keeps("staff_change_acceptance", content, change.asked, base)
  BY <1>4, <1>10, <1>11 DEF Keeps
<1> QED
  BY <1>10, <1>12 DEF content

LEMMA AcceptStoreTyped == ASSUME Typed, NEW c \in Clients, AcceptStore(c) PROVE Typed'
<1> DEFINE i == job[c].change
<1>1. PICK empty \in SUBSET Valueless, emptied \in SUBSET ({Subjects} \cap changes[i].asked) :
        LET content == FromChange(changes[i], Content(job[c].base), empty, emptied, job[c].number)
        IN  /\ AddVersion(c, "staff_change_acceptance", content, changes[i].asked)
            /\ changes' = [changes EXCEPT ![i].status = "accepted"]
            /\ status' = AfterAcceptance(content)
  BY Zenon DEF AcceptStore
<1> DEFINE content == FromChange(changes[i], Content(job[c].base), empty, emptied, job[c].number)
<1>2. /\ AddVersion(c, "staff_change_acceptance", content, changes[i].asked)
      /\ changes' = [changes EXCEPT ![i].status = "accepted"]
      /\ status' = AfterAcceptance(content)
  BY <1>1
<1>3. i \in Changes
  BY MyJob, RequirementAssumption DEF AcceptStore, Jobs, Changes
<1> HIDE DEF i
<1>4. changes[i] \in Formed /\ changes[i].asked \in SUBSET Fields /\ "accepted" \in ChangeStatuses
  BY <1>3 DEF Typed, Formed, ChangeRequests, ChangeStatuses
<1>5. /\ content \in Contents /\ Normal(content)
      /\ Keeps("staff_change_acceptance", content, changes[i].asked, Content(job[c].base))
  BY <1>4, BaseTyped, FromChangeFacts
<1> HIDE DEF content
<1>6. /\ versions' \in Seq(Versions) /\ Latest' \in Numbers /\ Latest' = Latest + 1
      /\ FieldsOK'
  BY <1>2, <1>4, <1>5, Added DEF Sources
<1>7. status' \in Statuses
  <2>1. status' = "change_requested" \/ status' = StatusOf(content)
    BY <1>2 DEF AfterAcceptance
  <2> QED
    BY <2>1, StatusTyped DEF Statuses
<1>8. changes' \in [Changes -> Formed]
  BY <1>2, <1>3, <1>4, Marked
<1>9. StoreTyped'
  BY <1>6, <1>7, <1>8 DEF StoreTyped
<1>10. RestTyped'
  BY <1>6, Parts, Counts DEF AcceptStore, RestTyped
<1>11. /\ JobTyped("accepted", NoJob)' /\ JobTyped("idle", NoJob)'
       /\ "accepted" \in Places /\ "idle" \in Places
  BY <1>6, Counts DEF JobTyped, NoJob, Places, Syncing
<1>12. Goto(c, "accepted", NoJob) \/ Goto(c, "idle", NoJob)
  BY DEF AcceptStore, Leave
<1>13. /\ pc' \in [Clients -> Places] /\ job' \in [Clients -> Jobs]
       /\ (\A d \in Clients : JobTyped(pc[d], job[d]))'
  BY <1>6, <1>11, <1>12, Counts, Moved
<1> QED
  BY <1>6, <1>9, <1>10, <1>13, Together

(* A change that is stored or rejected leaves the versions alone.            *)
LEMMA ChangedTyped ==
    ASSUME Typed, NEW c \in Clients, Leave(c), UNCHANGED versions, RestTyped',
           status' \in Statuses,
           changes' \in [Changes -> Formed]
    PROVE  Typed'
<1>1. Latest' = Latest /\ Latest' \in Nat /\ FieldsOK'
  BY VersionsKept, Counts
<1>2. StoreTyped'
  BY <1>1, Parts DEF StoreTyped
<1> QED
  BY <1>1, <1>2, StoredTyped

LEMMA ChangeStoreTyped == ASSUME Typed, NEW c \in Clients, ChangeStore(c) PROVE Typed'
<1>0. PICK asked \in Payloads : \E fields \in {asked, Implied(asked)} :
        changes' = [changes EXCEPT ![job[c].change] =
                       [status |-> "pending", asked |-> asked, fields |-> fields \cup Switches,
                        since |-> job[c].since]]
  BY Zenon DEF ChangeStore
<1>1. PICK fields \in SUBSET Implied(asked) :
        changes' = [changes EXCEPT ![job[c].change] =
                       [status |-> "pending", asked |-> asked, fields |-> fields \cup Switches,
                        since |-> job[c].since]]
  BY <1>0 DEF Implied
<1>2. job[c].change \in Changes /\ job[c].since \in Numbers
  BY MyJob DEF ChangeStore, JobTyped, Jobs
<1>3. PICK r : r = [status |-> "pending", asked |-> asked, fields |-> fields \cup Switches,
                    since |-> job[c].since]
  OBVIOUS
<1>4. asked \in SUBSET Fields /\ Implied(asked) \in SUBSET Fields /\ Switches \subseteq Fields
  BY PayloadsTyped, ImpliedTyped DEF Fields
<1>5. r \in Formed
  BY <1>2, <1>3, <1>4 DEF Formed, ChangeRequests, ChangeStatuses
<1>6. changes' \in [Changes -> Formed]
  BY <1>1, <1>2, <1>3, <1>5 DEF Typed
<1>7. Leave(c) /\ UNCHANGED <<versions, task, history>> /\ status' \in Statuses
  BY DEF ChangeStore, Statuses
<1>8. RestTyped'
  BY <1>7, Counts, RestKept DEF Latest
<1> QED
  BY <1>6, <1>7, <1>8, ChangedTyped

LEMMA RejectStoreTyped == ASSUME Typed, NEW c \in Clients, RejectStore(c) PROVE Typed'
<1>1. job[c].change \in Changes
  BY MyJob DEF RejectStore, JobTyped
<1>2. changes' \in [Changes -> Formed]
  BY <1>1, Marked DEF RejectStore, ChangeStatuses
<1>3. Leave(c) /\ UNCHANGED <<versions, task, history>> /\ status' \in Statuses
  BY Parts DEF RejectStore, Statuses, StoreTyped
<1>4. RestTyped'
  BY <1>3, Counts, RestKept DEF Latest
<1> QED
  BY <1>2, <1>3, <1>4, ChangedTyped

LEMMA HandOverStoreTyped == ASSUME Typed, NEW c \in Clients, HandOverStore(c) PROVE Typed'
<1>1. /\ Leave(c) /\ UNCHANGED <<versions, changes>> /\ status' = HandOver[pc[c]].to
      /\ overtaken' \in BOOLEAN /\ UNCHANGED <<task, confirmed, contested, overlapped, brokenOff>>
  BY Parts DEF HandOverStore, RestTyped
<1>2. status' \in Statuses
  BY <1>1 DEF HandOverStore, HandOver, Statuses
<1>3. RestTyped'
  BY <1>1, Parts DEF RestTyped, Latest
<1> QED
  BY <1>1, <1>2, <1>3, Parts, ChangedTyped DEF StoreTyped

LEMMA TypedStep == ASSUME Typed, [Next]_vars PROVE Typed'
<1>1. CASE UNCHANGED vars
  BY <1>1, Zenon DEF vars, store, history, Typed, TypeOK, FieldsOK, OnlyNamedFieldsChange,
                     SwitchedOn, Filled, Content, Latest, JobTyped
<1>2. CASE Confirm \/ Mark
  BY <1>2, MarkTyped
<1>3. ASSUME NEW c \in Clients,
             \/ UpsertRead(c) \/ UpsertStore(c) \/ NumberTaken(c)
             \/ ChangeBegin(c) \/ ChangeStore(c)
             \/ EditRead(c) \/ NumberRead(c) \/ EditStore(c)
             \/ AcceptLoad(c) \/ AcceptCheck(c) \/ AcceptRefuse(c) \/ AcceptRead(c)
             \/ AcceptStore(c) \/ SyncRead(c) \/ SyncTask(c) \/ BreakOff(c)
             \/ RejectRead(c) \/ RejectStore(c)
             \/ HandOverRead(c) \/ HandOverStore(c)
      PROVE  Typed'
  BY <1>3, UpsertReadTyped, UpsertStoreTyped, EndTyped, ChangeBeginTyped, ChangeStoreTyped,
     EditReadTyped, NumberReadTyped, EditStoreTyped, AcceptLoadTyped, AcceptCheckTyped,
     AcceptReadTyped, AcceptStoreTyped, SyncReadTyped, RejectReadTyped, RejectStoreTyped,
     HandOverReadTyped, HandOverStoreTyped
<1> QED
  BY <1>1, <1>2, <1>3 DEF Next

LEMMA TypedInit == Init => Typed
<1> SUFFICES ASSUME Init PROVE Typed
  OBVIOUS
<1>1. Latest = 0 /\ versions \in Seq(Versions)
  BY DEF Init, Latest
<1>2. StoreTyped /\ RestTyped
  <2>1. changes \in [Changes -> Formed]
    BY Counts DEF Init, Formed, ChangeRequests, ChangeStatuses
  <2>2. status \in Statuses
    BY DEF Init, Statuses
  <2>3. RestTyped
    <3>1. task = 0 /\ confirmed = 0 /\ contested = {} /\ 0 \in 0..Latest
      BY <1>1 DEF Init
    <3>2. overtaken \in BOOLEAN /\ overlapped \in BOOLEAN /\ brokenOff \in BOOLEAN
      BY DEF Init
    <3> QED
      BY <3>1, <3>2 DEF RestTyped
  <2> QED
    BY <1>1, <2>1, <2>2, <2>3, Counts DEF StoreTyped
<1>3. /\ pc \in [Clients -> Places] /\ job \in [Clients -> Jobs]
      /\ \A c \in Clients : JobTyped(pc[c], job[c])
  BY <1>1, Counts DEF Init, Places, JobTyped, NoJob
<1>4. FieldsOK
  BY <1>1 DEF FieldsOK, OnlyNamedFieldsChange, Filled
<1>5. changes \in [Changes -> Formed] /\ changes \in [Changes -> ChangeRequests]
  BY <1>2, FormedTyped DEF StoreTyped
<1> QED
  BY <1>2, <1>3, <1>4, <1>5 DEF Typed, TypeOK, StoreTyped, RestTyped

(* Types of all variables, for any number of requests, versions and changes. *)
THEOREM TypesHold == Spec => []TypeOK
<1>1. Typed => TypeOK
  BY DEF Typed
<1> QED
  BY <1>1, TypedInit, TypedStep, PTL DEF Spec

(* No request changes a field it does not name, except the switches that an  *)
(* upsert or an acceptance turns on, although each reads the version before  *)
(* its own outside the transaction that stores it; only a staff edit or an   *)
(* acceptance whose base another version has followed does.                  *)
THEOREM OnlyNamedFieldsChangeHolds == Spec => []OnlyNamedFieldsChange
<1>1. Typed => OnlyNamedFieldsChange
  BY DEF Typed, FieldsOK
<1> QED
  BY <1>1, TypedInit, TypedStep, PTL DEF Spec


-----------------------------------------------------------------------------
(* Decisions.  Who asks for a change is alone with it and it is not stored;  *)
(* who decides one has found it pending.                                     *)
Acceptance == "staff_change_acceptance"
Edited == "staff_manual_edit"
AppliedBy(i) == {n \in Stored(Acceptance) : versions[n].by.change = i}
Synced == {n \in Stored(Acceptance) : versions[n].by.project}
EditsOf(i) == {n \in Stored(Edited) : n > changes[i].since}

(* A page that warns has shown every edit there was when it was loaded; an   *)
(* acceptance that goes on saw no other edits than those when it looked.     *)
Warned(j) ==
    /\ j.shown # {} /\ j.loaded <= Latest
    /\ \A n \in EditsOf(j.change) : n <= j.loaded =>
          versions[n].named \cap changes[j.change].fields \subseteq j.shown
Looked(j) ==
    /\ j.checked <= Latest
    /\ \A n \in EditsOf(j.change) : n <= j.checked =>
          \/ versions[n].named \cap changes[j.change].fields \subseteq j.shown
          \/ j.shown # {} /\ n > j.loaded

(* An update of the task under way brings every acceptance there is.         *)
Brings(j) == brokenOff \/ overlapped \/ \A n \in Synced : n <= j.base

PageOK(place, j) ==
    /\ place = "changing" => changes[j.change].status = "none"
    /\ place \in Deciding \cup {"loaded"} /\ j.change \in Changes =>
          changes[j.change].status # "none"
    /\ place \in Deciding /\ j.change \in Changes \ contested =>
          changes[j.change].status = "pending"
    /\ place = "loaded" => Warned(j)
    /\ place \in {"checked", "based", "numbered"} /\ j.change \in Changes => Looked(j)
    /\ place = "syncing" => Brings(j)
PagesOK == \A c \in Clients : PageOK(pc[c], job[c])

Clash(place, other, i) ==
    \/ place = "changing" /\ other = "changing"
    \/ place \in Deciding /\ other \in Deciding /\ i \in Changes \ contested
Apart ==
    \A c, d \in Clients :
        c # d /\ job[c].change = job[d].change => ~Clash(pc[c], pc[d], job[c].change)

Applied ==
    \A i \in Changes \ contested :
        IF changes[i].status = "accepted" THEN \E n : AppliedBy(i) = {n} ELSE AppliedBy(i) = {}

(* A change that was asked for keeps what it asks and when; what was applied *)
(* was asked for.                                                            *)
Lasts(i) ==
    changes[i].status # "none" =>
        /\ changes'[i].status # "none"
        /\ changes'[i].fields = changes[i].fields /\ changes'[i].since = changes[i].since
ChangesLast == \A i \in Changes : Lasts(i)
AppliedAsked ==
    \A n \in Stored(Acceptance) :
        versions[n].by.change \in Changes /\ changes[versions[n].by.change].status # "none"
EditsOK == AppliedAsked /\ EditsOverwrittenKnowingly

Decisions == PagesOK /\ Apart /\ Applied /\ EditsOK /\ TaskHasAccepted

LEMMA DecisionsInit == Init => Decisions
<1> SUFFICES ASSUME Init PROVE Decisions
  OBVIOUS
<1>1. \A c \in Clients : pc[c] = "idle" /\ versions = <<>> /\ Latest = 0
  BY DEF Init, Latest
<1>2. \A source : Stored(source) = {}
  BY DEF Init, Stored, Latest
<1>3. PagesOK /\ Apart
  BY <1>1 DEF PagesOK, PageOK, Apart, Clash, Deciding
<1>4. Applied
  BY <1>2 DEF Init, Applied, AppliedBy
<1>5. EditsOK /\ TaskHasAccepted
  BY <1>2 DEF EditsOK, AppliedAsked, EditsOverwrittenKnowingly, TaskHasAccepted
<1> QED
  BY <1>3, <1>4, <1>5 DEF Decisions

(* What there was of the versions stays.                                     *)
Grown == Latest' \in Nat /\ Latest <= Latest' /\ \A n \in 1..Latest : versions'[n] = versions[n]

LEMMA GrowsSame == UNCHANGED versions => Grown /\ Latest' = Latest
  BY Counts DEF Grown, Latest

LEMMA StoredGrown ==
    ASSUME Grown, NEW source
    PROVE  /\ Stored(source) \subseteq Stored(source)'
           /\ \A n \in Stored(source)' : n <= Latest => n \in Stored(source)
           /\ \A n \in Stored(source) : versions'[n] = versions[n] /\ n \in Nat /\ n <= Latest
           /\ \A n \in Stored(source)' : n \in Nat
  BY Counts DEF Grown, Stored

LEMMA EditsGrown ==
    ASSUME Grown, NEW i, changes'[i].since = changes[i].since
    PROVE  \A n \in EditsOf(i)' : n \in Nat /\ (n <= Latest => n \in EditsOf(i) /\ versions'[n] = versions[n])
  BY StoredGrown DEF EditsOf

(* A page that is not the one whose step it is keeps what it relies on.      *)
LEMMA PageKept ==
    ASSUME Typed, NEW place, NEW j \in Jobs, PageOK(place, j), Grown, contested \subseteq contested',
           place = "changing" => changes'[j.change].status = changes[j.change].status,
           place \in Deciding \cup {"loaded"} /\ j.change \in Changes => Lasts(j.change),
           place \in Deciding /\ j.change \in Changes \ contested' =>
               changes'[j.change].status = changes[j.change].status,
           place = "loaded" => j.change \in Changes,
           place = "syncing" => Brings(j)'
    PROVE  PageOK(place, j)'
<1>1. j.checked \in Nat /\ j.loaded \in Nat /\ Latest \in Nat /\ Latest' \in Nat /\ Latest <= Latest'
  BY Counts DEF Jobs, Numbers, Grown
<1>2. CASE place = "loaded"
  <2>1. changes'[j.change].fields = changes[j.change].fields /\ Warned(j)
        /\ changes'[j.change].status # "none" /\ changes'[j.change].since = changes[j.change].since
    BY <1>2 DEF PageOK, Lasts
  <2>2. Warned(j)'
    <3>1. ASSUME NEW n \in EditsOf(j.change)', n <= j.loaded
          PROVE  versions'[n].named \cap changes'[j.change].fields \subseteq j.shown
      <4>1. n \in EditsOf(j.change) /\ versions'[n] = versions[n]
        BY <1>1, <2>1, <3>1, EditsGrown DEF Warned
      <4> QED
        BY <2>1, <3>1, <4>1 DEF Warned
    <3>2. j.shown # {} /\ j.loaded <= Latest'
      BY <1>1, <2>1 DEF Warned
    <3> QED
      BY <3>1, <3>2 DEF Warned
  <2> QED
    BY <1>2, <2>1, <2>2 DEF PageOK, Deciding
<1>3. CASE place \in Deciding
  <2>1. j.change \in Changes \ contested' => changes'[j.change].status = "pending"
    BY <1>3 DEF PageOK
  <2>2. j.change \in Changes => changes'[j.change].status # "none"
    BY <1>3 DEF PageOK, Lasts
  <2>3. ASSUME place \in {"checked", "based", "numbered"}, j.change \in Changes PROVE Looked(j)'
    <3>1. changes'[j.change].fields = changes[j.change].fields /\ Looked(j)
          /\ changes'[j.change].since = changes[j.change].since
      BY <1>3, <2>3 DEF PageOK, Lasts
    <3>2. ASSUME NEW n \in EditsOf(j.change)', n <= j.checked
          PROVE  \/ versions'[n].named \cap changes'[j.change].fields \subseteq j.shown
                 \/ j.shown # {} /\ n > j.loaded
      <4>1. n \in EditsOf(j.change) /\ versions'[n] = versions[n]
        BY <1>1, <3>1, <3>2, EditsGrown DEF Looked
      <4> QED
        BY <3>1, <3>2, <4>1 DEF Looked
    <3>3. j.checked <= Latest'
      BY <1>1, <3>1 DEF Looked
    <3> QED
      BY <3>2, <3>3 DEF Looked
  <2> QED
    BY <1>3, <2>1, <2>2, <2>3 DEF PageOK, Deciding
<1>4. CASE place \notin Deciding /\ place # "loaded"
  BY <1>4 DEF PageOK, Deciding
<1> QED
  BY <1>2, <1>3, <1>4

LEMMA PagesMove ==
    ASSUME Typed, NEW c \in Clients, NEW place, NEW j, Goto(c, place, j), PageOK(place, j)',
           \A d \in Clients \ {c} : \A p \in Places, k \in Jobs :
               p = pc[d] /\ k = job[d] => PageOK(p, k)'
    PROVE  PagesOK'
<1>1. pc'[c] = place /\ job'[c] = j /\ \A d \in Clients \ {c} : pc'[d] = pc[d] /\ job'[d] = job[d]
  BY DEF Goto, Typed, TypeOK
<1>2. ASSUME NEW d \in Clients PROVE PageOK(pc[d], job[d])'
  <2>1. CASE d = c
    BY <1>1, <2>1 DEF PageOK, Warned, Looked, Brings, EditsOf, Synced, Stored, Latest
  <2>2. CASE d # c
    <3>1. PICK p \in Places, k \in Jobs : p = pc[d] /\ k = job[d]
      BY MyJob
    <3>2. PageOK(p, k)'
      BY <2>2, <3>1
    <3> QED
      BY <1>1, <2>2, <3>1, <3>2 DEF PageOK, Warned, Looked, Brings, EditsOf, Synced, Stored, Latest
  <2> QED
    BY <2>1, <2>2
<1> QED
  BY <1>2 DEF PagesOK

LEMMA ApartMoves ==
    ASSUME Typed, Apart, NEW c \in Clients, NEW place, NEW j, Goto(c, place, j),
           contested \subseteq contested',
           \A d \in Clients \ {c} : job[d].change = j.change =>
              /\ ~(place = "changing" /\ pc[d] = "changing")
              /\ place \in Deciding /\ pc[d] \in Deciding => j.change \notin Changes \ contested'
    PROVE  Apart'
<1>1. pc'[c] = place /\ job'[c] = j /\ \A d \in Clients \ {c} : pc'[d] = pc[d] /\ job'[d] = job[d]
  BY DEF Goto, Typed, TypeOK
<1> QED
  BY <1>1 DEF Apart, Clash

LEMMA SameVersions ==
    ASSUME UNCHANGED versions
    PROVE  /\ \A source : Stored(source)' = Stored(source)
           /\ \A i : AppliedBy(i)' = AppliedBy(i)
           /\ Synced' = Synced
<1>1. \A source : Stored(source)' = Stored(source)
  BY DEF Stored, Latest
<1> QED
  BY <1>1 DEF AppliedBy, Synced

LEMMA EditsKept ==
    ASSUME EditsOK, UNCHANGED versions, ChangesLast
    PROVE  EditsOK'
<1>1. \A source : Stored(source)' = Stored(source)
  BY SameVersions
<1>2. ASSUME NEW v \in Stored(Acceptance)
      PROVE  /\ versions[v].by.change \in Changes
             /\ changes'[versions[v].by.change].status # "none"
             /\ changes'[versions[v].by.change].fields = changes[versions[v].by.change].fields
             /\ changes'[versions[v].by.change].since = changes[versions[v].by.change].since
  BY DEF EditsOK, AppliedAsked, ChangesLast, Lasts
<1>3. AppliedAsked'
  BY <1>1, <1>2 DEF AppliedAsked
<1>4. EditsOverwrittenKnowingly'
  BY <1>1, <1>2 DEF EditsOK, EditsOverwrittenKnowingly, Acceptance
<1> QED
  BY <1>3, <1>4 DEF EditsOK

LEMMA TaskKept ==
    ASSUME Typed, TaskHasAccepted, NEW c \in Clients, NEW place, NEW j, Goto(c, place, j),
           UNCHANGED <<versions, task>>, brokenOff => brokenOff', overlapped => overlapped',
           pc[c] \in Syncing => place \in Syncing
    PROVE  TaskHasAccepted'
<1>1. pc'[c] = place /\ \A d \in Clients \ {c} : pc'[d] = pc[d]
  BY DEF Goto, Typed, TypeOK
<1>2. CASE \E d \in Clients : pc[d] \in Syncing
  <2>1. \E d \in Clients : pc'[d] \in Syncing
    BY <1>1, <1>2
  <2> QED
    BY <2>1 DEF TaskHasAccepted, Syncing
<1>3. CASE \A n \in Stored("staff_change_acceptance") : versions[n].by.project => task >= n
  <2>1. \A n \in Stored("staff_change_acceptance")' : versions'[n].by.project => task' >= n
    BY <1>3, SameVersions
  <2> QED
    BY <2>1 DEF TaskHasAccepted
<1>4. CASE brokenOff \/ overlapped
  BY <1>4 DEF TaskHasAccepted
<1> QED
  BY <1>2, <1>3, <1>4 DEF TaskHasAccepted

(* A request that stores nothing in the requirement.                         *)
LEMMA ReadsOn ==
    ASSUME Typed, Decisions, NEW c \in Clients, NEW place, NEW j \in Jobs, Goto(c, place, j),
           UNCHANGED <<versions, changes>>, contested \subseteq contested',
           brokenOff => brokenOff', overlapped => overlapped',
           PageOK(place, j), place = "loaded" => j.change \in Changes,
           \A d \in Clients \ {c} : job[d].change = j.change =>
              /\ ~(place = "changing" /\ pc[d] = "changing")
              /\ place \in Deciding /\ pc[d] \in Deciding => j.change \notin Changes \ contested',
           TaskHasAccepted'
    PROVE  Decisions'
<1>1. Grown /\ ChangesLast /\ \A k : Brings(k) => Brings(k)'
  BY GrowsSame, SameVersions DEF Brings, ChangesLast, Lasts
<1>2. PageOK(place, j)'
  <2>1. place = "syncing" => Brings(j)'
    BY <1>1 DEF PageOK
  <2> QED
    BY <1>1, <2>1, PageKept DEF ChangesLast
<1>3. PagesOK'
  <2>1. ASSUME NEW d \in Clients \ {c}, NEW p \in Places, NEW k \in Jobs, p = pc[d], k = job[d]
        PROVE  PageOK(p, k)'
    <3>1. PageOK(p, k) /\ JobTyped(p, k)
      BY <2>1, MyJob DEF Decisions, PagesOK
    <3>2. p = "syncing" => Brings(k)'
      BY <1>1, <3>1 DEF PageOK
    <3> QED
      BY <1>1, <3>1, <3>2, PageKept DEF JobTyped, ChangesLast
  <2> QED
    BY <1>2, <2>1, PagesMove
<1>4. Apart'
  BY ApartMoves DEF Decisions
<1>5. Applied'
  BY SameVersions DEF Decisions, Applied
<1>6. EditsOK'
  BY <1>1, EditsKept DEF Decisions
<1> QED
  BY <1>3, <1>4, <1>5, <1>6 DEF Decisions

(* Places from which nothing is decided and nothing updates the task.        *)
LEMMA PlainMove ==
    ASSUME Typed, Decisions, NEW c \in Clients, NEW place, NEW j \in Jobs, Goto(c, place, j),
           UNCHANGED <<versions, changes, task, contested, brokenOff, overlapped>>,
           place \notin Deciding \cup Syncing \cup {"changing", "loaded"}, pc[c] \notin Syncing
    PROVE  Decisions'
<1>1. PageOK(place, j)
  BY DEF PageOK, Deciding, Syncing
<1>2. TaskHasAccepted'
  BY TaskKept DEF Decisions
<1>3. \A d \in Clients \ {c} : job[d].change = j.change =>
              /\ ~(place = "changing" /\ pc[d] = "changing")
              /\ place \in Deciding /\ pc[d] \in Deciding => j.change \notin Changes \ contested'
  OBVIOUS
<1> QED
  BY <1>1, <1>2, <1>3, ReadsOn

LEMMA PlainDecisions ==
    ASSUME Typed, Decisions, NEW c \in Clients,
           UpsertRead(c) \/ NumberTaken(c) \/ AcceptRefuse(c) \/ HandOverRead(c)
               \/ HandOverStore(c)
    PROVE  Decisions'
<1>1. CASE UpsertRead(c)
  <2>1. PICK j : j = [NoJob EXCEPT !.base = Latest, !.number = Latest + 1]
    OBVIOUS
  <2>2. j \in Jobs
    BY <1>1, <2>1, NextNumber, Blank DEF Jobs, NoJob, UpsertRead
  <2>3. "upserting" \notin Deciding \cup Syncing \cup {"changing", "loaded"}
    BY DEF Deciding, Syncing
  <2> QED
    BY <1>1, <2>1, <2>2, <2>3, PlainMove DEF UpsertRead, store, history, Syncing
<1>2. CASE NumberTaken(c) \/ AcceptRefuse(c) \/ HandOverStore(c)
  <2>1. Leave(c) /\ UNCHANGED <<versions, changes, task, contested, brokenOff, overlapped>>
    BY <1>2 DEF NumberTaken, AcceptRefuse, HandOverStore, store, history
  <2>2. pc[c] \notin Syncing
    BY <1>2 DEF NumberTaken, AcceptRefuse, HandOverStore, HandOver, Syncing
  <2>3. "idle" \notin Deciding \cup Syncing \cup {"changing", "loaded"}
    BY DEF Deciding, Syncing
  <2> QED
    BY <2>1, <2>2, <2>3, Blank, PlainMove DEF Leave
<1>3. CASE HandOverRead(c)
  <2>1. PICK place \in DOMAIN HandOver : Goto(c, place, NoJob)
    BY <1>3, Zenon DEF HandOverRead
  <2>2. place \notin Deciding \cup Syncing \cup {"changing", "loaded"}
    BY DEF HandOver, Deciding, Syncing
  <2> QED
    BY <1>3, <2>1, <2>2, Blank, PlainMove DEF HandOverRead, store, history, Syncing
<1> QED
  BY <1>1, <1>2, <1>3

LEMMA ChangeBeginDecisions ==
    ASSUME Typed, Decisions, NEW c \in Clients, ChangeBegin(c) PROVE Decisions'
<1>1. PICK i \in Changes, since \in 0..Latest :
        /\ AskedFor = 1..(i - 1)
        /\ Goto(c, "changing", [NoJob EXCEPT !.change = i, !.since = since])
  BY Zenon DEF ChangeBegin
<1>2. PICK j : j = [NoJob EXCEPT !.change = i, !.since = since]
  OBVIOUS
<1>n. since \in Numbers
  BY MyJob, Counts DEF Numbers
<1>3. j \in Jobs /\ j.change = i
  BY <1>2, <1>n, Blank DEF Jobs, NoJob
<1>4. i \notin AskedFor
  BY <1>1, RequirementAssumption DEF Changes
<1>5. changes[i].status = "none" /\ \A d \in Clients : pc[d] = "changing" => job[d].change # i
  BY <1>4 DEF AskedFor, BeingAsked
<1>6. PageOK("changing", j)
  BY <1>3, <1>5 DEF PageOK, Deciding
<1>7. UNCHANGED <<versions, changes, task, contested, brokenOff, overlapped>> /\ pc[c] = "idle"
  BY DEF ChangeBegin, store, history
<1>8. TaskHasAccepted'
  BY <1>1, <1>7, TaskKept DEF Decisions, Syncing
<1>9. "changing" \notin Deciding
  BY DEF Deciding
<1> QED
  BY <1>1, <1>2, <1>3, <1>5, <1>6, <1>7, <1>8, <1>9, ReadsOn

(* An edit, or an acceptance, that goes on with what it decided before.      *)
LEMMA ReadDecisions ==
    ASSUME Typed, Decisions, NEW c \in Clients, EditRead(c) \/ NumberRead(c) \/ AcceptRead(c)
    PROVE  Decisions'
<1>1. UNCHANGED <<versions, changes, task, contested, brokenOff, overlapped>>
      /\ pc[c] \notin Syncing
  BY DEF EditRead, NumberRead, AcceptRead, store, history, Syncing
<1>2. PICK place \in {"based", "numbered"}, j \in Jobs :
        /\ Goto(c, place, j)
        /\ \/ j.change = 0
           \/ /\ pc[c] \in {"checked", "based"} /\ j.change = job[c].change
              /\ j.checked = job[c].checked /\ j.shown = job[c].shown
              /\ j.loaded = job[c].loaded
  <2>1. CASE EditRead(c)
    <3>1. PICK j : j = [NoJob EXCEPT !.base = Latest]
      OBVIOUS
    <3>2. j \in Jobs /\ j.change = 0
      BY <3>1, NextNumber, Blank DEF Jobs, NoJob
    <3> QED
      BY <2>1, <3>1, <3>2 DEF EditRead
  <2>2. CASE NumberRead(c) \/ AcceptRead(c)
    <3>1. Latest \in Numbers /\ (Latest < MaxVersions => Latest + 1 \in Numbers) /\ job[c] \in Jobs
      BY NextNumber, MyJob
    <3>2. PICK j \in Jobs, place \in {"based", "numbered"} :
             /\ Goto(c, place, j)
             /\ j.change = job[c].change /\ j.checked = job[c].checked /\ j.shown = job[c].shown
             /\ j.loaded = job[c].loaded
      <4>1. CASE NumberRead(c)
        <5>1. PICK j : j = [job[c] EXCEPT !.number = Latest + 1]
          OBVIOUS
        <5>2. /\ j \in Jobs
              /\ j.change = job[c].change /\ j.checked = job[c].checked /\ j.shown = job[c].shown
              /\ j.loaded = job[c].loaded
          BY <3>1, <4>1, <5>1 DEF Jobs, NumberRead
        <5>3. PICK place \in {"based", "numbered"} : place = "numbered"
          OBVIOUS
        <5>4. Goto(c, place, j)
          BY <4>1, <5>1, <5>3 DEF NumberRead

        <5> QED
          BY <5>2, <5>4
      <4>2. CASE AcceptRead(c)
        <5>1. PICK j : j = [job[c] EXCEPT !.base = Latest]
          OBVIOUS
        <5>2. /\ j \in Jobs
              /\ j.change = job[c].change /\ j.checked = job[c].checked /\ j.shown = job[c].shown
              /\ j.loaded = job[c].loaded
          BY <3>1, <4>2, <5>1 DEF Jobs
        <5>3. PICK place \in {"based", "numbered"} : place = "based"
          OBVIOUS
        <5>4. Goto(c, place, j)
          BY <4>2, <5>1, <5>3 DEF AcceptRead

        <5> QED
          BY <5>2, <5>4
      <4> QED
        BY <2>2, <4>1, <4>2
    <3> QED
      BY <2>2, <3>2 DEF NumberRead, AcceptRead
  <2> QED
    BY <2>1, <2>2
<1>3. 0 \notin Changes
  BY RequirementAssumption DEF Changes
<1>4. j.change \in Changes =>
        /\ pc[c] \in {"checked", "based"} /\ j.change = job[c].change
        /\ j.checked = job[c].checked /\ j.shown = job[c].shown /\ j.loaded = job[c].loaded
  BY <1>2, <1>3
<1>5. PageOK(place, j)
  BY <1>2, <1>4 DEF Decisions, PagesOK, PageOK, Deciding, Looked, EditsOf
<1>6. TaskHasAccepted'
  BY <1>1, <1>2, TaskKept DEF Decisions
<1>7. \A d \in Clients \ {c} : job[d].change = j.change =>
              /\ ~(place = "changing" /\ pc[d] = "changing")
              /\ place \in Deciding /\ pc[d] \in Deciding => j.change \notin Changes \ contested'
  BY <1>1, <1>2, <1>4 DEF Decisions, Apart, Clash, Deciding
<1> QED
  BY <1>1, <1>2, <1>5, <1>6, <1>7, ReadsOn

LEMMA AcceptLoadDecisions ==
    ASSUME Typed, Decisions, NEW c \in Clients, AcceptLoad(c) PROVE Decisions'
<1>1. PICK i \in Pending :
        /\ Conflicts(i) # {}
        /\ Goto(c, "loaded", [NoJob EXCEPT !.change = i, !.project = TRUE,
                                           !.shown = Conflicts(i), !.loaded = Latest])
  BY DEF AcceptLoad
<1>2. PICK j : j = [NoJob EXCEPT !.change = i, !.project = TRUE,
                                 !.shown = Conflicts(i), !.loaded = Latest]
  OBVIOUS
<1>3. i \in Changes /\ changes[i].status = "pending"
  BY DEF Pending
<1>4. Conflicts(i) \in SUBSET Fields
  BY <1>3, ConflictsTyped
<1>5. j \in Jobs /\ j.change = i /\ j.shown = Conflicts(i) /\ j.loaded = Latest
  BY <1>2, <1>3, <1>4, NextNumber, Blank DEF Jobs, NoJob
<1>6. Warned(j)
  BY <1>1, <1>5, Counts DEF Warned, EditsOf, Conflicts, Edited
<1>7. PageOK("loaded", j)
  BY <1>3, <1>5, <1>6 DEF PageOK, Deciding
<1>8. UNCHANGED <<versions, changes, task, contested, brokenOff, overlapped>> /\ pc[c] = "idle"
  BY DEF AcceptLoad, store, history
<1>9. TaskHasAccepted'
  BY <1>1, <1>8, TaskKept DEF Decisions, Syncing
<1> DEFINE place == "loaded"
<1>10. place \notin Deciding /\ place # "changing" /\ Goto(c, place, j) /\ PageOK(place, j)
  BY <1>1, <1>2, <1>7 DEF Deciding
<1> HIDE DEF place
<1> QED
  BY <1>3, <1>5, <1>8, <1>9, <1>10, ReadsOn

(* Somebody begins to decide a change: it is pending, and who decides it at  *)
(* the same time is on record.                                               *)
LEMMA CheckDecisions ==
    ASSUME Typed, Decisions, NEW c \in Clients, pc[c] \in {"idle", "loaded"},
           NEW place \in {"checked", "rejecting"}, NEW i \in Changes, changes[i].status = "pending",
           NEW j \in Jobs, j.change = i, place = "checked" => Looked(j),
           Check(c, place, i, j)
    PROVE  Decisions'
<1>1. /\ Goto(c, place, j) /\ UNCHANGED <<versions, changes, task, brokenOff, overlapped>>
      /\ contested \subseteq contested'
      /\ \A d \in Clients \ {c} : pc[d] \in Deciding /\ job[d].change = i => i \in contested'
  BY DEF Check, store, Others
<1>2. PageOK(place, j)
  BY DEF PageOK, Deciding
<1>3. TaskHasAccepted'
  BY <1>1, TaskKept DEF Decisions, Syncing
<1>4. place \notin {"changing", "loaded"}
  OBVIOUS
<1>5. \A d \in Clients \ {c} : job[d].change = j.change =>
              /\ ~(place = "changing" /\ pc[d] = "changing")
              /\ place \in Deciding /\ pc[d] \in Deciding => j.change \notin Changes \ contested'
  BY <1>1, <1>4
<1> QED
  BY <1>1, <1>2, <1>3, <1>4, <1>5, ReadsOn

LEMMA AcceptCheckDecisions ==
    ASSUME Typed, Decisions, NEW c \in Clients, AcceptCheck(c) PROVE Decisions'
<1>n. Latest \in Nat /\ \A i : \A n \in EditsOf(i) : n \in Nat /\ n <= Latest
  BY Counts DEF EditsOf, Stored
<1>1. CASE pc[c] = "loaded"
  <2>1. /\ Check(c, "checked", job[c].change, [job[c] EXCEPT !.checked = Latest])
        /\ changes[job[c].change].status = "pending"
    BY <1>1 DEF AcceptCheck, MayAccept
  <2>2. job[c].change \in Changes /\ job[c] \in Jobs /\ Warned(job[c])
    BY <1>1, MyJob DEF JobTyped, Decisions, PagesOK, PageOK
  <2>3. PICK j : j = [job[c] EXCEPT !.checked = Latest]
    OBVIOUS
  <2>4. /\ j \in Jobs /\ j.change = job[c].change /\ j.checked = Latest
        /\ j.shown = job[c].shown /\ j.loaded = job[c].loaded
    BY <2>2, <2>3, NextNumber DEF Jobs
  <2>5. Looked(j)
    <3>1. j.loaded \in Nat
      BY <2>4, Counts DEF Jobs, Numbers
    <3> QED
      BY <1>n, <2>2, <2>4, <3>1 DEF Warned, Looked
  <2> QED
    BY <1>1, <2>1, <2>2, <2>3, <2>4, <2>5, CheckDecisions
<1>2. CASE pc[c] # "loaded"
  <2>1. PICK i \in Changes, project \in BOOLEAN :
          /\ MayAccept(i, FALSE) /\ pc[c] = "idle"
          /\ Check(c, "checked", i, [NoJob EXCEPT !.change = i, !.project = project,
                                                  !.checked = Latest])
    BY <1>2 DEF AcceptCheck
  <2>2. PICK j : j = [NoJob EXCEPT !.change = i, !.project = project, !.checked = Latest]
    OBVIOUS
  <2>3. j \in Jobs /\ j.change = i /\ j.checked = Latest
    BY <2>2, NextNumber, Blank DEF Jobs, NoJob
  <2>4. changes[i].status = "pending" /\ Conflicts(i) = {}
    BY <2>1 DEF MayAccept
  <2>5. Looked(j)
    <3>1. ASSUME NEW n \in EditsOf(i)
          PROVE  versions[n].named \cap changes[i].fields \subseteq j.shown
      BY <2>4 DEF Conflicts, EditsOf, Edited
    <3> QED
      BY <1>n, <2>3, <3>1 DEF Looked
  <2> QED
    BY <2>1, <2>2, <2>3, <2>4, <2>5, CheckDecisions
<1> QED
  BY <1>1, <1>2

LEMMA RejectReadDecisions ==
    ASSUME Typed, Decisions, NEW c \in Clients, RejectRead(c) PROVE Decisions'
<1>1. PICK i \in Changes :
        /\ changes[i].status = "pending"
        /\ Check(c, "rejecting", i, [NoJob EXCEPT !.change = i])
  BY DEF RejectRead, Pending
<1>2. PICK j : j = [NoJob EXCEPT !.change = i]
  OBVIOUS
<1>3. j \in Jobs /\ j.change = i
  BY <1>2, Blank DEF Jobs, NoJob
<1>4. pc[c] = "idle"
  BY DEF RejectRead
<1> QED
  BY <1>1, <1>2, <1>3, <1>4, CheckDecisions

-----------------------------------------------------------------------------
(* The task follows the acceptances.                                         *)
LEMMA SyncDecisions ==
    ASSUME Typed, Decisions, NEW c \in Clients, SyncRead(c) \/ SyncTask(c) \/ BreakOff(c)
    PROVE  Decisions'
<1>0. \A n \in Synced : n \in Nat /\ n <= Latest
  BY Counts DEF Synced, Stored
<1>1. CASE SyncRead(c)
  <2>1. PICK j : j = [NoJob EXCEPT !.base = Latest]
    OBVIOUS
  <2>2. j \in Jobs /\ j.base = Latest
    BY <2>1, NextNumber, Blank DEF Jobs, NoJob
  <2> DEFINE place == "syncing"
  <2>3. /\ Goto(c, place, j) /\ place \in Syncing /\ place \notin Deciding
        /\ place \notin {"loaded", "changing"}
        /\ UNCHANGED <<versions, changes, task, contested, brokenOff, overlapped>>
    BY <1>1, <2>1 DEF SyncRead, Syncing, Deciding, store, history
  <2>4. PageOK(place, j)
    BY <1>0, <2>2 DEF PageOK, Deciding, Brings
  <2> HIDE DEF place
  <2>5. TaskHasAccepted'
    BY <2>3, TaskKept DEF Decisions
  <2> QED
    BY <2>2, <2>3, <2>4, <2>5, ReadsOn
<1>2. CASE SyncTask(c) \/ BreakOff(c)
  <2> DEFINE place == "idle"
  <2>1. /\ Goto(c, place, NoJob) /\ place \notin Deciding /\ place \notin {"loaded", "changing"}
        /\ UNCHANGED <<versions, changes, contested, overlapped>> /\ (brokenOff => brokenOff')
    BY <1>2 DEF SyncTask, BreakOff, Leave, Deciding, store, history
  <2>2. PageOK(place, NoJob)
    BY DEF PageOK, Deciding
  <2> HIDE DEF place
  <2>3. TaskHasAccepted'
    <3>1. CASE BreakOff(c)
      BY <3>1 DEF BreakOff, TaskHasAccepted
    <3>2. CASE SyncTask(c)
      <4>1. task' = job[c].base /\ pc[c] = "syncing" /\ UNCHANGED <<brokenOff, overlapped>>
        BY <3>2 DEF SyncTask, history
      <4>2. Brings(job[c])
        BY <4>1 DEF Decisions, PagesOK, PageOK
      <4>3. CASE brokenOff \/ overlapped
        BY <4>1, <4>3 DEF TaskHasAccepted
      <4>4. CASE \A n \in Synced : n <= job[c].base
        <5>1. \A n \in Stored("staff_change_acceptance")' : versions'[n].by.project => task' >= n
          <6>1. ASSUME NEW n \in Stored("staff_change_acceptance")', versions'[n].by.project
                PROVE  task' >= n
            <7>1. n \in Synced
              BY <2>1, <6>1, SameVersions DEF Synced, Acceptance
            <7>2. n \in Nat /\ job[c].base \in Nat
              BY <1>0, <7>1, MyJob, Counts DEF Jobs, Numbers
            <7> QED
              BY <4>1, <4>4, <7>1, <7>2
          <6> QED
            BY <6>1
        <5> QED
          BY <5>1 DEF TaskHasAccepted
      <4> QED
        BY <4>2, <4>3, <4>4 DEF Brings
    <3> QED
      BY <1>2, <3>1, <3>2
  <2> QED
    BY <2>1, <2>2, <2>3, Blank, ReadsOn
<1> QED
  BY <1>1, <1>2

LEMMA MarkDecisions ==
    ASSUME Typed, Decisions, Confirm \/ Mark \/ UNCHANGED vars
    PROVE  Decisions'
<1>1. UNCHANGED <<versions, changes, task, pc, job, contested, brokenOff, overlapped>>
  BY DEF Confirm, Mark, vars, store, history
<1>2. Latest' = Latest
  BY <1>1 DEF Latest
<1>3. PagesOK'
  BY <1>1, <1>2, SameVersions DEF Decisions, PagesOK, PageOK, Warned, Looked, Brings, EditsOf
<1>4. Apart' /\ Applied'
  BY <1>1, SameVersions DEF Decisions, Apart, Clash, Applied
<1>5. EditsOK' /\ TaskHasAccepted'
  BY <1>1, SameVersions, EditsKept DEF Decisions, TaskHasAccepted, ChangesLast, Lasts
<1> QED
  BY <1>3, <1>4, <1>5 DEF Decisions

-----------------------------------------------------------------------------
(* What is stored.                                                           *)
LEMMA VersionAdded ==
    ASSUME Typed, NEW c \in Clients, NEW source \in Sources, NEW content, NEW named,
           AddVersion(c, source, content, named)
    PROVE  /\ Grown /\ Latest' = Latest + 1 /\ Latest \in Nat
           /\ versions'[Latest'].source = source /\ versions'[Latest'].named = named
           /\ versions'[Latest'].by = job[c]
           /\ Stored(source)' = Stored(source) \cup {Latest'}
           /\ \A s \in Sources \ {source} : Stored(s)' = Stored(s)
<1>1. PICK v : /\ v = [source |-> source, fields |-> content, named |-> named, by |-> job[c]]
               /\ versions' = Append(versions, v)
  BY DEF AddVersion
<1>2. versions \in Seq(Versions) /\ Latest \in Nat
  BY Counts DEF Typed, TypeOK
<1>3. /\ Latest' = Latest + 1 /\ versions'[Latest + 1] = v
      /\ \A n \in 1..Latest : versions'[n] = versions[n]
  BY <1>1, <1>2 DEF Latest
<1>4. v.source = source /\ v.named = named /\ v.by = job[c]
  BY <1>1
<1>5. \A s : Stored(s)' = {n \in 1..(Latest + 1) : versions'[n].source = s}
  BY <1>3 DEF Stored
<1>6. \A s : Stored(s)' = Stored(s) \cup {n \in {Latest + 1} : source = s}
  BY <1>2, <1>3, <1>4, <1>5 DEF Stored
<1>7. Grown
  BY <1>2, <1>3 DEF Grown
<1> QED
  BY <1>2, <1>3, <1>4, <1>6, <1>7

(* An upsert or an edit applies no change and overwrites no edit.            *)
LEMMA PlainStoreDecisions ==
    ASSUME Typed, Decisions, NEW c \in Clients, NEW source \in {"upsert", "staff_manual_edit"},
           NEW content, NEW named, AddVersion(c, source, content, named), Leave(c),
           UNCHANGED <<changes, task, contested, brokenOff, overlapped>>, pc[c] \notin Syncing
    PROVE  Decisions'
<1>1. /\ Grown /\ Latest' = Latest + 1 /\ Latest \in Nat
      /\ Stored(Acceptance)' = Stored(Acceptance)
      /\ \A s \in Sources : \A n \in Stored(s)' : n \in Stored(s) \/ n = Latest'
  BY VersionAdded DEF Sources, Acceptance
<1>2. \A n \in Stored(Acceptance) : versions'[n] = versions[n] /\ n \in Nat /\ n <= Latest
  BY <1>1, StoredGrown
<1>3. Synced' = Synced /\ \A i : AppliedBy(i)' = AppliedBy(i)
  BY <1>1, <1>2 DEF Synced, AppliedBy
<1> DEFINE place == "idle"
<1>4. /\ Goto(c, place, NoJob) /\ place \notin Deciding \cup Syncing
      /\ place \notin {"loaded", "changing"} /\ NoJob \in Jobs
  BY Counts DEF Leave, Deciding, Syncing
<1>5. PageOK(place, NoJob)'
  BY <1>4 DEF PageOK, Deciding, Syncing
<1> HIDE DEF place
<1>6. PagesOK'
  <2>1. ASSUME NEW d \in Clients \ {c}, NEW p \in Places, NEW k \in Jobs, p = pc[d], k = job[d]
        PROVE  PageOK(p, k)'
    <3>1. PageOK(p, k) /\ JobTyped(p, k)
      BY <2>1, MyJob DEF Decisions, PagesOK
    <3>2. p = "syncing" => Brings(k)'
      BY <1>3, <3>1 DEF PageOK, Brings
    <3> QED
      BY <1>1, <3>1, <3>2, PageKept DEF JobTyped, Lasts
  <2> QED
    BY <1>4, <1>5, <2>1, PagesMove
<1>7. Apart'
  BY <1>4, ApartMoves DEF Decisions
<1>8. Applied'
  BY <1>3 DEF Decisions, Applied
<1>9. EditsOverwrittenKnowingly'
  <2>1. ASSUME NEW v \in Stored("staff_change_acceptance")', NEW n \in Stored("staff_manual_edit")',
               n < v, changes'[versions'[v].by.change].since < n
        PROVE  \/ versions'[n].named \cap changes'[versions'[v].by.change].fields
                      \subseteq versions'[v].by.shown
               \/ n > versions'[v].by.checked
               \/ versions'[v].by.shown # {} /\ n > versions'[v].by.loaded
    <3>1. v \in Stored("staff_change_acceptance") /\ versions'[v] = versions[v] /\ v <= Latest
          /\ v \in Nat
      BY <1>1, <1>2, <2>1 DEF Acceptance
    <3>2. n \in Nat /\ n <= Latest
      <4>1. n \in Nat
        BY <1>1, StoredGrown
      <4> QED
        BY <1>1, <2>1, <3>1, <4>1
    <3>3. n \in Stored("staff_manual_edit") /\ versions'[n] = versions[n]
      BY <1>1, <3>2, StoredGrown
    <3> QED
      BY <2>1, <3>1, <3>3 DEF Decisions, EditsOK, EditsOverwrittenKnowingly
  <2> QED
    BY <2>1 DEF EditsOverwrittenKnowingly
<1>e. EditsOK'
  BY <1>1, <1>2, <1>9 DEF Decisions, EditsOK, AppliedAsked
<1>10. TaskHasAccepted'
  <2>1. \A d \in Clients : pc[d] \in Syncing => pc'[d] \in Syncing
    BY DEF Leave, Goto, Typed, TypeOK
  <2>2. CASE \E d \in Clients : pc[d] \in Syncing
    <3>1. \E d \in Clients : pc'[d] \in Syncing
      BY <2>1, <2>2
    <3> QED
      BY <3>1 DEF TaskHasAccepted, Syncing
  <2>3. CASE \A n \in Stored("staff_change_acceptance") : versions[n].by.project => task >= n
    BY <1>1, <1>2, <2>3 DEF TaskHasAccepted, Acceptance
  <2>4. CASE brokenOff \/ overlapped
    BY <2>4 DEF TaskHasAccepted
  <2> QED
    BY <2>2, <2>3, <2>4 DEF Decisions, TaskHasAccepted
<1> QED
  BY <1>6, <1>7, <1>8, <1>e, <1>10 DEF Decisions

LEMMA EditUpsertDecisions ==
    ASSUME Typed, Decisions, NEW c \in Clients, UpsertStore(c) \/ EditStore(c)
    PROVE  Decisions'
<1>1. PICK source \in {"upsert", "staff_manual_edit"} :
        \E content, named : AddVersion(c, source, content, named)
  <2>1. CASE UpsertStore(c)
    BY <2>1, Zenon DEF UpsertStore
  <2>2. CASE EditStore(c)
    BY <2>2, Zenon DEF EditStore
  <2> QED
    BY <2>1, <2>2
<1>2. /\ Leave(c) /\ UNCHANGED <<changes, task, contested, brokenOff, overlapped>>
      /\ pc[c] \notin Syncing
  BY DEF UpsertStore, EditStore, history, Syncing
<1> QED
  BY <1>1, <1>2, PlainStoreDecisions

(* A change is stored, or rejected, by who alone asks for it or decides it,  *)
(* or else is contested.                                                     *)
LEMMA OthersKeep ==
    ASSUME Typed, Decisions, NEW c \in Clients, NEW i \in Changes, job[c].change = i,
           pc[c] = "changing" \/ pc[c] \in Deciding, Grown, contested' = contested,
           \A k \in Changes \ {i} : changes'[k] = changes[k],
           changes'[i].status # "none", Lasts(i),
           \A k \in Jobs : Brings(k) => Brings(k)' \/ \A d \in Clients \ {c} : pc[d] # "syncing"
    PROVE  \A d \in Clients \ {c} : \A p \in Places, k \in Jobs :
               p = pc[d] /\ k = job[d] => PageOK(p, k)'
<1> SUFFICES ASSUME NEW d \in Clients \ {c}, NEW p \in Places, NEW k \in Jobs, p = pc[d], k = job[d]
             PROVE  PageOK(p, k)'
  OBVIOUS
<1>1. PageOK(p, k) /\ JobTyped(p, k)
  BY MyJob DEF Decisions, PagesOK
<1>2. k.change = i => ~Clash(pc[c], p, i)
  BY DEF Decisions, Apart
<1>3. p = "syncing" => Brings(k)'
  BY <1>1 DEF PageOK
<1>4. CASE k.change # i
  <2>1. k.change \in Changes => changes'[k.change] = changes[k.change]
    BY <1>4
  <2>2. p = "changing" \/ p = "loaded" => k.change \in Changes
    BY <1>1 DEF JobTyped
  <2> QED
    BY <1>1, <1>3, <2>1, <2>2, PageKept DEF Lasts
<1>5. CASE k.change = i
  <2>1. p # "changing"
    BY <1>1, <1>2, <1>5 DEF Clash, Decisions, PagesOK, PageOK, Deciding
  <2>2. p \in Deciding /\ i \notin contested => FALSE
    <3>1. CASE pc[c] = "changing"
      BY <1>1, <1>5, <3>1 DEF Decisions, PagesOK, PageOK
    <3>2. CASE pc[c] \in Deciding
      BY <1>2, <1>5, <3>2 DEF Clash
    <3> QED
      BY <3>1, <3>2
  <2> QED
    BY <1>1, <1>3, <1>5, <2>1, <2>2, PageKept
<1> QED
  BY <1>4, <1>5

LEMMA ChangeDecisions ==
    ASSUME Typed, Decisions, NEW c \in Clients, NEW i \in Changes, job[c].change = i,
           pc[c] = "changing" \/ pc[c] \in Deciding, Leave(c), pc[c] \notin Syncing,
           UNCHANGED <<versions, task, contested, brokenOff, overlapped>>,
           \A k \in Changes \ {i} : changes'[k] = changes[k],
           changes'[i].status \notin {"none", "accepted"}, Lasts(i)
    PROVE  Decisions'
<1>1. Grown /\ ChangesLast /\ \A k : Brings(k) => Brings(k)'
  BY GrowsSame, SameVersions DEF Brings, ChangesLast, Lasts
<1> DEFINE place == "idle"
<1>2. /\ Goto(c, place, NoJob) /\ place \notin Deciding \cup Syncing
      /\ place \notin {"loaded", "changing"} /\ NoJob \in Jobs
  BY Counts DEF Leave, Deciding, Syncing
<1>3. PageOK(place, NoJob)'
  BY <1>2 DEF PageOK, Deciding, Syncing
<1> HIDE DEF place
<1>4. PagesOK'
  <2>1. \A d \in Clients \ {c} : \A p \in Places, k \in Jobs :
               p = pc[d] /\ k = job[d] => PageOK(p, k)'
    BY <1>1, OthersKeep
  <2> QED
    BY <1>2, <1>3, <2>1, PagesMove
<1>5. Apart'
  BY <1>2, ApartMoves DEF Decisions
<1>6. Applied'
  <2>1. ASSUME i \notin contested PROVE changes[i].status # "accepted"
    BY <2>1 DEF Decisions, PagesOK, PageOK
  <2>2. \A k : AppliedBy(k)' = AppliedBy(k)
    BY SameVersions
  <2>3. ASSUME NEW k \in Changes \ contested
        PROVE  IF changes'[k].status = "accepted" THEN \E n : AppliedBy(k)' = {n}
               ELSE AppliedBy(k)' = {}
    <3>1. CASE k = i
      BY <2>1, <2>2, <2>3, <3>1 DEF Decisions, Applied
    <3>2. CASE k # i
      BY <2>2, <2>3, <3>2 DEF Decisions, Applied
    <3> QED
      BY <3>1, <3>2
  <2> QED
    BY <2>3 DEF Applied
<1>7. EditsOK'
  BY <1>1, EditsKept DEF Decisions
<1>8. TaskHasAccepted'
  <2>1. Goto(c, "idle", NoJob) /\ TaskHasAccepted
    BY DEF Leave, Decisions
  <2> QED
    BY <2>1, TaskKept
<1> QED
  BY <1>4, <1>5, <1>6, <1>7, <1>8 DEF Decisions

LEMMA ChangedDecisions ==
    ASSUME Typed, Decisions, NEW c \in Clients, ChangeStore(c) \/ RejectStore(c)
    PROVE  Decisions'
<1>1. PICK i \in Changes : i = job[c].change
  BY MyJob DEF ChangeStore, RejectStore, JobTyped
<1>2. changes \in [Changes -> Formed]
  BY Parts DEF StoreTyped
<1>3. CASE ChangeStore(c)
  <2>1. PICK asked \in Payloads : \E fields \in {asked, Implied(asked)} :
          changes' = [changes EXCEPT ![i] =
                         [status |-> "pending", asked |-> asked, fields |-> fields \cup Switches,
                          since |-> job[c].since]]
    BY <1>1, <1>3, Zenon DEF ChangeStore
  <2>2. changes'[i].status = "pending" /\ \A k \in Changes \ {i} : changes'[k] = changes[k]
    BY <1>2, <2>1
  <2>3. changes[i].status = "none" /\ pc[c] = "changing"
    BY <1>1, <1>3 DEF ChangeStore, Decisions, PagesOK, PageOK
  <2> QED
    BY <1>1, <1>3, <2>2, <2>3, ChangeDecisions DEF ChangeStore, history, Syncing, Lasts
<1>4. CASE RejectStore(c)
  <2>1. /\ changes'[i].status = "rejected" /\ Lasts(i)
        /\ \A k \in Changes \ {i} : changes'[k] = changes[k]
    <3>1. /\ changes'[i] = [changes[i] EXCEPT !.status = "rejected"]
          /\ \A k \in Changes \ {i} : changes'[k] = changes[k]
      BY <1>1, <1>4, Marked DEF RejectStore, ChangeStatuses
    <3>2. changes[i] \in ChangeRequests
      BY <1>2, FormedTyped
    <3> QED
      BY <3>1, <3>2 DEF ChangeRequests, Lasts
  <2>2. pc[c] \in Deciding /\ pc[c] \notin Syncing
    BY <1>4 DEF RejectStore, Deciding, Syncing
  <2> QED
    BY <1>1, <1>4, <2>1, <2>2, ChangeDecisions DEF RejectStore, history
<1> QED
  BY <1>3, <1>4

(* An acceptance: the one version that applies its change, over the edits    *)
(* its page has shown.                                                       *)
LEMMA AcceptStoreDecisions ==
    ASSUME Typed, Decisions, NEW c \in Clients, AcceptStore(c) PROVE Decisions'
<1>1. PICK i \in Changes : i = job[c].change
  BY MyJob, RequirementAssumption DEF AcceptStore, Jobs, Changes
<1>2. changes \in [Changes -> Formed]
  BY Parts DEF StoreTyped
<1>3. PICK content : AddVersion(c, Acceptance, content, changes[i].asked)
  BY <1>1, Zenon DEF AcceptStore, Acceptance
<1>4. /\ changes'[i].status = "accepted" /\ changes'[i].fields = changes[i].fields
      /\ changes'[i].since = changes[i].since
      /\ \A k \in Changes \ {i} : changes'[k] = changes[k]
  <2>1. /\ changes'[i] = [changes[i] EXCEPT !.status = "accepted"]
        /\ \A k \in Changes \ {i} : changes'[k] = changes[k]
    BY <1>1, Marked DEF AcceptStore, ChangeStatuses
  <2>2. changes[i] \in ChangeRequests
    BY <1>2, FormedTyped
  <2> QED
    BY <2>1, <2>2 DEF ChangeRequests
<1>c. ChangesLast
  BY <1>4 DEF ChangesLast, Lasts
<1>5. /\ Grown /\ Latest' = Latest + 1 /\ Latest \in Nat
      /\ versions'[Latest'].by = job[c]
      /\ Stored(Acceptance)' = Stored(Acceptance) \cup {Latest'}
      /\ Stored(Edited)' = Stored(Edited)
  BY <1>3, VersionAdded DEF Sources, Acceptance, Edited
<1>6. \A n \in Stored(Acceptance) : versions'[n] = versions[n] /\ n \in Nat /\ n <= Latest
  BY <1>5, StoredGrown
<1>7. \A n \in Stored(Edited) : versions'[n] = versions[n] /\ n \in Nat /\ n <= Latest
  BY <1>5, StoredGrown
<1>8. /\ \A k : AppliedBy(k)' = AppliedBy(k) \cup {n \in {Latest'} : k = i}
      /\ Synced' = Synced \cup {n \in {Latest'} : job[c].project}
  BY <1>1, <1>5, <1>6 DEF AppliedBy, Synced
<1>9. /\ UNCHANGED <<task, contested, brokenOff>> /\ pc[c] = "numbered"
      /\ overlapped' = (overlapped \/ (job[c].project /\ Others(c, Syncing) # {}))
      /\ \E place \in {"idle", "accepted"} :
           Goto(c, place, NoJob) /\ (job[c].project => place = "accepted")
  BY DEF AcceptStore, Leave
<1>10. PICK place \in {"idle", "accepted"} :
         Goto(c, place, NoJob) /\ (job[c].project => place = "accepted")
  BY <1>9
<1>11. /\ place \notin Deciding /\ place \notin {"loaded", "changing", "syncing"}
       /\ NoJob \in Jobs /\ pc[c] \in Deciding
  BY <1>9, Counts DEF Deciding
<1>12. PageOK(place, NoJob)'
  BY <1>11 DEF PageOK, Deciding
<1>13. job[c].project => overlapped' \/ \A d \in Clients \ {c} : pc[d] \notin Syncing
  BY <1>9 DEF Others
<1>14. (overlapped => overlapped') /\ (brokenOff => brokenOff')
  BY <1>9
<1>15. PagesOK'
  <2>1. \A k \in Jobs : Brings(k) => Brings(k)' \/ \A d \in Clients \ {c} : pc[d] # "syncing"
    <3>1. CASE job[c].project
      BY <1>13, <3>1 DEF Brings, Syncing
    <3>2. CASE ~job[c].project
      <4>1. Synced' = Synced
        BY <1>8, <3>2
      <4> QED
        BY <1>14, <4>1 DEF Brings
    <3> QED
      BY <3>1, <3>2
  <2>2. \A d \in Clients \ {c} : \A p \in Places, k \in Jobs :
               p = pc[d] /\ k = job[d] => PageOK(p, k)'
    BY <1>1, <1>4, <1>5, <1>9, <1>11, <2>1, OthersKeep DEF Lasts
  <2> QED
    BY <1>10, <1>12, <2>2, PagesMove
<1>16. Apart'
  BY <1>9, <1>10, <1>11, ApartMoves DEF Decisions
<1>17. Applied'
  <2>1. ASSUME i \notin contested PROVE AppliedBy(i) = {}
    <3>1. changes[i].status = "pending"
      BY <1>1, <1>11, <2>1 DEF Decisions, PagesOK, PageOK
    <3> QED
      BY <2>1, <3>1 DEF Decisions, Applied
  <2>2. ASSUME NEW k \in Changes \ contested
        PROVE  IF changes'[k].status = "accepted" THEN \E n : AppliedBy(k)' = {n}
               ELSE AppliedBy(k)' = {}
    <3>1. CASE k = i
      <4>1. AppliedBy(k)' = {Latest'}
        BY <1>8, <2>1, <2>2, <3>1
      <4> QED
        BY <1>4, <3>1, <4>1
    <3>2. CASE k # i
      <4>1. AppliedBy(k)' = AppliedBy(k)
        BY <1>8, <3>2
      <4> QED
        BY <1>4, <2>2, <3>2, <4>1 DEF Decisions, Applied
    <3> QED
      BY <3>1, <3>2
  <2> QED
    BY <1>9, <2>2 DEF Applied
<1>18. EditsOverwrittenKnowingly'
  <2>1. ASSUME NEW v \in Stored("staff_change_acceptance")', NEW n \in Stored("staff_manual_edit")',
               n < v, changes'[versions'[v].by.change].since < n
        PROVE  \/ versions'[n].named \cap changes'[versions'[v].by.change].fields
                      \subseteq versions'[v].by.shown
               \/ n > versions'[v].by.checked
               \/ versions'[v].by.shown # {} /\ n > versions'[v].by.loaded
    <3>1. n \in Stored(Edited) /\ versions'[n] = versions[n] /\ n \in Nat
      BY <1>5, <1>7 DEF Edited
    <3>2. CASE v \in Stored(Acceptance)
      <4>1. versions'[v] = versions[v]
        BY <1>6, <3>2
      <4>2. /\ changes'[versions[v].by.change].fields = changes[versions[v].by.change].fields
            /\ changes'[versions[v].by.change].since = changes[versions[v].by.change].since
        BY <1>c, <3>2 DEF Decisions, EditsOK, AppliedAsked, ChangesLast, Lasts
      <4> QED
        BY <2>1, <3>1, <3>2, <4>1, <4>2
           DEF Decisions, EditsOK, EditsOverwrittenKnowingly, Acceptance, Edited
    <3>3. CASE v = Latest'
      <4>1. versions'[v].by = job[c] /\ versions'[v].by.change = i
        BY <1>1, <1>5, <3>3
      <4>2. Looked(job[c])
        BY <1>1, <1>9 DEF Decisions, PagesOK, PageOK
      <4>3. n \in EditsOf(i)
        BY <1>4, <2>1, <3>1, <4>1 DEF EditsOf
      <4>4. job[c].checked \in Nat
        BY MyJob, Counts DEF Jobs, Numbers
      <4> QED
        BY <1>1, <1>4, <3>1, <4>1, <4>2, <4>3, <4>4 DEF Looked
    <3> QED
      BY <1>5, <2>1, <3>2, <3>3 DEF Acceptance
  <2> QED
    BY <2>1 DEF EditsOverwrittenKnowingly
<1>e. EditsOK'
  <2>1. ASSUME NEW n \in Stored(Acceptance)'
        PROVE  /\ versions'[n].by.change \in Changes
               /\ changes'[versions'[n].by.change].status # "none"
    <3>1. CASE n \in Stored(Acceptance)
      BY <1>6, <1>c, <3>1 DEF Decisions, EditsOK, AppliedAsked, ChangesLast, Lasts
    <3>2. CASE n = Latest'
      BY <1>1, <1>4, <1>5, <3>2
    <3> QED
      BY <1>5, <2>1, <3>1, <3>2
  <2> QED
    BY <1>18, <2>1 DEF EditsOK, AppliedAsked
<1>19. TaskHasAccepted'
  <2>1. pc'[c] = place /\ \A d \in Clients \ {c} : pc'[d] = pc[d]
    BY <1>10 DEF Goto, Typed, TypeOK
  <2>2. CASE job[c].project
    BY <1>10, <2>1, <2>2 DEF TaskHasAccepted, Syncing
  <2>3. CASE brokenOff \/ overlapped
    BY <1>14, <2>3 DEF TaskHasAccepted
  <2>4. CASE \E d \in Clients : pc[d] \in Syncing
    <3>1. \E d \in Clients : pc'[d] \in Syncing
      BY <1>9, <2>1, <2>4 DEF Syncing
    <3> QED
      BY <3>1 DEF TaskHasAccepted, Syncing
  <2>5. CASE ~job[c].project /\ \A n \in Stored("staff_change_acceptance") :
                                   versions[n].by.project => task >= n
    <3>1. ASSUME NEW n \in Stored("staff_change_acceptance")', versions'[n].by.project
          PROVE  task' >= n
      <4>1. n \in Synced' /\ Synced' = Synced
        BY <1>8, <2>5, <3>1 DEF Synced, Acceptance
      <4> QED
        BY <1>9, <2>5, <4>1 DEF Synced, Acceptance
    <3> QED
      BY <3>1 DEF TaskHasAccepted
  <2> QED
    BY <2>2, <2>3, <2>4, <2>5 DEF Decisions, TaskHasAccepted
<1> QED
  BY <1>15, <1>16, <1>17, <1>e, <1>19 DEF Decisions

Inv == Typed /\ Decisions

LEMMA InvStep == ASSUME Inv, [Next]_vars PROVE Inv'
<1>1. Typed /\ Decisions /\ Typed'
  BY TypedStep DEF Inv
<1>2. Decisions'
  BY <1>1, PlainDecisions, ChangeBeginDecisions, ReadDecisions, AcceptLoadDecisions,
     AcceptCheckDecisions, RejectReadDecisions, SyncDecisions, MarkDecisions,
     EditUpsertDecisions, ChangedDecisions, AcceptStoreDecisions
     DEF Next
<1> QED
  BY <1>1, <1>2 DEF Inv

LEMMA InvHolds == Spec => []Inv
<1>1. Init => Inv
  BY TypedInit, DecisionsInit DEF Inv
<1> QED
  BY <1>1, InvStep, PTL DEF Spec

(* A change is applied by one version at most, by none when it was rejected, *)
(* unless two people decided it at the same time: who decides found it       *)
(* pending, and who else does so by then is on record.                       *)
THEOREM AppliedOnceHolds == Spec => []AppliedOnce
<1>1. Inv => AppliedOnce
  <2> SUFFICES ASSUME Inv, NEW i \in Changes \ contested
               PROVE  Cardinality(AppliedBy(i)) = IF changes[i].status = "accepted" THEN 1 ELSE 0
    BY DEF AppliedOnce, AppliedBy, Acceptance
  <2> QED
    BY FS_EmptySet, FS_Singleton DEF Inv, Decisions, Applied
<1> QED
  BY <1>1, InvHolds, PTL

(* An acceptance overwrites staff edits stored since its change was asked    *)
(* for, however long before they had begun, only where its page has said so, *)
(* or where they were stored after the look at them.                         *)
THEOREM EditsOverwrittenKnowinglyHolds == Spec => []EditsOverwrittenKnowingly
<1>1. Inv => EditsOverwrittenKnowingly
  BY DEF Inv, Decisions, EditsOK
<1> QED
  BY <1>1, InvHolds, PTL

(* The task has all acceptances made on the project's page, once their       *)
(* updates have ended and none broke off or overlapped.                      *)
THEOREM TaskHasAcceptedHolds == Spec => []TaskHasAccepted
<1>1. Inv => TaskHasAccepted
  BY DEF Inv, Decisions
<1> QED
  BY <1>1, InvHolds, PTL
=============================================================================
