------------------------- MODULE PaperBindingProofs -------------------------
(***************************************************************************)
(* What holds of paper bindings and reminders for any number of            *)
(* requirements, courses, requests, hours and failures: the state is well  *)
(* formed, what is stored as bound is bound, an exam a reminder pass has   *)
(* dealt with has its papers, or its reminder was mailed, a reminder is    *)
(* mailed once, and what is stored as running is being carried out.        *)
(***************************************************************************)
EXTENDS PaperBinding, TLAPS

Storings == {"get", "merge", "write", "return"}
BindStatuses == {"running", "success", "failed"}
RemindStatuses == {"sending", "sent", "failed", "not_needed"}
Keys == Exams \cup {NoExam}

Has(s) == s \in Sessions /\ PapersOn(s)

(* The inductive form: every configuration there is - the stored one, those  *)
(* that passes have read and those that are about to be written - says of    *)
(* bindings and reminders only what has happened, and a process that is      *)
(* about to store a result has it.                                           *)
Sound(c) ==
    \A r \in Requirements :
        /\ c.binds[r].status = "success" => Has(c.binds[r].of)
        /\ c.reminders[r].status = "sent" => <<r, c.reminders[r].of>> \in mailed

EntrySound(j) ==
    \/ /\ j.entry.kind = "binds" /\ j.entry.status \in BindStatuses
       /\ j.entry.status = "success" => Has(j.of.session)
    \/ /\ j.entry.kind = "reminders" /\ j.entry.status \in RemindStatuses
       /\ j.entry.status = "sent" => <<j.r, j.of>> \in mailed
       /\ j.entry.status = "not_needed" => Has(j.of.session)

JobSound(j) ==
    /\ Sound(j.task.config) /\ Sound(j.held)
    /\ j.at \in Storings => EntrySound(j)
    /\ j.at \in {"posting", "detecting"} => j.of.session \in Sessions
    /\ j.at = "posting" => Courses \ j.left \subseteq bound[j.of.session]

(* The conjuncts of the type invariant about the platform and the people, and *)
(* about the history.                                                        *)
WorldTyped ==
    /\ exam \in [Requirements -> Exams] /\ offered \subseteq Courses
    /\ bound \in [Sessions -> SUBSET Courses] /\ clock \in 0..MaxClock /\ up \in BOOLEAN
    /\ events \in 0..MaxEvents
HistoryTyped ==
    /\ mailed \subseteq Reminders /\ again \subseteq mailed /\ forgotten \subseteq Reminders
    /\ dangling \subseteq Requirements /\ lookedAt \subseteq Reminders /\ halfSeen \subseteq Sessions

Looked == \A k \in lookedAt : k \in mailed \/ Has(k[2].session)

Inv ==
    /\ TypeOK /\ Sound(config) /\ Looked
    /\ \A p \in Processes : JobSound(job[p])

(* Bindings and mails are never taken back.                                  *)
Grown ==
    /\ bound' \in [Sessions -> SUBSET Courses] /\ \A s \in Sessions : bound[s] \subseteq bound'[s]
    /\ mailed \subseteq mailed' /\ mailed' \subseteq Reminders
    /\ halfSeen \subseteq halfSeen'

-----------------------------------------------------------------------------
(* Values that are well formed and sound whatever happens.                   *)

LEMMA Numbers ==
    /\ Last \in Nat /\ 0 \in Requirements /\ Last \in Requirements
    /\ 0 \in 0..MaxClock /\ MaxEvents \in Nat /\ NoSession \notin Sessions
<1>1. Last \in Nat /\ MaxClock \in Nat /\ MaxEvents \in Nat
  BY PaperAssumption
<1>. QED BY <1>1 DEF Requirements, Sessions, NoSession

LEMMA Nothing ==
    /\ NoConfig \in Configs /\ NoTask \in Tasks /\ NoEntry \in Entries /\ NoExam \in Keys
    /\ Idle \in Jobs
<1>1. NoExam \in Keys /\ NoEntry \in Entries
  BY DEF Keys, NoEntry, Entries
<1>2. NoConfig \in Configs
  BY DEF NoConfig, Configs
<1>3. NoTask \in Tasks
  BY <1>2 DEF NoTask, Tasks
<1>4. Idle \in Jobs
  BY <1>1, <1>2, <1>3, Numbers DEF Idle, Jobs, Places, Keys
<1>. QED BY <1>1, <1>2, <1>3, <1>4

LEMMA NothingSound == Sound(NoConfig) /\ JobSound(Idle)
<1>1. Sound(NoConfig)
  BY DEF Sound, NoConfig
<1>2. JobSound(Idle)
  BY <1>1 DEF JobSound, Idle, NoTask, Storings
<1>. QED BY <1>1, <1>2

LEMMA NothingSoundNext == Sound(NoConfig)' /\ JobSound(Idle)'
<1>1. Sound(NoConfig)'
  BY DEF Sound, NoConfig
<1>2. JobSound(Idle)'
  BY <1>1 DEF JobSound, Idle, NoTask, Storings
<1>. QED BY <1>1, <1>2

LEMMA HasGrows == ASSUME Grown, NEW s, Has(s) PROVE Has(s)'
BY DEF Grown, Has, PapersOn

LEMMA SoundGrows ==
    ASSUME Grown, NEW c, Sound(c) PROVE Sound(c)'
BY HasGrows DEF Sound, Grown

LEMMA JobGrows ==
    ASSUME Grown, NEW j \in Jobs, JobSound(j) PROVE JobSound(j)'
<1>1. Sound(j.task.config)' /\ Sound(j.held)'
  BY SoundGrows DEF JobSound
<1>2. ASSUME j.at \in Storings PROVE EntrySound(j)'
  BY <1>2, HasGrows DEF JobSound, EntrySound, Grown
<1>3. j.at = "posting" => Courses \ j.left \subseteq bound'[j.of.session]
  BY DEF JobSound, Grown
<1>. QED BY <1>1, <1>2, <1>3 DEF JobSound

(* A step in which one process goes on to j.                                 *)
LEMMA OneGoesOn ==
    ASSUME Inv, NEW p \in Processes, NEW j \in Jobs, Becomes(p, j), JobSound(j)', Grown
    PROVE  job' \in [Processes -> Jobs] /\ (\A q \in Processes : JobSound(job[q]))'
<1>1. job \in [Processes -> Jobs]
  BY DEF Inv, TypeOK
<1>2. job' \in [Processes -> Jobs] /\ job'[p] = j /\ \A q \in Processes : q # p => job'[q] = job[q]
  BY <1>1 DEF Becomes
<1>3. ASSUME NEW q \in Processes PROVE JobSound(job[q])'
  <2>1. CASE q = p
    BY <1>2, <2>1 DEF JobSound, Sound, EntrySound, Has
  <2>2. CASE q # p
    <3>1. PICK k \in Jobs : k = job[q]
      BY <1>1
    <3>2. JobSound(k)
      BY <3>1 DEF Inv
    <3>3. JobSound(k)'
      BY <3>2, JobGrows
    <3>4. job'[q] = k
      BY <1>2, <2>2, <3>1
    <3>. QED BY <3>3, <3>4 DEF JobSound, Sound, EntrySound, Has
  <2>. QED BY <2>1, <2>2
<1>. QED BY <1>2, <1>3

(* A step in which nobody goes on.                                           *)
LEMMA NobodyGoesOn ==
    ASSUME Inv, UNCHANGED job, Grown
    PROVE  job' \in [Processes -> Jobs] /\ (\A q \in Processes : JobSound(job[q]))'
<1>1. job \in [Processes -> Jobs]
  BY DEF Inv, TypeOK
<1>2. ASSUME NEW q \in Processes PROVE JobSound(job[q])'
  <2>1. PICK k \in Jobs : k = job[q]
    BY <1>1
  <2>2. JobSound(k)'
    BY <2>1, JobGrows DEF Inv
  <2>. QED BY <2>1, <2>2 DEF JobSound, Sound, EntrySound, Has
<1>. QED BY <1>1, <1>2

LEMMA StaysGrown ==
    ASSUME Inv, UNCHANGED <<bound, mailed>>, halfSeen \subseteq halfSeen' PROVE Grown
BY DEF Inv, TypeOK, Grown

LEMMA LookedGrows ==
    ASSUME Inv, Grown, lookedAt' \subseteq lookedAt PROVE Looked'
<1>. SUFFICES ASSUME NEW k \in lookedAt PROVE (k \in mailed \/ Has(k[2].session))'
  BY DEF Looked
<1>. QED BY HasGrows DEF Inv, Looked, Grown

-----------------------------------------------------------------------------
(* What a process has before it goes on.                                     *)

LEMMA Fields ==
    ASSUME Inv, NEW p \in Processes
    PROVE  /\ job[p] \in Jobs /\ JobSound(job[p])
           /\ job[p].at \in Places /\ job[p].pass \in {"bind", "remind"} /\ job[p].r \in Requirements
           /\ job[p].now \in 0..MaxClock /\ job[p].task \in Tasks /\ job[p].of \in Keys
           /\ job[p].left \subseteq Courses /\ job[p].entry \in Entries /\ job[p].held \in Configs
<1>1. job[p] \in Jobs
  BY DEF Inv, TypeOK
<1>. QED BY <1>1 DEF Inv, Jobs, Keys

(* The places a job moves to, and the entries it sets out to store.          *)
LEMMA Stores ==
    ASSUME NEW j \in Jobs, NEW kind \in {"binds", "reminders"},
           NEW status \in BindStatuses \cup RemindStatuses
    PROVE  Store(j, kind, status) \in Jobs /\ StoreLast(j, kind, status) \in Jobs
BY DEF Store, StoreLast, Jobs, Entries, Places, BindStatuses, RemindStatuses

LEMMA StoresBind ==
    ASSUME NEW j \in Jobs, JobSound(j)', NEW status \in BindStatuses,
           status = "success" => Has(j.of.session)'
    PROVE  /\ Store(j, "binds", status) \in Jobs /\ StoreLast(j, "binds", status) \in Jobs
           /\ JobSound(Store(j, "binds", status))' /\ JobSound(StoreLast(j, "binds", status))'
<1>1. Store(j, "binds", status) \in Jobs /\ StoreLast(j, "binds", status) \in Jobs
  BY Stores
<1>. QED BY <1>1 DEF Store, StoreLast, Jobs, JobSound, EntrySound, Has, Sound, Storings

LEMMA StoresReminder ==
    ASSUME NEW j \in Jobs, JobSound(j)', NEW status \in RemindStatuses,
           status = "sent" => <<j.r, j.of>> \in mailed',
           status = "not_needed" => Has(j.of.session)'
    PROVE  /\ Store(j, "reminders", status) \in Jobs /\ StoreLast(j, "reminders", status) \in Jobs
           /\ JobSound(Store(j, "reminders", status))' /\ JobSound(StoreLast(j, "reminders", status))'
<1>1. Store(j, "reminders", status) \in Jobs /\ StoreLast(j, "reminders", status) \in Jobs
  BY Stores
<1>. QED BY <1>1 DEF Store, StoreLast, Jobs, JobSound, EntrySound, Has, Sound, Storings

LEMMA Moves ==
    ASSUME NEW j \in Jobs, JobSound(j)', NEW place \in Places,
           place \in Storings => EntrySound(j)',
           place \in {"posting", "detecting"} => j.of.session \in Sessions,
           place = "posting" => Courses \ j.left \subseteq bound'[j.of.session]
    PROVE  [j EXCEPT !.at = place] \in Jobs /\ JobSound([j EXCEPT !.at = place])'
<1>1. [j EXCEPT !.at = place] \in Jobs
  BY DEF Jobs
<1>. QED BY <1>1 DEF Jobs, JobSound, EntrySound, Has, Sound

LEMMA PassedSound ==
    ASSUME NEW j \in Jobs, JobSound(j)'
    PROVE  Passed(j) \in Jobs /\ JobSound(Passed(j))'
<1>1. CASE j.r < Last
  <2>. DEFINE next == [j EXCEPT !.at = "deciding", !.r = @ + 1, !.entry = NoEntry,
                                !.of = NoExam, !.held = NoConfig, !.left = {}]
  <2>. j.r \in 0..Last /\ Last \in Nat
    BY Numbers DEF Jobs, Requirements
  <2>. j.r + 1 \in Requirements
    BY <1>1 DEF Requirements
  <2>1. next \in Jobs
    BY Nothing DEF Jobs, Places, Keys
  <2>2. JobSound(next)'
    BY <2>1, NothingSoundNext DEF Jobs, JobSound, Storings
  <2>3. Passed(j) = next
    BY <1>1 DEF Passed
  <2>. HIDE DEF next
  <2>. QED BY <2>1, <2>2, <2>3
<1>2. CASE ~(j.r < Last) /\ j.r = Last /\ j.pass = "bind"
  <2>. DEFINE next == [Idle EXCEPT !.at = "reading", !.pass = "remind", !.now = j.now]
  <2>1. next \in Jobs
    BY Nothing DEF Jobs, Places
  <2>2. JobSound(next)'
    BY <2>1, NothingSoundNext, Nothing DEF Idle, JobSound, Storings
  <2>3. Passed(j) = next
    BY <1>2 DEF Passed
  <2>. HIDE DEF next
  <2>. QED BY <2>1, <2>2, <2>3
<1>3. CASE ~(j.r < Last) /\ ~(j.r = Last /\ j.pass = "bind")
  BY <1>3, Nothing, NothingSoundNext DEF Passed
<1>. QED BY <1>1, <1>2, <1>3

LEMMA LeftSound ==
    ASSUME NEW p \in Processes, NEW j \in Jobs, JobSound(j)'
    PROVE  /\ (IF p = Scheduler THEN Passed(j) ELSE Idle) \in Jobs
           /\ JobSound(IF p = Scheduler THEN Passed(j) ELSE Idle)'
BY PassedSound, Nothing, NothingSoundNext

-----------------------------------------------------------------------------
(* What a step leaves, put together.                                         *)

LEMMA Parts == Inv => WorldTyped /\ HistoryTyped /\ config \in Configs
BY DEF Inv, TypeOK, WorldTyped, HistoryTyped

LEMMA Together ==
    ASSUME config' \in Configs, Sound(config)', Looked', WorldTyped', HistoryTyped',
           job' \in [Processes -> Jobs], (\A q \in Processes : JobSound(job[q]))'
    PROVE  Inv'
<1>1. TypeOK'
  BY Zenon DEF TypeOK, WorldTyped, HistoryTyped
<1>. QED BY <1>1, Zenon DEF Inv

LEMMA ConfigStays ==
    ASSUME Inv, Grown, UNCHANGED config PROVE config' \in Configs /\ Sound(config)'
<1>1. PICK c \in Configs : c = config
  BY Parts
<1>2. Sound(c)'
  BY <1>1, SoundGrows DEF Inv
<1>. QED BY <1>1, <1>2 DEF Sound, Has

(* A step that only moves one process on.                                    *)
LEMMA QuietStep ==
    ASSUME Inv, NEW p \in Processes, NEW j \in Jobs, Becomes(p, j), JobSound(j)',
           UNCHANGED <<config, up, world, mailed, history>>, events' \in 0..MaxEvents
    PROVE  Inv'
<1>1. Grown
  BY StaysGrown DEF world, history
<1>2. job' \in [Processes -> Jobs] /\ (\A q \in Processes : JobSound(job[q]))'
  BY <1>1, OneGoesOn
<1>3. config' \in Configs /\ Sound(config)'
  BY <1>1, ConfigStays
<1>4. Looked'
  BY <1>1, LookedGrows DEF history
<1>5. WorldTyped' /\ HistoryTyped'
  BY Parts DEF WorldTyped, HistoryTyped, world, history
<1>. QED BY <1>2, <1>3, <1>4, <1>5, Together

LEMMA EventHappens == ASSUME Inv, Happens PROVE events' \in 0..MaxEvents
BY Parts, Numbers DEF WorldTyped, Happens

LEMMA EventsStay == ASSUME Inv, UNCHANGED events PROVE events' \in 0..MaxEvents
BY Parts DEF WorldTyped

(* The process that moves on, as it was before.                              *)
LEMMA Before ==
    ASSUME Inv, Grown, NEW p \in Processes
    PROVE  \E k \in Jobs : k = job[p] /\ JobSound(k) /\ JobSound(k)'
<1>1. PICK k \in Jobs : k = job[p]
  BY Fields
<1>2. JobSound(k)
  BY <1>1, Fields
<1>. QED BY <1>1, <1>2, JobGrows

-----------------------------------------------------------------------------
(* Storing.                                                                  *)

(* One array of a configuration in the place of another's.                   *)
LEMMA Merged ==
    ASSUME NEW c \in Configs, NEW d \in Configs, Sound(c)', Sound(d)',
           NEW kind \in {"binds", "reminders"}
    PROVE  [c EXCEPT ![kind] = d[kind]] \in Configs /\ Sound([c EXCEPT ![kind] = d[kind]])'
<1>1. CASE kind = "binds"
  BY <1>1 DEF Configs, Sound, Has
<1>2. CASE kind = "reminders"
  BY <1>2 DEF Configs, Sound, Has
<1>. QED BY <1>1, <1>2

(* The array with the entry of a process.                                    *)
LEMMA Entered ==
    ASSUME NEW c \in Configs, Sound(c)', NEW j \in Jobs, EntrySound(j)'
    PROVE  /\ j.entry.kind \in {"binds", "reminders"}
           /\ [NoConfig EXCEPT ![j.entry.kind] = [c[j.entry.kind] EXCEPT ![j.r] = Value(j)]] \in Configs
           /\ Sound([NoConfig EXCEPT ![j.entry.kind] = [c[j.entry.kind] EXCEPT ![j.r] = Value(j)]])'
<1>1. j.r \in Requirements /\ j.of \in Keys /\ j.of.session \in Sessions \cup {NoSession}
  BY DEF Jobs, Keys, Exams, NoExam
<1>2. NoConfig \in Configs /\ Sound(NoConfig)'
  BY Nothing, NothingSoundNext
<1>3. CASE j.entry.kind = "binds"
  <2>. DEFINE array == [c.binds EXCEPT ![j.r] = Value(j)]
              held == [NoConfig EXCEPT !.binds = array]
  <2>1. Value(j) \in [status : {"pending", "running", "success", "failed"},
                       of : Sessions \cup {NoSession}]
    BY <1>1, <1>3 DEF Value, EntrySound, BindStatuses
  <2>2. Value(j).status = "success" => Has(Value(j).of)'
    BY <1>1, <1>3 DEF Value, EntrySound, BindStatuses
  <2>. HIDE DEF Value
  <2>3. array \in [Requirements -> [status : {"pending", "running", "success", "failed"},
                                    of : Sessions \cup {NoSession}]]
    BY <2>1 DEF Configs
  <2>4. \A r \in Requirements : array[r].status = "success" => Has(array[r].of)'
    BY <2>2 DEF Configs, Sound
  <2>. HIDE DEF array
  <2>5. held \in Configs /\ held.binds = array /\ held.reminders = NoConfig.reminders
    BY <1>2, <2>3 DEF Configs
  <2>6. Sound(held)'
    BY <1>2, <2>4, <2>5 DEF Sound
  <2>. QED BY <1>3, <2>5, <2>6 DEF array
<1>4. CASE j.entry.kind = "reminders"
  <2>. DEFINE array == [c.reminders EXCEPT ![j.r] = Value(j)]
              held == [NoConfig EXCEPT !.reminders = array]
  <2>1. Value(j) \in [status : {"none", "sending", "sent", "failed", "not_needed"}, of : Keys]
    BY <1>1, <1>4 DEF Value, EntrySound, RemindStatuses
  <2>2. Value(j).status = "sent" => <<j.r, Value(j).of>> \in mailed'
    BY <1>1, <1>4 DEF Value, EntrySound, RemindStatuses
  <2>. HIDE DEF Value
  <2>3. array \in [Requirements -> [status : {"none", "sending", "sent", "failed", "not_needed"},
                                    of : Keys]]
    BY <2>1 DEF Configs, Keys
  <2>4. \A r \in Requirements : array[r].status = "sent" => <<r, array[r].of>> \in mailed'
    BY <2>2 DEF Configs, Sound
  <2>. HIDE DEF array
  <2>5. held \in Configs /\ held.binds = NoConfig.binds /\ held.reminders = array
    BY <1>2, <2>3 DEF Configs, Keys
  <2>6. Sound(held)'
    BY <1>2, <2>4, <2>5 DEF Sound
  <2>. QED BY <1>4, <2>5, <2>6 DEF array
<1>. QED BY <1>3, <1>4 DEF EntrySound

LEMMA StoreGetSound == ASSUME Inv, NEW p \in Processes, StoreGet(p) PROVE Inv'
<1>1. Grown
  BY StaysGrown DEF StoreGet, world, history
<1>2. PICK k \in Jobs : k = job[p] /\ JobSound(k) /\ JobSound(k)'
  BY <1>1, Before
<1>3. PICK c \in Configs : c = config /\ Sound(c)'
  BY <1>1, Parts, SoundGrows DEF Inv
<1>. DEFINE held == [NoConfig EXCEPT ![k.entry.kind] = [c[k.entry.kind] EXCEPT ![k.r] = Value(k)]]
            j == [k EXCEPT !.at = "merge", !.held = held]
<1>4. k.at = "get" /\ EntrySound(k)'
  BY <1>2 DEF StoreGet, At, JobSound, Storings
<1>5. held \in Configs /\ Sound(held)'
  BY <1>3, <1>4, Entered
<1>6. Becomes(p, j)
  BY <1>2, <1>3 DEF StoreGet
<1>. HIDE DEF held
<1>7. j \in Jobs
  BY <1>5 DEF Jobs, Places
<1>8. JobSound(j)'
  BY <1>2, <1>4, <1>5 DEF Jobs, JobSound, EntrySound
<1>. HIDE DEF j
<1>. QED BY <1>6, <1>7, <1>8, QuietStep, EventsStay DEF StoreGet

LEMMA StoreMergeSound == ASSUME Inv, NEW p \in Processes, StoreMerge(p) PROVE Inv'
<1>1. Grown
  BY StaysGrown DEF StoreMerge, world, history
<1>2. PICK k \in Jobs : k = job[p] /\ JobSound(k) /\ JobSound(k)'
  BY <1>1, Before
<1>3. PICK c \in Configs : c = config /\ Sound(c)'
  BY <1>1, Parts, SoundGrows DEF Inv
<1>. DEFINE held == [c EXCEPT ![k.entry.kind] = k.held[k.entry.kind]]
            j == [k EXCEPT !.at = "write", !.held = held]
<1>4. k.at = "merge" /\ EntrySound(k)' /\ k.entry.kind \in {"binds", "reminders"}
  BY <1>2 DEF StoreMerge, At, JobSound, Storings, EntrySound
<1>5. held \in Configs /\ Sound(held)'
  BY <1>2, <1>3, <1>4, Merged DEF Jobs, JobSound
<1>6. Becomes(p, j)
  BY <1>2, <1>3 DEF StoreMerge
<1>. HIDE DEF held
<1>7. j \in Jobs
  BY <1>5 DEF Jobs, Places
<1>8. JobSound(j)'
  BY <1>2, <1>4, <1>5 DEF Jobs, JobSound, EntrySound
<1>. HIDE DEF j
<1>. QED BY <1>6, <1>7, <1>8, QuietStep, EventsStay DEF StoreMerge

LEMMA StoreWriteSound == ASSUME Inv, NEW p \in Processes, StoreWrite(p) PROVE Inv'
<1>1. Grown
  BY StaysGrown DEF StoreWrite, world
<1>2. PICK k \in Jobs : k = job[p] /\ JobSound(k) /\ JobSound(k)'
  BY <1>1, Before
<1>. DEFINE j == [k EXCEPT !.at = "return"]
<1>3. k.at = "write" /\ EntrySound(k)'
  BY <1>2 DEF StoreWrite, At, JobSound, Storings
<1>4. j \in Jobs /\ JobSound(j)'
  BY <1>2, <1>3, Moves DEF Places
<1>5. Becomes(p, j)
  BY <1>2 DEF StoreWrite, Goes
<1>. HIDE DEF j
<1>6. job' \in [Processes -> Jobs] /\ (\A q \in Processes : JobSound(job[q]))'
  BY <1>1, <1>4, <1>5, OneGoesOn
<1>7. config' \in Configs /\ Sound(config)'
  <2>1. PICK c \in Configs : c = k.held /\ Sound(c)'
    BY <1>2 DEF Jobs, JobSound
  <2>2. config' = c
    BY <1>2, <2>1 DEF StoreWrite
  <2>. QED BY <2>1, <2>2 DEF Sound, Has
<1>8. Looked'
  BY <1>1, LookedGrows DEF StoreWrite
<1>9. WorldTyped'
  BY Parts DEF StoreWrite, WorldTyped, world
<1>10. HistoryTyped'
  <2>1. \A r \in Requirements : config.reminders[r].of \in Exams \cup {NoExam}
    BY Parts DEF Configs
  <2>2. forgotten' \subseteq Reminders
    BY <2>1, Parts DEF StoreWrite, Overwritten, HistoryTyped, Reminders
  <2>3. dangling' \subseteq Requirements
    BY Parts DEF StoreWrite, Reverted, HistoryTyped
  <2>. QED BY <2>2, <2>3, Parts DEF StoreWrite, HistoryTyped
<1>. QED BY <1>6, <1>7, <1>8, <1>9, <1>10, Together

LEMMA StoreReturnSound == ASSUME Inv, NEW p \in Processes, StoreReturn(p) PROVE Inv'
<1>1. Grown
  BY StaysGrown DEF StoreReturn, world
<1>2. PICK k \in Jobs : k = job[p] /\ JobSound(k) /\ JobSound(k)'
  BY <1>1, Before
<1>3. k.at = "return" /\ EntrySound(k) /\ EntrySound(k)'
  BY <1>2 DEF StoreReturn, At, JobSound, Storings
<1>4. \E j \in Jobs : Becomes(p, j) /\ JobSound(j)'
  <2>1. PICK t \in Tasks : t = Task /\ Sound(t.config)'
    <3>1. Task \in Tasks
      BY Parts DEF Task, Tasks, WorldTyped
    <3>2. PICK t \in Tasks : t = Task
      BY <3>1
    <3>3. Sound(t.config)
      BY <3>2 DEF Task, Inv
    <3>. QED BY <1>1, <3>2, <3>3, SoundGrows
  <2>. DEFINE fresh == IF k.pass = "remind" /\ k.entry.status # "not_needed"
                       THEN [k EXCEPT !.task = t] ELSE k
              j == Rested(fresh)
  <2>2. j \in Jobs /\ j.of = k.of /\ j.r = k.r /\ j.pass = k.pass /\ j.at = "return"
    BY <1>3, Nothing DEF Rested, Jobs
  <2>3. j.entry = NoEntry /\ j.held = NoConfig /\ j.task \in {k.task, t}
    BY Nothing DEF Rested, Jobs
  <2>4. Rested(Fresh(job[p])) = j
    BY <1>2, <2>1 DEF Fresh
  <2>. HIDE DEF j
  <2>5. Sound(j.task.config)' /\ Sound(j.held)'
    BY <1>2, <2>1, <2>3, NothingSoundNext DEF JobSound
  <2>6. ASSUME NEW place \in {"selecting", "mailing"}
        PROVE  [j EXCEPT !.at = place] \in Jobs /\ JobSound([j EXCEPT !.at = place])'
    BY <2>2, <2>5 DEF Jobs, JobSound, Storings, Places
  <2>7. ASSUME k.entry.status = "success"
        PROVE  /\ Store(j, "reminders", "not_needed") \in Jobs
               /\ JobSound(Store(j, "reminders", "not_needed"))'
    <3>1. Has(j.of.session)'
      BY <1>3, <2>2, <2>7 DEF EntrySound, RemindStatuses
    <3>2. Store(j, "reminders", "not_needed") \in Jobs
      BY <2>2, Stores DEF RemindStatuses
    <3>. QED BY <2>2, <2>5, <3>1, <3>2
             DEF Store, Jobs, JobSound, EntrySound, RemindStatuses, Storings
  <2>8. /\ Passed(j) \in Jobs /\ JobSound(Passed(j))'
    <3>. DEFINE i == [j EXCEPT !.at = "selecting"]
    <3>1. i \in Jobs /\ JobSound(i)'
      BY <2>6
    <3>2. Passed(i) = Passed(j)
      BY <2>2 DEF Passed, Jobs
    <3>. QED BY <3>1, <3>2, PassedSound
  <2>9. Becomes(p, StoredNext(p))
    BY DEF StoreReturn
  <2>10. CASE k.entry.status = "running"
    BY <1>2, <2>4, <2>6, <2>9, <2>10 DEF StoredNext
  <2>11. CASE k.entry.status = "sending"
    BY <1>2, <2>4, <2>6, <2>9, <2>11 DEF StoredNext
  <2>12. CASE k.entry.status = "success" /\ j.pass = "remind"
    BY <1>2, <2>4, <2>7, <2>9, <2>12 DEF StoredNext
  <2>13. CASE k.entry.status \notin {"running", "sending"} /\ ~(k.entry.status = "success" /\ j.pass = "remind")
    <3>1. StoredNext(p) = IF p = Scheduler THEN Passed(j) ELSE Idle
      BY <1>2, <2>4, <2>13 DEF StoredNext
    <3>. QED BY <2>8, <2>9, <3>1, Nothing, NothingSoundNext
  <2>. QED BY <2>10, <2>11, <2>12, <2>13
<1>5. job' \in [Processes -> Jobs] /\ (\A q \in Processes : JobSound(job[q]))'
  BY <1>1, <1>4, OneGoesOn
<1>6. config' \in Configs /\ Sound(config)'
  BY <1>1, ConfigStays DEF StoreReturn
<1>7. Looked'
  <2>1. \A x \in lookedAt : (x \in mailed \/ Has(x[2].session))'
    BY <1>1, HasGrows DEF Inv, Looked, Grown
  <2>2. ASSUME k.entry.status \in {"sent", "not_needed"}
        PROVE  (<<k.r, k.of>> \in mailed \/ Has(k.of.session))'
    BY <1>3, <2>2 DEF EntrySound, BindStatuses
  <2>. QED BY <1>2, <2>1, <2>2 DEF Looked, StoreReturn, Reminder
<1>8. WorldTyped'
  BY Parts DEF StoreReturn, WorldTyped, world
<1>9. HistoryTyped'
  BY <1>2, Parts DEF StoreReturn, HistoryTyped, Reminder, Reminders, Jobs
<1>. QED BY <1>5, <1>6, <1>7, <1>8, <1>9, Together

LEMMA LeftTyped ==
    ASSUME NEW p \in Processes, NEW k \in Jobs, k = job[p], JobSound(k)'
    PROVE  Left(p) \in Jobs /\ \E j \in Jobs : j = Left(p) /\ JobSound(j)'
BY LeftSound DEF Left

LEMMA StoreFailsSound == ASSUME Inv, NEW p \in Processes, StoreFails(p) PROVE Inv'
<1>1. Grown
  BY StaysGrown DEF StoreFails, world
<1>2. PICK k \in Jobs : k = job[p] /\ JobSound(k) /\ JobSound(k)'
  BY <1>1, Before
<1>3. \E j \in Jobs : Becomes(p, j) /\ JobSound(j)'
  <2>. DEFINE j == [k EXCEPT !.at = "selecting", !.entry = NoEntry, !.held = NoConfig]
              i == Rested(k)
  <2>1. j \in Jobs /\ JobSound(j)'
    BY <1>2, Nothing, NothingSoundNext DEF Jobs, JobSound, Storings, Places
  <2>2. /\ Store(i, "reminders", "sending") = Store(j, "reminders", "sending")
        /\ StoreLast(i, "reminders", "failed") = StoreLast(j, "reminders", "failed")
        /\ StoreLast(i, "binds", "failed") = StoreLast(j, "binds", "failed")
    BY DEF Rested, Store, StoreLast, Jobs
  <2>. HIDE DEF j
  <2>3. ASSUME NEW n \in {Store(i, "reminders", "sending"), StoreLast(i, "reminders", "failed"),
                          StoreLast(i, "binds", "failed")}
        PROVE  n \in Jobs /\ JobSound(n)'
    BY <2>1, <2>2, <2>3, StoresBind, StoresReminder DEF BindStatuses, RemindStatuses
  <2>4. PICK left \in Jobs : left = Left(p) /\ JobSound(left)'
    BY <1>2, LeftTyped
  <2>5. UnstoredNext(p) \in {Store(i, "reminders", "sending"), StoreLast(i, "reminders", "failed"),
                             StoreLast(i, "binds", "failed"), Idle, left}
    BY <1>2, <2>4, Zenon DEF UnstoredNext
  <2>6. Becomes(p, UnstoredNext(p))
    BY DEF StoreFails
  <2>. HIDE DEF i
  <2>. QED BY <2>3, <2>4, <2>5, <2>6, Nothing, NothingSoundNext
<1>4. job' \in [Processes -> Jobs] /\ (\A q \in Processes : JobSound(job[q]))'
  BY <1>1, <1>3, OneGoesOn
<1>5. config' \in Configs /\ Sound(config)'
  BY <1>1, ConfigStays DEF StoreFails
<1>6. Looked'
  BY <1>1, LookedGrows DEF StoreFails
<1>7. WorldTyped'
  BY Parts, EventHappens DEF StoreFails, WorldTyped, world
<1>8. HistoryTyped'
  BY <1>2, Parts DEF StoreFails, HistoryTyped, Reminder, Reminders, Jobs
<1>. QED BY <1>4, <1>5, <1>6, <1>7, <1>8, Together

-----------------------------------------------------------------------------
(* Binding papers.                                                           *)

LEMMA IsScheduler == Scheduler \in Processes
BY DEF Processes

LEMMA TaskSound ==
    ASSUME Inv, Grown
    PROVE  \E t \in Tasks : t = Task /\ Sound(t.config)'
<1>1. Task \in Tasks
  BY Parts DEF Task, Tasks, WorldTyped
<1>2. PICK t \in Tasks : t = Task
  BY <1>1
<1>3. Sound(t.config)
  BY <1>2 DEF Task, Inv
<1>. QED BY <1>2, <1>3, SoundGrows

LEMMA ReadTaskSound == ASSUME Inv, ReadTask PROVE Inv'
<1>1. Grown
  BY StaysGrown DEF ReadTask, world, history
<1>2. PICK k \in Jobs : k = job[Scheduler] /\ JobSound(k) /\ JobSound(k)'
  BY <1>1, Before, IsScheduler
<1>3. PICK t \in Tasks : t = Task /\ Sound(t.config)'
  BY <1>1, TaskSound
<1>. DEFINE j == [k EXCEPT !.at = "deciding", !.task = t]
<1>4. j \in Jobs /\ JobSound(j)'
  BY <1>2, <1>3 DEF Jobs, JobSound, Storings, Places
<1>5. Becomes(Scheduler, j)
  BY <1>2, <1>3 DEF ReadTask
<1>. HIDE DEF j
<1>. QED BY <1>4, <1>5, QuietStep, EventsStay, IsScheduler DEF ReadTask

LEMMA ReadFailsSound == ASSUME Inv, ReadFails PROVE Inv'
<1>1. Grown
  BY StaysGrown DEF ReadFails, world, history
<1>2. PICK k \in Jobs : k = job[Scheduler] /\ JobSound(k) /\ JobSound(k)'
  BY <1>1, Before, IsScheduler
<1>. DEFINE j == [k EXCEPT !.r = Last]
<1>3. k.at = "reading"
  BY <1>2 DEF ReadFails, At
<1>4. j \in Jobs /\ JobSound(j)'
  BY <1>2, <1>3, Numbers DEF Jobs, JobSound, Storings
<1>5. Becomes(Scheduler, Passed(j))
  BY <1>2 DEF ReadFails
<1>. HIDE DEF j
<1>6. Passed(j) \in Jobs /\ JobSound(Passed(j))'
  BY <1>4, PassedSound
<1>. QED BY <1>5, <1>6, QuietStep, EventHappens, IsScheduler DEF ReadFails

LEMMA DecideBindingSound == ASSUME Inv, DecideBinding PROVE Inv'
<1>1. Grown
  BY StaysGrown DEF DecideBinding, world, history
<1>2. PICK k \in Jobs : k = job[Scheduler] /\ JobSound(k) /\ JobSound(k)'
  BY <1>1, Before, IsScheduler
<1>3. Begun(k) \in Jobs /\ JobSound(Begun(k))'
  <2>. DEFINE j == [k EXCEPT !.of = k.task.exam[k.r], !.task = IF k.r < Last THEN k.task ELSE NoTask]
  <2>1. k.at = "deciding"
    BY <1>2 DEF DecideBinding, At
  <2>2. k.task.exam[k.r] \in Keys
    BY DEF Jobs, Tasks, Keys
  <2>3. Sound(NoTask.config)'
    BY NothingSoundNext DEF NoTask
  <2>4. j \in Jobs
    BY <2>2, Nothing DEF Jobs, Keys
  <2>5. JobSound(j)'
    BY <1>2, <2>1, <2>2, <2>3, <2>4 DEF Jobs, JobSound, Storings
  <2>6. Begun(k) = Store(j, "binds", "running")
    BY DEF Begun
  <2>. HIDE DEF j
  <2>. QED BY <2>4, <2>5, <2>6, StoresBind DEF BindStatuses
<1>4. Passed(k) \in Jobs /\ JobSound(Passed(k))'
  BY <1>2, PassedSound
<1>5. \E j \in Jobs : Becomes(Scheduler, j) /\ JobSound(j)'
  BY <1>2, <1>3, <1>4 DEF DecideBinding
<1>. QED BY <1>5, QuietStep, EventsStay, IsScheduler DEF DecideBinding

LEMMA NoLoginSound == ASSUME Inv, NoLogin PROVE Inv'
<1>1. Grown
  BY StaysGrown DEF NoLogin, world, history
<1>2. PICK k \in Jobs : k = job[Scheduler] /\ JobSound(k) /\ JobSound(k)'
  BY <1>1, Before, IsScheduler
<1>3. Passed(k) \in Jobs /\ JobSound(Passed(k))' /\ Becomes(Scheduler, Passed(k))
  BY <1>2, PassedSound DEF NoLogin
<1>. QED BY <1>3, QuietStep, EventHappens, IsScheduler DEF NoLogin

LEMMA RetrySound ==
    ASSUME Inv, NEW p \in Pages, NEW r \in Requirements, Retry(p, r) PROVE Inv'
<1>1. p \in Processes
  BY DEF Processes
<1>2. exam[r] \in Keys
  BY Parts DEF WorldTyped, Keys
<1>3. PICK e \in Keys : e = exam[r]
  BY <1>2
<1>. DEFINE j == [Idle EXCEPT !.r = r, !.of = e]
<1>4. j \in Jobs
  BY Nothing DEF Jobs, Keys
<1>5. JobSound(j)'
  BY NothingSoundNext, Nothing DEF Idle, JobSound, Storings
<1>6. Becomes(p, Store(j, "binds", "running"))
  BY <1>3 DEF Retry
<1>. HIDE DEF j
<1>7. Store(j, "binds", "running") \in Jobs /\ JobSound(Store(j, "binds", "running"))'
  BY <1>4, <1>5, StoresBind DEF BindStatuses
<1>. QED BY <1>1, <1>6, <1>7, QuietStep, EventHappens DEF Retry

LEMMA SelectSound == ASSUME Inv, NEW p \in Processes, Select(p) PROVE Inv'
<1>1. Grown
  BY StaysGrown DEF Select, world, history
<1>2. PICK k \in Jobs : k = job[p] /\ JobSound(k) /\ JobSound(k)'
  BY <1>1, Before
<1>3. k.at = "selecting"
  BY <1>2 DEF Select, At
<1>4. \E j \in Jobs : Becomes(p, j) /\ JobSound(j)'
  <2>1. CASE k.of.session = NoSession
    BY <1>2, <2>1, StoresBind DEF Select, BindStatuses
  <2>2. CASE k.of.session # NoSession
    <3>1. k.of.session \in Sessions
      BY <2>2 DEF Jobs, Exams, NoExam
    <3>2. [k EXCEPT !.at = "detecting"] \in Jobs /\ JobSound([k EXCEPT !.at = "detecting"])'
      BY <1>2, <3>1, Moves DEF Places, Storings
    <3>3. /\ [k EXCEPT !.at = "posting", !.left = Courses] \in Jobs
          /\ JobSound([k EXCEPT !.at = "posting", !.left = Courses])'
      BY <1>2, <3>1 DEF Jobs, JobSound, Places, Storings
    <3>4. \/ Becomes(p, [k EXCEPT !.at = "posting", !.left = Courses])
          \/ Becomes(p, [k EXCEPT !.at = "detecting"])
      BY <1>2, <2>2 DEF Select
    <3>. QED BY <3>2, <3>3, <3>4
  <2>. QED BY <2>1, <2>2
<1>. QED BY <1>4, QuietStep, EventsStay DEF Select

(* What a look at the session has found is stored.                           *)
LEMMA DetectedSound ==
    ASSUME Inv, NEW p \in Processes, NEW found \in BOOLEAN, At(p, "detecting"), Detected(p, found),
           halfSeen \subseteq halfSeen', halfSeen' \subseteq Sessions, events' \in 0..MaxEvents,
           NEW s, s = job[p].of.session, found => PapersOn(s)'
    PROVE  Inv'
<1>1. Grown
  BY StaysGrown DEF Detected, world
<1>2. PICK k \in Jobs : k = job[p] /\ JobSound(k) /\ JobSound(k)'
  BY <1>1, Before
<1>3. k.of.session \in Sessions
  BY <1>2 DEF At, JobSound
<1>4. Becomes(p, IF found THEN Store(k, "binds", "success")
                 ELSE IF k.pass = "bind" THEN Store(k, "binds", "failed")
                 ELSE Store(k, "reminders", "sending"))
  BY <1>2 DEF Detected
<1>5. \E j \in Jobs : Becomes(p, j) /\ JobSound(j)'
  <2>1. CASE found
    <3>1. Becomes(p, Store(k, "binds", "success")) /\ Has(s)' /\ s = k.of.session
      BY <1>2, <1>3, <1>4, <2>1 DEF Has
    <3>2. Has(k.of.session)'
      BY <3>1
    <3>. QED BY <1>2, <3>1, <3>2, StoresBind DEF BindStatuses
  <2>2. CASE ~found /\ k.pass = "bind"
    <3>1. Becomes(p, Store(k, "binds", "failed"))
      BY <1>4, <2>2
    <3>. QED BY <1>2, <3>1, StoresBind DEF BindStatuses
  <2>3. CASE ~found /\ k.pass # "bind"
    <3>1. Becomes(p, Store(k, "reminders", "sending"))
      BY <1>4, <2>3
    <3>. QED BY <1>2, <3>1, StoresReminder DEF RemindStatuses
  <2>. QED BY <2>1, <2>2, <2>3
<1>6. job' \in [Processes -> Jobs] /\ (\A q \in Processes : JobSound(job[q]))'
  BY <1>1, <1>5, OneGoesOn
<1>7. config' \in Configs /\ Sound(config)'
  BY <1>1, ConfigStays DEF Detected
<1>8. Looked'
  BY <1>1, LookedGrows DEF Detected
<1>9. WorldTyped' /\ HistoryTyped'
  BY Parts DEF Detected, WorldTyped, HistoryTyped, world
<1>. QED BY <1>6, <1>7, <1>8, <1>9, Together

LEMMA DetectSound == ASSUME Inv, NEW p \in Processes, Detect(p) PROVE Inv'
<1>1. PICK s \in Sessions : s = job[p].of.session
  BY Fields DEF Detect, At, JobSound
<1>2. halfSeen \subseteq halfSeen' /\ halfSeen' \subseteq Sessions
  BY <1>1, Parts DEF Detect, HistoryTyped
<1>3. PaperListed(s) => PapersOn(s)'
  BY <1>1 DEF Detect, Detected, world, PapersOn, AllBound
<1>4. PaperListed(s) \in BOOLEAN /\ Detected(p, PaperListed(s)) /\ At(p, "detecting")
  BY <1>1 DEF Detect, PaperListed
<1>. QED BY <1>1, <1>2, <1>3, <1>4, DetectedSound, EventsStay DEF Detect

LEMMA DetectByCourseSound == ASSUME Inv, NEW p \in Processes, DetectByCourse(p) PROVE Inv'
<1>1. PICK s \in Sessions : s = job[p].of.session
  BY Fields DEF DetectByCourse, At, JobSound
<1>2. halfSeen \subseteq halfSeen' /\ halfSeen' \subseteq Sessions
  BY Parts DEF DetectByCourse, HistoryTyped
<1>3. AllBound(s) => PapersOn(s)'
  BY DEF DetectByCourse, Detected, world, PapersOn, AllBound
<1>4. AllBound(s) \in BOOLEAN /\ Detected(p, AllBound(s)) /\ At(p, "detecting")
  BY <1>1 DEF DetectByCourse, AllBound
<1>. QED BY <1>1, <1>2, <1>3, <1>4, DetectedSound, EventHappens DEF DetectByCourse

(* Papers for a course are put on the session a process works on.            *)
LEMMA BoundGrows ==
    ASSUME Inv, NEW s \in Sessions, NEW c \in Courses, UNCHANGED mailed,
           bound' = [bound EXCEPT ![s] = @ \cup {c}], UNCHANGED halfSeen
    PROVE  Grown /\ bound'[s] = bound[s] \cup {c}
BY Parts DEF WorldTyped, HistoryTyped, Grown

(* A step that only puts papers on a session, or moves a process on.         *)
LEMMA WorkStep ==
    ASSUME Inv, Grown, NEW p \in Processes, NEW j \in Jobs, Becomes(p, j), JobSound(j)',
           UNCHANGED <<config, up, exam, offered, clock, mailed, history>>, events' \in 0..MaxEvents
    PROVE  Inv'
<1>1. job' \in [Processes -> Jobs] /\ (\A q \in Processes : JobSound(job[q]))'
  BY OneGoesOn
<1>2. config' \in Configs /\ Sound(config)'
  BY ConfigStays
<1>3. Looked'
  BY LookedGrows DEF history
<1>4. WorldTyped' /\ HistoryTyped'
  BY Parts DEF WorldTyped, HistoryTyped, history, Grown
<1>. QED BY <1>1, <1>2, <1>3, <1>4, Together

LEMMA PostSound ==
    ASSUME Inv, NEW p \in Processes, NEW c \in Courses, Post(p, c) PROVE Inv'
<1>1. job[p].of.session \in Sessions /\ Courses \ job[p].left \subseteq bound[job[p].of.session]
  BY Fields DEF Post, At, JobSound
<1>2. Grown /\ bound'[job[p].of.session] = bound[job[p].of.session] \cup {c}
  BY <1>1, BoundGrows DEF Post, Binds, history
<1>3. PICK k \in Jobs : k = job[p] /\ JobSound(k) /\ JobSound(k)'
  BY <1>2, Before
<1>4. AfterPost(k, c) \in Jobs /\ JobSound(AfterPost(k, c))'
  <2>1. CASE k.left = {c}
    <3>. DEFINE i == [k EXCEPT !.left = {}]
    <3>1. i \in Jobs /\ i.of = k.of
      BY DEF Jobs
    <3>2. Courses \subseteq bound'[k.of.session] /\ Has(k.of.session)'
      BY <1>1, <1>2, <1>3, <2>1 DEF Has, Grown, PapersOn
    <3>3. JobSound(i)'
      BY <1>3, <3>1, <3>2 DEF Jobs, JobSound, EntrySound, Has
    <3>4. AfterPost(k, c) = Store(i, "binds", "success")
      BY <2>1 DEF AfterPost
    <3>. HIDE DEF i
    <3>. QED BY <3>1, <3>2, <3>3, <3>4, StoresBind DEF BindStatuses
  <2>2. CASE k.left # {c}
    <3>. DEFINE i == [k EXCEPT !.left = k.left \ {c}]
    <3>1. i \in Jobs
      BY DEF Jobs
    <3>2. Courses \ (k.left \ {c}) \subseteq bound'[k.of.session]
      BY <1>1, <1>2, <1>3
    <3>3. JobSound(i)'
      BY <1>1, <1>3, <3>1, <3>2 DEF Jobs, JobSound, EntrySound, Has
    <3>. QED BY <2>2, <3>1, <3>3 DEF AfterPost
  <2>. QED BY <2>1, <2>2
<1>5. Becomes(p, AfterPost(k, c))
  BY <1>3 DEF Post
<1>. QED BY <1>2, <1>4, <1>5, WorkStep, EventsStay DEF Post

LEMMA CallFailsSound == ASSUME Inv, NEW p \in Processes, CallFails(p) PROVE Inv'
<1>1. Grown
  <2>1. CASE UNCHANGED bound
    BY <2>1, StaysGrown DEF CallFails, history
  <2>2. CASE At(p, "posting") /\ \E c \in job[p].left : Binds(p, c)
    <3>1. PICK c \in Courses : Binds(p, c)
      BY <2>2, Fields
    <3>2. job[p].of.session \in Sessions
      BY <2>2, Fields DEF At, JobSound
    <3>. QED BY <3>1, <3>2, BoundGrows DEF Binds, CallFails, history
  <2>. QED BY <2>1, <2>2 DEF CallFails
<1>2. PICK k \in Jobs : k = job[p] /\ JobSound(k) /\ JobSound(k)'
  BY <1>1, Before
<1>3. AfterFailure(k) \in Jobs /\ JobSound(AfterFailure(k))'
  <2>. DEFINE i == [k EXCEPT !.at = "selecting", !.left = {}]
  <2>1. i \in Jobs /\ JobSound(i)'
    BY <1>2 DEF Jobs, JobSound, Storings, Places
  <2>2. StoreLast([k EXCEPT !.left = {}], "binds", "failed") = StoreLast(i, "binds", "failed")
    BY DEF StoreLast, Jobs
  <2>. HIDE DEF i
  <2>3. /\ StoreLast(i, "binds", "failed") \in Jobs /\ JobSound(StoreLast(i, "binds", "failed"))'
    BY <2>1, StoresBind DEF BindStatuses
  <2>4. Store(k, "reminders", "sending") \in Jobs /\ JobSound(Store(k, "reminders", "sending"))'
    BY <1>2, StoresReminder DEF RemindStatuses
  <2>. QED BY <2>2, <2>3, <2>4 DEF AfterFailure
<1>4. Becomes(p, AfterFailure(k))
  BY <1>2 DEF CallFails
<1>. QED BY <1>1, <1>3, <1>4, WorkStep, EventHappens DEF CallFails

-----------------------------------------------------------------------------
(* Reminding.                                                                *)

LEMMA DecideReminderSound == ASSUME Inv, DecideReminder PROVE Inv'
<1>1. Grown
  BY StaysGrown DEF DecideReminder, world
<1>2. PICK k \in Jobs : k = job[Scheduler] /\ JobSound(k) /\ JobSound(k)'
  BY <1>1, Before, IsScheduler
<1>. DEFINE e == k.task.exam[k.r]
            i == [k EXCEPT !.at = "detecting", !.of = e, !.task = NoTask]
<1>3. e \in Keys /\ e.session \in Sessions \cup {NoSession} /\ k.r \in Requirements
  BY DEF Jobs, Tasks, Keys, Exams, NoExam
<1>4. CASE ReminderDue(k.task, k.r, k.now)
  <2>1. e.session \in Sessions
    BY <1>3, <1>4 DEF ReminderDue, MayRemind
  <2>2. i \in Jobs
    BY <1>3, Nothing DEF Jobs, Keys, Places
  <2>3. Sound(NoTask.config)'
    BY NothingSoundNext DEF NoTask
  <2>4. JobSound(i)'
    BY <1>2, <2>1, <2>2, <2>3 DEF Jobs, JobSound, Storings
  <2>5. Becomes(Scheduler, i) /\ UNCHANGED lookedAt
    BY <1>2, <1>4 DEF DecideReminder
  <2>. HIDE DEF i
  <2>. QED BY <2>2, <2>4, <2>5, QuietStep, EventsStay, IsScheduler DEF DecideReminder, history
<1>5. CASE ~ReminderDue(k.task, k.r, k.now)
  <2>1. /\ Becomes(Scheduler, Passed(k))
        /\ lookedAt' = lookedAt \cup {x \in {<<k.r, e>>} : MayRemind(e, k.now)}
    BY <1>2, <1>5 DEF DecideReminder
  <2>2. Passed(k) \in Jobs /\ JobSound(Passed(k))'
    BY <1>2, PassedSound
  <2>3. job' \in [Processes -> Jobs] /\ (\A q \in Processes : JobSound(job[q]))'
    BY <1>1, <2>1, <2>2, OneGoesOn, IsScheduler
  <2>4. config' \in Configs /\ Sound(config)'
    BY <1>1, ConfigStays DEF DecideReminder
  <2>5. ASSUME MayRemind(e, k.now) PROVE (<<k.r, e>> \in mailed \/ Has(e.session))'
    <3>1. CASE PaperBound(k.task, k.r)
      BY <1>2, <1>3, <3>1 DEF PaperBound, JobSound, Sound
    <3>2. CASE AlreadySent(k.task, k.r)
      BY <1>2, <1>3, <3>2 DEF AlreadySent, JobSound, Sound
    <3>. QED BY <1>5, <2>5, <3>1, <3>2 DEF ReminderDue
  <2>6. Looked'
    <3>1. \A x \in lookedAt : (x \in mailed \/ Has(x[2].session))'
      BY <1>1, HasGrows DEF Inv, Looked, Grown
    <3>. QED BY <2>1, <2>5, <3>1 DEF Looked
  <2>7. WorldTyped' /\ HistoryTyped'
    BY <1>3, <2>1, Parts DEF DecideReminder, WorldTyped, HistoryTyped, world, Reminders, Keys
  <2>. QED BY <2>3, <2>4, <2>6, <2>7, Together
<1>. QED BY <1>4, <1>5

(* A mail is delivered.                                                      *)
LEMMA DeliveryGrows ==
    ASSUME Inv, NEW p \in Processes, Delivers(p), UNCHANGED <<bound, halfSeen>>
    PROVE  Grown /\ Reminder(p) \in mailed' /\ again' \subseteq mailed'
BY Fields, Parts DEF Delivers, Reminder, Reminders, Keys, WorldTyped, HistoryTyped, Grown

LEMMA MailSound == ASSUME Inv, Mail PROVE Inv'
<1>1. Grown /\ Reminder(Scheduler) \in mailed' /\ again' \subseteq mailed'
  BY DeliveryGrows, IsScheduler DEF Mail, world
<1>2. PICK k \in Jobs : k = job[Scheduler] /\ JobSound(k) /\ JobSound(k)'
  BY <1>1, Before, IsScheduler
<1>3. Store(k, "reminders", "sent") \in Jobs /\ JobSound(Store(k, "reminders", "sent"))'
  BY <1>1, <1>2, StoresReminder DEF Reminder, RemindStatuses
<1>4. Becomes(Scheduler, Store(k, "reminders", "sent"))
  BY <1>2 DEF Mail
<1>5. job' \in [Processes -> Jobs] /\ (\A q \in Processes : JobSound(job[q]))'
  BY <1>1, <1>3, <1>4, OneGoesOn, IsScheduler
<1>6. config' \in Configs /\ Sound(config)'
  BY <1>1, ConfigStays DEF Mail
<1>7. Looked'
  BY <1>1, LookedGrows DEF Mail
<1>8. WorldTyped' /\ HistoryTyped'
  BY <1>1, Parts DEF Mail, WorldTyped, HistoryTyped, world, Grown
<1>. QED BY <1>5, <1>6, <1>7, <1>8, Together

LEMMA MailFailsSound == ASSUME Inv, MailFails PROVE Inv'
<1>1. Grown /\ again' \subseteq mailed' /\ forgotten' \subseteq Reminders
  <2>1. CASE UNCHANGED <<mailed, again, forgotten>>
    BY <2>1, StaysGrown, Parts DEF MailFails, world, HistoryTyped
  <2>2. CASE Delivers(Scheduler) /\ forgotten' = forgotten \cup {Reminder(Scheduler)}
    BY <2>2, DeliveryGrows, IsScheduler, Parts DEF MailFails, world, HistoryTyped, Grown
  <2>. QED BY <2>1, <2>2 DEF MailFails
<1>2. PICK k \in Jobs : k = job[Scheduler] /\ JobSound(k) /\ JobSound(k)'
  BY <1>1, Before, IsScheduler
<1>3. StoreLast(k, "reminders", "failed") \in Jobs /\ JobSound(StoreLast(k, "reminders", "failed"))'
  BY <1>2, StoresReminder DEF RemindStatuses
<1>4. Becomes(Scheduler, StoreLast(k, "reminders", "failed"))
  BY <1>2 DEF MailFails
<1>5. job' \in [Processes -> Jobs] /\ (\A q \in Processes : JobSound(job[q]))'
  BY <1>1, <1>3, <1>4, OneGoesOn, IsScheduler
<1>6. config' \in Configs /\ Sound(config)'
  BY <1>1, ConfigStays DEF MailFails
<1>7. Looked'
  BY <1>1, LookedGrows DEF MailFails
<1>8. WorldTyped' /\ HistoryTyped'
  BY <1>1, Parts, EventHappens DEF MailFails, WorldTyped, HistoryTyped, world, Grown
<1>. QED BY <1>5, <1>6, <1>7, <1>8, Together

-----------------------------------------------------------------------------
(* The clock, the server, the platform and the people.                       *)

LEMMA TickSound == ASSUME Inv, Tick PROVE Inv'
<1>1. Grown
  BY StaysGrown DEF Tick, history
<1>2. clock' \in 0..MaxClock
  <2>1. MaxClock \in Nat
    BY PaperAssumption
  <2>. QED BY <2>1, Parts DEF Tick, WorldTyped
<1>3. job' \in [Processes -> Jobs] /\ (\A q \in Processes : JobSound(job[q]))'
  <2>1. PICK n \in 0..MaxClock : n = clock'
    BY <1>2
  <2>. DEFINE j == [Idle EXCEPT !.at = "reading", !.now = n]
  <2>2. j \in Jobs
    BY Nothing DEF Jobs, Places
  <2>3. JobSound(j)'
    BY NothingSoundNext, Nothing DEF Idle, JobSound, Storings
  <2>4. Becomes(Scheduler, j) \/ UNCHANGED job
    BY <2>1 DEF Tick, Becomes
  <2>. HIDE DEF j
  <2>. QED BY <1>1, <2>2, <2>3, <2>4, OneGoesOn, NobodyGoesOn, IsScheduler
<1>4. config' \in Configs /\ Sound(config)'
  BY <1>1, ConfigStays DEF Tick
<1>5. Looked'
  BY <1>1, LookedGrows DEF Tick, history
<1>6. WorldTyped' /\ HistoryTyped'
  BY <1>2, Parts DEF Tick, WorldTyped, HistoryTyped, history
<1>. QED BY <1>3, <1>4, <1>5, <1>6, Together

LEMMA CrashSound == ASSUME Inv, Crash PROVE Inv'
<1>1. Grown
  BY StaysGrown DEF Crash, world
<1>2. job' \in [Processes -> Jobs] /\ (\A q \in Processes : JobSound(job[q]))'
  <2>1. job' = [q \in Processes |-> Idle]
    BY DEF Crash
  <2>2. job' \in [Processes -> Jobs]
    BY <2>1, Nothing
  <2>3. ASSUME NEW q \in Processes PROVE JobSound(job[q])'
    BY <2>1, NothingSoundNext DEF JobSound, Sound, EntrySound, Has
  <2>. QED BY <2>2, <2>3
<1>3. config' \in Configs /\ Sound(config)'
  BY <1>1, ConfigStays DEF Crash
<1>4. Looked'
  BY <1>1, LookedGrows DEF Crash
<1>5. WorldTyped'
  BY Parts, EventHappens DEF Crash, WorldTyped, world
<1>6. HistoryTyped'
  <2>1. \A q \in Processes : Reminder(q) \in Reminders /\ job[q].r \in Requirements
    BY Fields DEF Reminder, Reminders, Keys
  <2>2. forgotten' \subseteq Reminders /\ dangling' \subseteq Requirements
    BY <2>1, Parts DEF Crash, HistoryTyped
  <2>. QED BY <2>2, Parts DEF Crash, HistoryTyped
<1>. QED BY <1>2, <1>3, <1>4, <1>5, <1>6, Together

(* A step of nobody's.                                                       *)
LEMMA OutsideStep ==
    ASSUME Inv, Grown, UNCHANGED <<config, job, mailed, history>>, WorldTyped'
    PROVE  Inv'
<1>1. job' \in [Processes -> Jobs] /\ (\A q \in Processes : JobSound(job[q]))'
  BY NobodyGoesOn
<1>2. config' \in Configs /\ Sound(config)'
  BY ConfigStays
<1>3. Looked'
  BY LookedGrows DEF history
<1>4. HistoryTyped'
  BY Parts DEF HistoryTyped, history
<1>. QED BY <1>1, <1>2, <1>3, <1>4, Together

LEMMA RestartSound == ASSUME Inv, Restart PROVE Inv'
<1>1. Grown /\ WorldTyped'
  BY StaysGrown, Parts DEF Restart, world, WorldTyped, history
<1>. QED BY <1>1, OutsideStep DEF Restart

LEMMA OfferSound == ASSUME Inv, NEW c \in Courses, Offer(c) PROVE Inv'
<1>1. Grown /\ WorldTyped'
  BY StaysGrown, Parts DEF Offer, server, WorldTyped, history
<1>. QED BY <1>1, OutsideStep DEF Offer, server

LEMMA BindByHandSound ==
    ASSUME Inv, NEW r \in Requirements, NEW c \in Courses, BindByHand(r, c) PROVE Inv'
<1>1. exam[r].session \in Sessions
  BY Parts DEF BindByHand, WorldTyped, Exams
<1>2. Grown
  BY <1>1, BoundGrows DEF BindByHand, history
<1>3. WorldTyped'
  BY <1>2, Parts DEF BindByHand, server, WorldTyped, Grown
<1>. QED BY <1>2, <1>3, OutsideStep DEF BindByHand, server

LEMMA NewSessionSound == ASSUME Inv, NEW r \in Requirements, NewSession(r) PROVE Inv'
<1>1. Last + 1 + events' \in Sessions
  <2>1. events \in 0..MaxEvents /\ events < MaxEvents /\ events' = events + 1
    BY Parts DEF NewSession, Happens, WorldTyped
  <2>. QED BY <2>1, Numbers DEF Sessions
<1>2. exam' \in [Requirements -> Exams]
  BY <1>1, Parts DEF NewSession, WorldTyped, Exams
<1>3. Grown /\ WorldTyped'
  BY <1>2, StaysGrown, Parts, EventHappens DEF NewSession, server, WorldTyped, history
<1>. QED BY <1>3, OutsideStep DEF NewSession, server

LEMMA PutOffSound ==
    ASSUME Inv, NEW r \in Requirements, NEW start \in Starts, PutOff(r, start) PROVE Inv'
<1>1. exam' \in [Requirements -> Exams]
  BY Parts DEF PutOff, WorldTyped, Exams
<1>2. Grown /\ WorldTyped'
  BY <1>1, StaysGrown, Parts, EventHappens DEF PutOff, server, WorldTyped, history
<1>. QED BY <1>2, OutsideStep DEF PutOff, server

-----------------------------------------------------------------------------
(* The invariant is inductive.                                               *)

LEMMA InitSound == Init => Inv
<1>. SUFFICES ASSUME Init PROVE Inv
  OBVIOUS
<1>1. WorldTyped
  <2>1. exam \in [Requirements -> Exams]
    BY PaperAssumption DEF Init, Exams, Sessions
  <2>. QED BY <2>1, Numbers DEF Init, WorldTyped
<1>2. HistoryTyped /\ Looked
  BY DEF Init, HistoryTyped, Looked
<1>3. config \in Configs /\ Sound(config)
  BY Nothing, NothingSound DEF Init
<1>4. job \in [Processes -> Jobs] /\ \A p \in Processes : JobSound(job[p])
  BY Nothing, NothingSound DEF Init
<1>5. TypeOK
  BY <1>1, <1>2, <1>3, <1>4, Zenon DEF TypeOK, WorldTyped, HistoryTyped
<1>. QED BY <1>2, <1>3, <1>4, <1>5, Zenon DEF Inv

LEMMA StutterSound == ASSUME Inv, UNCHANGED vars PROVE Inv'
<1>1. Grown /\ WorldTyped'
  BY StaysGrown, Parts DEF vars, server, world, WorldTyped, history
<1>. QED BY <1>1, OutsideStep DEF vars, server

LEMMA NextSound == ASSUME Inv, [Next]_vars PROVE Inv'
<1>1. ASSUME NEW p \in Processes, Storing(p) PROVE Inv'
  BY <1>1, StoreGetSound, StoreMergeSound, StoreWriteSound, StoreReturnSound, StoreFailsSound, Zenon
     DEF Storing
<1>2. ASSUME NEW p \in Processes, Binding(p) PROVE Inv'
  BY <1>2, SelectSound, DetectSound, DetectByCourseSound, CallFailsSound, PostSound, Zenon DEF Binding
<1>3. ASSUME Scheduling PROVE Inv'
  BY <1>3, ReadTaskSound, ReadFailsSound, DecideBindingSound, NoLoginSound, DecideReminderSound,
     MailSound, MailFailsSound, Zenon DEF Scheduling
<1>. QED
  BY <1>1, <1>2, <1>3, RetrySound, TickSound, CrashSound, RestartSound, OfferSound, BindByHandSound,
     NewSessionSound, PutOffSound, StutterSound, Zenon DEF Next

LEMMA InvHolds == Spec => []Inv
BY InitSound, NextSound, PTL DEF Spec

-----------------------------------------------------------------------------
(* The state is always well formed.                                          *)
THEOREM TypesHold == Spec => []TypeOK
<1>1. Inv => TypeOK
  BY DEF Inv
<1>. QED BY <1>1, InvHolds, PTL

(* What the task's configuration says is bound is bound on the platform:     *)
(* papers for every course are on the session it names, whichever calls      *)
(* failed and whoever stored it (easy_exam_server.mjs, paper_binding.mjs).   *)
THEOREM SuccessIsBoundHolds == Spec => []SuccessIsBound
<1>1. Inv => SuccessIsBound
  BY DEF Inv, Sound, Has, SuccessIsBound
<1>. QED BY <1>1, InvHolds, PTL

(* An exam a reminder pass has dealt with has its papers, or its reminder    *)
(* was mailed, whatever was written over meanwhile.                          *)
THEOREM CoveredHolds == Spec => []CoveredOnceLookedAt
<1>1. Inv => CoveredOnceLookedAt
  BY DEF Inv, Looked, Has, CoveredOnceLookedAt
<1>. QED BY <1>1, InvHolds, PTL

-----------------------------------------------------------------------------
(* Who carries a binding out, and what is known of reminders.                *)

(* A binding of r is being carried out, and its end is not yet written.      *)
Carries(j, r) ==
    /\ j.pass = "bind" /\ j.at \notin {"idle", "reading", "deciding"} /\ j.r = r
    /\ ~(j.at = "return" /\ Concludes(j.entry))

(* A "sent" is being stored, and is not yet written.                         *)
Sends(j) == j.entry.kind = "reminders" /\ j.entry.status = "sent"
Sending(j) == j.at \in {"get", "merge", "write"} /\ Sends(j)

(* Reminders that reached their readers and of which no "sent" was lost.     *)
Unforgotten == mailed \ forgotten
Known(task, r) == <<r, task.exam[r]>> \in Unforgotten => AlreadySent(task, r)

(* The places of a pass: what it stores there, and that what it is about to  *)
(* write has its entry.                                                      *)
Shape(p, j) ==
    /\ j.pass = "remind" => p = Scheduler
    /\ j.at \in Storings => IF j.pass = "bind" THEN j.entry.kind = "binds"
                            ELSE j.entry.kind = "binds" => j.entry.status = "success"
    /\ j.at \in {"merge", "write"} => j.held[j.entry.kind][j.r] = Value(j)
    /\ j.at = "mailing" => j.pass = "remind"
    /\ j.at \in {"selecting", "posting"} => j.pass = "bind"

(* A reminder that is on its way to be mailed was not, as far as is known;   *)
(* and the task a pass still decides on tells of those that were.            *)
Pending(j) == j.at \in {"detecting", "mailing"} \/ (j.at \in Storings /\ ~Sends(j))
RemindOK(j) ==
    j.pass = "remind" =>
      /\ Pending(j) => <<j.r, j.of>> \notin Unforgotten
      /\ j.at = "deciding" => \A r \in Requirements : r >= j.r => Known(j.task, r)
      /\ j.at \in Storings /\ j.entry.kind = "reminders" /\ j.entry.status = "not_needed" =>
            \A r \in Requirements : r > j.r => Known(j.task, r)

RunInv ==
    \A r \in Requirements :
        config.binds[r].status = "running" => r \in dangling \/ \E p \in Processes : Carries(job[p], r)
SentInv ==
    \A k \in Unforgotten :
        \/ config.reminders[k[1]] = [status |-> "sent", of |-> k[2]]
        \/ \E p \in Processes : Sending(job[p]) /\ <<job[p].r, job[p].of>> = k
PassInv ==
    /\ \A p \in Processes : Shape(p, job[p]) /\ RemindOK(job[p])
    /\ RunInv /\ SentInv /\ RemindedOnce

LEMMA RemindKept ==
    ASSUME NEW j, RemindOK(j), Unforgotten' \subseteq Unforgotten PROVE RemindOK(j)'
BY DEF RemindOK, Known, AlreadySent

(* A step in which one process goes on, what it carried out it still does,   *)
(* or that is on record, and nothing is mailed that is not on record.        *)
LEMMA GoesOn ==
    ASSUME Inv, PassInv, NEW p \in Processes, NEW k \in Jobs, k = job[p], NEW j, Becomes(p, j),
           UNCHANGED config, Unforgotten' \subseteq Unforgotten, dangling \subseteq dangling',
           again' \subseteq forgotten', Shape(p, j), RemindOK(j)',
           \A r \in Requirements : Carries(k, r) => Carries(j, r) \/ r \in dangling',
           Sending(k) => (Sending(j) /\ j.r = k.r /\ j.of = k.of) \/ <<k.r, k.of>> \in forgotten'
    PROVE  PassInv'
<1>1. job'[p] = j /\ \A q \in Processes : q # p => job'[q] = job[q]
  BY Fields DEF Becomes, Inv, TypeOK
<1>2. ASSUME NEW q \in Processes PROVE (Shape(q, job[q]) /\ RemindOK(job[q]))'
  <2>1. CASE q = p
    BY <1>1, <2>1 DEF Shape, RemindOK, Pending, Sends, Known, Value
  <2>2. CASE q # p
    <3>1. PICK i : i = job[q]
      OBVIOUS
    <3>2. Shape(q, i) /\ RemindOK(i)
      BY <3>1 DEF PassInv
    <3>3. RemindOK(i)'
      BY <3>2, RemindKept
    <3>. QED BY <1>1, <2>2, <3>1, <3>2, <3>3 DEF Shape, RemindOK, Pending, Sends, Known, Value
  <2>. QED BY <2>1, <2>2
<1>3. RunInv'
  BY <1>1 DEF PassInv, RunInv, Carries
<1>4. SentInv'
  <2>. SUFFICES ASSUME NEW x \in Unforgotten'
                PROVE  \/ config'.reminders[x[1]] = [status |-> "sent", of |-> x[2]]
                       \/ \E q \in Processes : Sending(job'[q]) /\ <<job'[q].r, job'[q].of>> = x
    BY DEF SentInv, Sending, Sends
  <2>1. CASE config.reminders[x[1]] = [status |-> "sent", of |-> x[2]]
    BY <2>1
  <2>2. ASSUME NEW q \in Processes, Sending(job[q]), <<job[q].r, job[q].of>> = x
        PROVE  Sending(job'[q]) /\ <<job'[q].r, job'[q].of>> = x
    <3>1. x \notin forgotten'
      BY DEF Unforgotten
    <3>. QED BY <1>1, <2>2, <3>1
  <2>. QED BY <2>1, <2>2 DEF PassInv, SentInv
<1>5. RemindedOnce'
  BY DEF RemindedOnce
<1>. QED BY <1>2, <1>3, <1>4, <1>5 DEF PassInv

(* The same of a step that changes nothing but where the process is.         *)
LEMMA OnlyGoesOn ==
    ASSUME Inv, PassInv, NEW p \in Processes, NEW k \in Jobs, k = job[p], NEW j, Becomes(p, j),
           UNCHANGED <<config, mailed, again, forgotten, dangling>>, Shape(p, j), RemindOK(j),
           \A r \in Requirements : Carries(k, r) => Carries(j, r),
           Sending(k) => Sending(j) /\ j.r = k.r /\ j.of = k.of
    PROVE  PassInv'
<1>1. Unforgotten' = Unforgotten /\ again' \subseteq forgotten'
  BY DEF Unforgotten, PassInv, RemindedOnce
<1>2. RemindOK(j)'
  BY <1>1, RemindKept
<1>. QED BY <1>1, <1>2, GoesOn

LEMMA NobodyMoves ==
    ASSUME Inv, PassInv, UNCHANGED <<config, job, mailed, again, forgotten, dangling>>
    PROVE  PassInv'
BY DEF PassInv, Shape, RemindOK, Pending, Sends, Known, Unforgotten, Value, RunInv, Carries, SentInv, Sending,
       RemindedOnce

(* The process that goes on, as it was before.                               *)
LEMMA WasShaped ==
    ASSUME Inv, PassInv, NEW p \in Processes
    PROVE  \E k \in Jobs : k = job[p] /\ JobSound(k) /\ Shape(p, k) /\ RemindOK(k)
<1>1. PICK k \in Jobs : k = job[p]
  BY Fields
<1>. QED BY <1>1, Fields DEF PassInv

LEMMA StoreFields ==
    ASSUME NEW k \in Jobs, NEW kind, NEW status, NEW j \in {Store(k, kind, status), StoreLast(k, kind, status)}
    PROVE  /\ j.at = "get" /\ j.entry.kind = kind /\ j.entry.status = status
           /\ j.r = k.r /\ j.of = k.of /\ j.pass = k.pass /\ j.task = k.task
<1>1. CASE j = Store(k, kind, status)
  BY <1>1 DEF Store, Jobs
<1>2. CASE j = StoreLast(k, kind, status)
  BY <1>2 DEF StoreLast, Jobs
<1>. QED BY <1>1, <1>2

LEMMA PassedShaped ==
    ASSUME NEW k \in Jobs,
           k.pass = "remind" => \A r \in Requirements : r > k.r => Known(k.task, r)
    PROVE  Shape(Scheduler, Passed(k)) /\ RemindOK(Passed(k)) /\ ~Sending(Passed(k))
<1>. DEFINE j == Passed(k)
<1>1. /\ j.at \in {"deciding", "reading", "idle"}
      /\ j.at = "deciding" => j.r = k.r + 1 /\ j.pass = k.pass /\ j.task = k.task
  BY DEF Passed, Idle, Jobs
<1>. HIDE DEF j
<1>2. Shape(Scheduler, j) /\ ~Sending(j)
  BY <1>1 DEF Shape, Sending, Storings
<1>3. RemindOK(j)
  <2>1. k.r \in Nat /\ Requirements \subseteq Nat
    BY Numbers DEF Jobs, Requirements
  <2>. QED BY <1>1, <2>1 DEF RemindOK, Pending, Storings
<1>. QED BY <1>2, <1>3 DEF j

LEMMA IdleShaped == \A p : Shape(p, Idle) /\ RemindOK(Idle) /\ ~Sending(Idle)
BY DEF Idle, Shape, RemindOK, Sending, Storings

(* The task as it is tells of all that was mailed, while nothing is stored.  *)
LEMMA TaskKnows ==
    ASSUME Inv, PassInv, ~Sending(job[Scheduler])
    PROVE  \A r \in Requirements : Known(Task, r)
<1>. SUFFICES ASSUME NEW r \in Requirements, <<r, exam[r]>> \in Unforgotten
              PROVE  config.reminders[r] = [status |-> "sent", of |-> exam[r]]
  BY DEF Known, AlreadySent, Task
<1>1. ASSUME NEW p \in Processes, Sending(job[p]) PROVE FALSE
  <2>1. job[p].pass # "bind" /\ job[p].pass \in {"bind", "remind"}
    BY <1>1, Fields DEF PassInv, Shape, Sending, Sends, Storings, Jobs
  <2>. QED BY <1>1, <2>1 DEF PassInv, Shape
<1>. QED BY <1>1 DEF PassInv, SentInv

-----------------------------------------------------------------------------
(* Storing.                                                                  *)

LEMMA StoreGetKept == ASSUME Inv, PassInv, NEW p \in Processes, StoreGet(p) PROVE PassInv'
<1>1. PICK k \in Jobs : k = job[p] /\ JobSound(k) /\ Shape(p, k) /\ RemindOK(k)
  BY WasShaped
<1>2. PICK c \in Configs : c = config
  BY Parts
<1>. DEFINE array == [c[k.entry.kind] EXCEPT ![k.r] = Value(k)]
            held == [NoConfig EXCEPT ![k.entry.kind] = array]
            j == [k EXCEPT !.at = "merge", !.held = held]
<1>3. k.at = "get" /\ k.entry.kind \in {"binds", "reminders"} /\ k.r \in Requirements
  BY <1>1 DEF StoreGet, At, JobSound, EntrySound, Storings, Jobs
<1>4. array[k.r] = Value(k)
  BY <1>3 DEF Configs
<1>5. held[k.entry.kind] = array
  BY <1>3 DEF NoConfig
<1>. HIDE DEF array
<1>6. held \in Configs
  <2>1. job'[p].held \in Configs
    BY StoreGetSound DEF Inv, TypeOK, Jobs
  <2>. QED BY <1>1, <1>2, <2>1, Fields DEF StoreGet, Becomes, Inv, TypeOK, Jobs, array
<1>7. Becomes(p, j)
  BY <1>1, <1>2 DEF StoreGet, array
<1>. HIDE DEF held
<1>8. /\ j \in Jobs /\ j.at = "merge" /\ j.held = held /\ j.entry = k.entry /\ j.r = k.r /\ j.of = k.of
      /\ j.pass = k.pass /\ j.task = k.task
  BY <1>6 DEF Jobs, Places
<1>. HIDE DEF j
<1>9. Shape(p, j) /\ RemindOK(j)
  BY <1>1, <1>3, <1>4, <1>5, <1>8 DEF Shape, RemindOK, Pending, Sends, Storings, Value
<1>10. \A r \in Requirements : Carries(k, r) => Carries(j, r)
  BY <1>3, <1>8 DEF Carries
<1>11. Sending(k) => Sending(j)
  BY <1>8 DEF Sending, Sends
<1>. QED BY <1>1, <1>7, <1>8, <1>9, <1>10, <1>11, OnlyGoesOn DEF StoreGet, history

LEMMA StoreMergeKept == ASSUME Inv, PassInv, NEW p \in Processes, StoreMerge(p) PROVE PassInv'
<1>1. PICK k \in Jobs : k = job[p] /\ JobSound(k) /\ Shape(p, k) /\ RemindOK(k)
  BY WasShaped
<1>2. PICK c \in Configs : c = config
  BY Parts
<1>. DEFINE held == [c EXCEPT ![k.entry.kind] = k.held[k.entry.kind]]
            j == [k EXCEPT !.at = "write", !.held = held]
<1>3. k.at = "merge" /\ k.entry.kind \in {"binds", "reminders"} /\ k.held \in Configs
  BY <1>1 DEF StoreMerge, At, JobSound, EntrySound, Storings, Jobs
<1>4. held[k.entry.kind] = k.held[k.entry.kind] /\ held \in Configs
  <2>1. CASE k.entry.kind = "binds"
    BY <1>3, <2>1 DEF Configs
  <2>2. CASE k.entry.kind = "reminders"
    BY <1>3, <2>2 DEF Configs
  <2>. QED BY <1>3, <2>1, <2>2
<1>5. Becomes(p, j)
  BY <1>1, <1>2 DEF StoreMerge
<1>. HIDE DEF held
<1>6. /\ j \in Jobs /\ j.at = "write" /\ j.held = held /\ j.entry = k.entry /\ j.r = k.r /\ j.of = k.of
      /\ j.pass = k.pass /\ j.task = k.task
  BY <1>4 DEF Jobs, Places
<1>. HIDE DEF j
<1>7. Shape(p, j) /\ RemindOK(j)
  BY <1>1, <1>3, <1>4, <1>6 DEF Shape, RemindOK, Pending, Sends, Storings, Value
<1>8. \A r \in Requirements : Carries(k, r) => Carries(j, r)
  BY <1>3, <1>6 DEF Carries
<1>9. Sending(k) => Sending(j)
  BY <1>6 DEF Sending, Sends
<1>. QED BY <1>1, <1>5, <1>6, <1>7, <1>8, <1>9, OnlyGoesOn DEF StoreMerge, history

(* What is written over is on record, but for what the process has put in    *)
(* the place of its own.                                                     *)
LEMMA StoreWriteKept == ASSUME Inv, PassInv, NEW p \in Processes, StoreWrite(p) PROVE PassInv'
<1>1. PICK k \in Jobs : k = job[p] /\ JobSound(k) /\ Shape(p, k) /\ RemindOK(k)
  BY WasShaped
<1>. DEFINE j == [k EXCEPT !.at = "return"]
<1>2. k.at = "write" /\ k.r \in Requirements /\ k.held[k.entry.kind][k.r] = Value(k) /\ EntrySound(k)
  BY <1>1 DEF StoreWrite, At, Shape, JobSound, Storings, Jobs
<1>3. /\ j.at = "return" /\ j.entry = k.entry /\ j.r = k.r /\ j.of = k.of
      /\ j.pass = k.pass /\ j.task = k.task
  BY DEF Jobs
<1>4. job'[p] = j /\ \A q \in Processes : q # p => job'[q] = job[q]
  BY <1>1, Fields DEF StoreWrite, Goes, Becomes, Inv, TypeOK
<1>. HIDE DEF j
<1>5. /\ config' = k.held /\ UNCHANGED <<mailed, again>>
      /\ forgotten' = forgotten \cup {<<r, config.reminders[r].of>> : r \in Overwritten(p)}
      /\ dangling' = (dangling \ {r \in {k.r} : Concludes(k.entry)}) \cup Reverted(p)
  BY <1>1 DEF StoreWrite
<1>6. Unforgotten' \subseteq Unforgotten
  BY <1>5 DEF Unforgotten
<1>7. ASSUME NEW q \in Processes PROVE (Shape(q, job[q]) /\ RemindOK(job[q]))'
  <2>1. CASE q = p
    <3>1. Shape(p, j) /\ RemindOK(j)
      BY <1>1, <1>2, <1>3 DEF Shape, RemindOK, Pending, Sends, Storings
    <3>2. RemindOK(j)'
      BY <1>6, <3>1, RemindKept
    <3>. QED BY <1>4, <2>1, <3>1, <3>2 DEF Shape, RemindOK, Pending, Sends, Known, Value
  <2>2. CASE q # p
    <3>1. PICK i : i = job[q]
      OBVIOUS
    <3>2. Shape(q, i) /\ RemindOK(i)
      BY <3>1 DEF PassInv
    <3>3. RemindOK(i)'
      BY <1>6, <3>2, RemindKept
    <3>. QED BY <1>4, <2>2, <3>1, <3>2, <3>3 DEF Shape, RemindOK, Pending, Sends, Known, Value
  <2>. QED BY <2>1, <2>2
<1>8. RunInv'
  <2>. SUFFICES ASSUME NEW r \in Requirements, k.held.binds[r].status = "running"
                PROVE  r \in dangling' \/ \E q \in Processes : Carries(job'[q], r)
    BY <1>5 DEF RunInv, Carries
  <2>1. CASE k.entry.kind = "binds" /\ k.r = r
    <3>1. k.entry.status = "running"
      BY <1>2, <2>1 DEF Value
    <3>2. k.pass = "bind"
      BY <1>1, <1>2, <2>1, <3>1 DEF Shape, Storings, Jobs
    <3>3. Carries(j, r)
      BY <1>3, <2>1, <3>1, <3>2 DEF Carries, Concludes
    <3>. QED BY <1>4, <3>3
  <2>2. CASE ~(k.entry.kind = "binds" /\ k.r = r)
    <3>1. CASE k.held.binds[r] # config.binds[r]
      BY <1>1, <1>5, <2>2, <3>1 DEF Reverted, Own
    <3>2. CASE k.held.binds[r] = config.binds[r]
      <4>1. r \in dangling => r \in dangling'
        BY <1>5, <2>2 DEF Concludes
      <4>2. ~Carries(k, r)
        BY <1>1, <1>2, <2>2 DEF Carries, Shape, Storings
      <4>. QED BY <1>1, <1>4, <3>2, <4>1, <4>2 DEF PassInv, RunInv
    <3>. QED BY <3>1, <3>2
  <2>. QED BY <2>1, <2>2
<1>9. SentInv'
  <2>. SUFFICES ASSUME NEW x \in Unforgotten'
                PROVE  \/ k.held.reminders[x[1]] = [status |-> "sent", of |-> x[2]]
                       \/ \E q \in Processes : Sending(job'[q]) /\ <<job'[q].r, job'[q].of>> = x
    BY <1>5 DEF SentInv, Sending, Sends
  <2>1. x \in Unforgotten /\ x \notin forgotten' /\ x \in Reminders
    BY <1>6, Parts DEF Unforgotten, HistoryTyped
  <2>2. x[1] \in Requirements /\ x = <<x[1], x[2]>>
    BY <2>1 DEF Reminders
  <2>3. ASSUME Sends(k), x = <<k.r, k.of>>
        PROVE  k.held.reminders[x[1]] = [status |-> "sent", of |-> x[2]]
    BY <1>2, <2>3 DEF Sends, Value
  <2>4. CASE config.reminders[x[1]] = [status |-> "sent", of |-> x[2]]
    <3>1. CASE k.held.reminders[x[1]] = config.reminders[x[1]]
      BY <2>4, <3>1
    <3>2. CASE k.held.reminders[x[1]] # config.reminders[x[1]]
      <4>1. x[1] \notin Overwritten(p)
        BY <1>5, <2>1, <2>2, <2>4
      <4>2. k.entry.kind = "reminders" /\ k.r = x[1] /\ k.of = x[2]
        BY <1>1, <2>2, <2>4, <3>2, <4>1 DEF Overwritten, Own
      <4>3. k.pass = "remind"
        BY <1>1, <1>2, <4>2 DEF Shape, Storings, Jobs
      <4>4. Sends(k)
        BY <1>1, <1>2, <2>1, <2>2, <4>2, <4>3 DEF RemindOK, Pending, Storings
      <4>. QED BY <2>2, <2>3, <4>2, <4>4
    <3>. QED BY <3>1, <3>2
  <2>5. ASSUME NEW q \in Processes, Sending(job[q]), <<job[q].r, job[q].of>> = x
        PROVE  \/ k.held.reminders[x[1]] = [status |-> "sent", of |-> x[2]]
               \/ Sending(job'[q]) /\ <<job'[q].r, job'[q].of>> = x
    BY <1>1, <1>4, <2>3, <2>5 DEF Sending
  <2>. QED BY <2>1, <2>4, <2>5 DEF PassInv, SentInv
<1>10. RemindedOnce'
  BY <1>5 DEF PassInv, RemindedOnce
<1>. QED BY <1>7, <1>8, <1>9, <1>10 DEF PassInv

LEMMA StoreReturnKept == ASSUME Inv, PassInv, NEW p \in Processes, StoreReturn(p) PROVE PassInv'
<1>1. PICK k \in Jobs : k = job[p] /\ JobSound(k) /\ Shape(p, k) /\ RemindOK(k)
  BY WasShaped
<1>2. k.at = "return" /\ EntrySound(k) /\ k.pass \in {"bind", "remind"} /\ k.r \in Requirements
  BY <1>1 DEF StoreReturn, At, JobSound, Storings, Jobs
<1>3. PICK t \in Tasks : t = Task
  BY Parts DEF Task, Tasks, WorldTyped
<1>. DEFINE fresh == IF k.pass = "remind" /\ k.entry.status # "not_needed"
                     THEN [k EXCEPT !.task = t] ELSE k
            i == Rested(fresh)
<1>4. i \in Jobs /\ i.of = k.of /\ i.r = k.r /\ i.pass = k.pass /\ i.at = "return" /\ i.entry = NoEntry
      /\ i.task = IF k.pass = "remind" /\ k.entry.status # "not_needed" THEN t ELSE k.task
  BY <1>2, Nothing DEF Rested, Jobs
<1>5. Rested(Fresh(job[p])) = i
  BY <1>1, <1>3 DEF Fresh
<1>. HIDE DEF i
<1>6. k.pass = "remind" => p = Scheduler /\ \A r \in Requirements : r > k.r => Known(i.task, r)
  <2>. SUFFICES ASSUME k.pass = "remind" PROVE p = Scheduler /\ \A r \in Requirements : r > k.r => Known(i.task, r)
    OBVIOUS
  <2>1. p = Scheduler
    BY <1>1 DEF Shape
  <2>2. \A r \in Requirements : Known(t, r)
    BY <1>1, <1>2, <1>3, <2>1, TaskKnows DEF Sending
  <2>3. CASE k.entry.status # "not_needed"
    BY <1>4, <2>1, <2>2, <2>3
  <2>4. CASE k.entry.status = "not_needed"
    <3>1. k.entry.kind = "reminders"
      BY <1>2, <2>4 DEF EntrySound, BindStatuses
    <3>. QED BY <1>1, <1>2, <1>4, <2>1, <2>4, <3>1 DEF RemindOK, Storings
  <2>. QED BY <2>3, <2>4
<1>7. ~Sending(k) /\ \A r \in Requirements : Carries(k, r) => k.pass = "bind" /\ ~Concludes(k.entry) /\ k.r = r
  BY <1>2 DEF Sending, Carries
<1>8. k.pass = "bind" => k.entry.kind = "binds"
  BY <1>1, <1>2 DEF Shape, Storings
<1>9. k.pass = "remind" /\ k.entry.kind = "binds" => k.entry.status = "success"
  BY <1>1, <1>2 DEF Shape, Storings
<1>10. k.pass = "remind" /\ ~Sends(k) => <<k.r, k.of>> \notin Unforgotten
  BY <1>1, <1>2 DEF RemindOK, Pending, Storings
<1>11. Becomes(p, StoredNext(p)) /\ UNCHANGED <<config, mailed, again, forgotten, dangling>>
  BY DEF StoreReturn
<1>12. CASE k.entry.status = "running"
  <2>. DEFINE j == [i EXCEPT !.at = "selecting"]
  <2>1. Becomes(p, j)
    BY <1>1, <1>5, <1>11, <1>12 DEF StoredNext
  <2>2. j.at = "selecting" /\ j.pass = k.pass /\ j.r = k.r /\ j.entry = NoEntry
    BY <1>4 DEF Jobs
  <2>. HIDE DEF j
  <2>3. k.pass = "bind"
    BY <1>2, <1>9, <1>12 DEF EntrySound, RemindStatuses
  <2>4. Shape(p, j) /\ RemindOK(j)
    BY <2>2, <2>3 DEF Shape, RemindOK, Storings
  <2>5. \A r \in Requirements : Carries(k, r) => Carries(j, r)
    BY <2>2 DEF Carries
  <2>. QED BY <1>1, <1>7, <1>11, <2>1, <2>4, <2>5, OnlyGoesOn
<1>13. CASE k.entry.status = "sending"
  <2>. DEFINE j == [i EXCEPT !.at = "mailing"]
  <2>1. Becomes(p, j)
    BY <1>1, <1>5, <1>11, <1>13 DEF StoredNext
  <2>2. j.at = "mailing" /\ j.pass = k.pass /\ j.r = k.r /\ j.of = k.of /\ j.entry = NoEntry
    BY <1>4 DEF Jobs
  <2>. HIDE DEF j
  <2>3. k.pass = "remind"
    BY <1>2, <1>8, <1>13 DEF EntrySound, BindStatuses
  <2>4. Shape(p, j) /\ RemindOK(j)
    BY <1>6, <1>10, <1>13, <2>2, <2>3 DEF Shape, RemindOK, Storings, Sends
  <2>. QED BY <1>1, <1>7, <1>11, <2>1, <2>3, <2>4, OnlyGoesOn
<1>14. CASE k.entry.status = "success" /\ k.pass = "remind"
  <2>1. PICK j : j = Store(i, "reminders", "not_needed")
    OBVIOUS
  <2>2. Becomes(p, j)
    BY <1>1, <1>4, <1>5, <1>11, <1>14, <2>1 DEF StoredNext
  <2>3. /\ j.at = "get" /\ j.entry.kind = "reminders" /\ j.entry.status = "not_needed"
        /\ j.r = k.r /\ j.of = k.of /\ j.pass = "remind" /\ j.task = i.task
    BY <1>4, <1>14, <2>1, StoreFields
  <2>4. Shape(p, j) /\ RemindOK(j)
    BY <1>6, <1>10, <1>14, <2>3 DEF Shape, RemindOK, Storings, Sends
  <2>. QED BY <1>1, <1>7, <1>11, <1>14, <2>2, <2>4, OnlyGoesOn
<1>15. CASE k.entry.status \notin {"running", "sending"} /\ ~(k.entry.status = "success" /\ k.pass = "remind")
  <2>1. PICK j : j = IF p = Scheduler THEN Passed(i) ELSE Idle
    OBVIOUS
  <2>2. Becomes(p, j)
    BY <1>1, <1>4, <1>5, <1>11, <1>15, <2>1 DEF StoredNext
  <2>3. Shape(p, j) /\ RemindOK(j)
    BY <1>4, <1>6, <2>1, PassedShaped, IdleShaped
  <2>4. \A r \in Requirements : ~Carries(k, r)
    BY <1>7, <1>8, <1>15 DEF Concludes
  <2>. QED BY <1>1, <1>7, <1>11, <2>2, <2>3, <2>4, OnlyGoesOn
<1>. QED BY <1>2, <1>12, <1>13, <1>14, <1>15

LEMMA StoreFailsKept == ASSUME Inv, PassInv, NEW p \in Processes, StoreFails(p) PROVE PassInv'
<1>1. PICK k \in Jobs : k = job[p] /\ JobSound(k) /\ Shape(p, k) /\ RemindOK(k)
  BY WasShaped
<1>2. k.at \in Storings /\ EntrySound(k) /\ k.pass \in {"bind", "remind"}
  BY <1>1 DEF StoreFails, JobSound, Storings, Jobs
<1>3. /\ Becomes(p, UnstoredNext(p)) /\ UNCHANGED <<config, mailed, again>>
      /\ forgotten' = forgotten \cup {x \in {<<k.r, k.of>>} : Sends(k)}
      /\ dangling' = dangling \cup {r \in {k.r} : k.pass = "bind" /\ (k.entry.last \/ k.entry.status = "running")}
  BY <1>1 DEF StoreFails, Reminder, Sends
<1>4. /\ Unforgotten' \subseteq Unforgotten /\ dangling \subseteq dangling' /\ again' \subseteq forgotten'
      /\ Sending(k) => <<k.r, k.of>> \in forgotten'
  BY <1>3 DEF Unforgotten, PassInv, RemindedOnce, Sending
<1>. DEFINE i == Rested(k)
<1>5. i \in Jobs /\ i.of = k.of /\ i.r = k.r /\ i.pass = k.pass
  BY Nothing DEF Rested, Jobs
<1>. HIDE DEF i
<1>6. ASSUME k.pass = "bind" PROVE PassInv'
  <2>1. CASE Concludes(k.entry) /\ ~k.entry.last
    <3>1. PICK j : j = StoreLast(i, "binds", "failed")
      OBVIOUS
    <3>2. Becomes(p, j)
      BY <1>1, <1>3, <1>5, <1>6, <2>1, <3>1 DEF UnstoredNext, i
    <3>3. j.at = "get" /\ j.entry.kind = "binds" /\ j.r = k.r /\ j.pass = "bind"
      BY <1>5, <1>6, <3>1, StoreFields
    <3>4. Shape(p, j) /\ RemindOK(j)' /\ \A r \in Requirements : Carries(k, r) => Carries(j, r)
      BY <3>3 DEF Shape, RemindOK, Storings, Carries
    <3>. QED BY <1>1, <1>3, <1>4, <3>2, <3>4, GoesOn
  <2>2. CASE ~(Concludes(k.entry) /\ ~k.entry.last)
    <3>1. PICK j : j = Left(p)
      OBVIOUS
    <3>2. Becomes(p, j)
      BY <1>1, <1>3, <1>5, <1>6, <2>2, <3>1 DEF UnstoredNext, i
    <3>3. Shape(p, j) /\ RemindOK(j)
      BY <1>1, <1>6, <3>1, PassedShaped, IdleShaped DEF Left
    <3>4. RemindOK(j)'
      BY <1>4, <3>3, RemindKept
    <3>5. k.entry.last \/ k.entry.status = "running"
      BY <1>1, <1>2, <1>6, <2>2 DEF Concludes, Shape
    <3>6. \A r \in Requirements : Carries(k, r) => r \in dangling'
      BY <1>3, <1>6, <3>5 DEF Carries
    <3>. QED BY <1>1, <1>3, <1>4, <3>2, <3>3, <3>4, <3>6, GoesOn
  <2>. QED BY <2>1, <2>2
<1>7. ASSUME k.pass = "remind" PROVE PassInv'
  <2>1. PICK j : j = UnstoredNext(p)
    OBVIOUS
  <2>2. /\ k.entry.status \in {"success", "not_needed"} => j = Store(i, "reminders", "sending")
        /\ k.entry.status = "sent" => j = StoreLast(i, "reminders", "failed")
        /\ k.entry.status \in {"sending", "failed"} => j = Idle
    BY <1>1, <1>5, <1>7, <2>1 DEF UnstoredNext, i
  <2>3. k.entry.status \in {"success", "not_needed", "sent", "sending", "failed"}
    BY <1>1, <1>2, <1>7 DEF Shape, EntrySound, RemindStatuses
  <2>4. p = Scheduler /\ \A r : ~Carries(k, r)
    BY <1>1, <1>7 DEF Shape, Carries
  <2>5. <<k.r, k.of>> \notin Unforgotten'
    BY <1>1, <1>2, <1>3, <1>4, <1>7 DEF RemindOK, Pending, Unforgotten
  <2>6. CASE j = Idle
    <3>1. Shape(p, j) /\ RemindOK(j)
      BY <2>6, IdleShaped
    <3>2. RemindOK(j)'
      BY <1>4, <3>1, RemindKept
    <3>. QED BY <1>1, <1>3, <1>4, <2>1, <2>4, <3>1, <3>2, GoesOn
  <2>7. CASE j # Idle
    <3>1. j \in {Store(i, "reminders", "sending"), StoreLast(i, "reminders", "failed")}
      BY <2>2, <2>3, <2>7
    <3>2. /\ j.at = "get" /\ j.entry.kind = "reminders" /\ j.entry.status \in {"sending", "failed"}
          /\ j.r = k.r /\ j.of = k.of /\ j.pass = "remind"
      BY <1>5, <1>7, <3>1, StoreFields
    <3>3. Shape(p, j) /\ RemindOK(j)'
      BY <2>4, <2>5, <3>2 DEF Shape, RemindOK, Storings
    <3>. QED BY <1>1, <1>3, <1>4, <2>1, <2>4, <3>3, GoesOn
  <2>. QED BY <2>6, <2>7
<1>. QED BY <1>2, <1>6, <1>7

-----------------------------------------------------------------------------
(* Passes and requests.                                                      *)

(* A pass decides on the next requirement, or is over.                       *)
LEMMA PassesKept ==
    ASSUME Inv, PassInv, NEW k \in Jobs, k = job[Scheduler], k.at \in {"reading", "deciding"},
           NEW i \in Jobs, i.pass = k.pass, Becomes(Scheduler, Passed(i)),
           UNCHANGED <<config, mailed, again, forgotten, dangling>>,
           i.pass = "remind" => \A r \in Requirements : r > i.r => Known(i.task, r)
    PROVE  PassInv'
<1>1. PICK j : j = Passed(i)
  OBVIOUS
<1>2. Shape(Scheduler, j) /\ RemindOK(j)
  BY <1>1, PassedShaped
<1>3. ~Sending(k) /\ \A r : ~Carries(k, r)
  BY DEF Sending, Carries
<1>. QED BY <1>1, <1>2, <1>3, IsScheduler, OnlyGoesOn

LEMMA ReadTaskKept == ASSUME Inv, PassInv, ReadTask PROVE PassInv'
<1>1. PICK k \in Jobs : k = job[Scheduler] /\ JobSound(k) /\ Shape(Scheduler, k) /\ RemindOK(k)
  BY WasShaped, IsScheduler
<1>2. k.at = "reading"
  BY <1>1 DEF ReadTask, At
<1>3. PICK t : t = Task /\ \A r \in Requirements : Known(t, r)
  BY <1>1, <1>2, TaskKnows DEF Sending
<1>. DEFINE j == [k EXCEPT !.at = "deciding", !.task = t]
<1>4. Becomes(Scheduler, j)
  BY <1>1, <1>3 DEF ReadTask
<1>5. j.at = "deciding" /\ j.pass = k.pass /\ j.task = t
  BY DEF Jobs
<1>. HIDE DEF j
<1>6. Shape(Scheduler, j) /\ RemindOK(j)
  BY <1>3, <1>5 DEF Shape, RemindOK, Pending, Storings
<1>7. ~Sending(k) /\ \A r : ~Carries(k, r)
  BY <1>2 DEF Sending, Carries
<1>. QED BY <1>1, <1>4, <1>6, <1>7, IsScheduler, OnlyGoesOn DEF ReadTask, history

LEMMA ReadFailsKept == ASSUME Inv, PassInv, ReadFails PROVE PassInv'
<1>1. PICK k \in Jobs : k = job[Scheduler] /\ k.at = "reading"
  BY WasShaped, IsScheduler DEF ReadFails, At
<1>. DEFINE i == [k EXCEPT !.r = Last]
<1>2. i \in Jobs /\ i.pass = k.pass /\ i.r = Last
  BY Numbers DEF Jobs
<1>3. Becomes(Scheduler, Passed(i)) /\ UNCHANGED <<config, mailed, again, forgotten, dangling>>
  BY <1>1 DEF ReadFails, history
<1>. HIDE DEF i
<1>4. \A r \in Requirements : ~(r > i.r)
  BY <1>2, Numbers DEF Requirements
<1>. QED BY <1>1, <1>2, <1>3, <1>4, PassesKept

LEMMA DecideBindingKept == ASSUME Inv, PassInv, DecideBinding PROVE PassInv'
<1>1. PICK k \in Jobs : k = job[Scheduler] /\ k.at = "deciding" /\ k.pass = "bind"
  BY WasShaped, IsScheduler DEF DecideBinding, At
<1>2. UNCHANGED <<config, mailed, again, forgotten, dangling>>
  BY DEF DecideBinding, history
<1>3. CASE Becomes(Scheduler, Passed(k))
  BY <1>1, <1>2, <1>3, PassesKept
<1>4. CASE Becomes(Scheduler, Begun(k))
  <2>. DEFINE j == Begun(k)
  <2>1. j.at = "get" /\ j.pass = "bind" /\ j.entry.kind = "binds"
    BY <1>1 DEF Begun, Store, Jobs
  <2>. HIDE DEF j
  <2>2. Shape(Scheduler, j) /\ RemindOK(j)
    BY <2>1 DEF Shape, RemindOK, Storings
  <2>3. ~Sending(k) /\ \A r : ~Carries(k, r)
    BY <1>1 DEF Sending, Carries
  <2>. QED BY <1>1, <1>2, <1>4, <2>2, <2>3, IsScheduler, OnlyGoesOn DEF j
<1>. QED BY <1>1, <1>3, <1>4 DEF DecideBinding

LEMMA NoLoginKept == ASSUME Inv, PassInv, NoLogin PROVE PassInv'
<1>1. PICK k \in Jobs : k = job[Scheduler] /\ k.at = "deciding" /\ k.pass = "bind"
  BY WasShaped, IsScheduler DEF NoLogin, At
<1>2. Becomes(Scheduler, Passed(k)) /\ UNCHANGED <<config, mailed, again, forgotten, dangling>>
  BY <1>1 DEF NoLogin, history
<1>. QED BY <1>1, <1>2, PassesKept

LEMMA RetryKept ==
    ASSUME Inv, PassInv, NEW p \in Pages, NEW r \in Requirements, Retry(p, r) PROVE PassInv'
<1>1. p \in Processes
  BY DEF Processes
<1>2. PICK k \in Jobs : k = job[p] /\ k.at = "idle"
  BY <1>1, WasShaped DEF Retry, At
<1>. DEFINE j == Store([Idle EXCEPT !.r = r, !.of = exam[r]], "binds", "running")
<1>3. j.at = "get" /\ j.pass = "bind" /\ j.entry.kind = "binds"
  BY DEF Store, Idle
<1>4. Becomes(p, j) /\ UNCHANGED <<config, mailed, again, forgotten, dangling>>
  BY DEF Retry, history
<1>. HIDE DEF j
<1>5. Shape(p, j) /\ RemindOK(j)
  BY <1>3 DEF Shape, RemindOK, Storings
<1>6. ~Sending(k) /\ \A x : ~Carries(k, x)
  BY <1>2 DEF Sending, Carries
<1>. QED BY <1>1, <1>2, <1>4, <1>5, <1>6, OnlyGoesOn

(* A process at work goes on with the same requirement.                      *)
LEMMA WorksOn ==
    ASSUME Inv, PassInv, NEW p \in Processes, NEW k \in Jobs, k = job[p], Shape(p, k), RemindOK(k),
           k.at \in {"selecting", "posting", "detecting"}, NEW j, Becomes(p, j),
           UNCHANGED <<config, mailed, again, forgotten, dangling>>,
           j.pass = k.pass, j.r = k.r, j.of = k.of,
           \/ j.at \in {"posting", "detecting"} /\ k.pass = "bind"
           \/ j.at = "get" /\ j.entry.kind = "binds" /\ j.entry.status = "success"
           \/ j.at = "get" /\ j.entry.kind = "binds" /\ k.pass = "bind"
           \/ j.at = "get" /\ j.entry.kind = "reminders" /\ j.entry.status = "sending" /\ k.pass # "bind"
    PROVE  PassInv'
<1>1. Shape(p, j) /\ ~Sending(k)
  BY DEF Shape, Storings, Sending
<1>2. RemindOK(j)
  <2>1. k.pass = "remind" => k.at = "detecting"
    BY DEF Shape
  <2>. QED BY <2>1 DEF RemindOK, Pending, Storings
<1>3. \A r \in Requirements : Carries(k, r) => Carries(j, r)
  BY DEF Carries
<1>. QED BY <1>1, <1>2, <1>3, OnlyGoesOn

LEMMA SelectKept == ASSUME Inv, PassInv, NEW p \in Processes, Select(p) PROVE PassInv'
<1>1. PICK k \in Jobs : k = job[p] /\ Shape(p, k) /\ RemindOK(k) /\ k.at = "selecting"
  BY WasShaped DEF Select, At
<1>2. k.pass = "bind" /\ UNCHANGED <<config, mailed, again, forgotten, dangling>>
  BY <1>1 DEF Shape, Select, history
<1>3. PICK j : /\ Becomes(p, j)
               /\ \/ j = StoreLast(k, "binds", "failed")
                  \/ j = [k EXCEPT !.at = "posting", !.left = Courses]
                  \/ j = [k EXCEPT !.at = "detecting"]
  <2>1. CASE k.of.session = NoSession
    BY <1>1, <2>1 DEF Select
  <2>2. CASE k.of.session # NoSession
    BY <1>1, <2>2 DEF Select
  <2>. QED BY <2>1, <2>2
<1>4. CASE j = StoreLast(k, "binds", "failed")
  BY <1>1, <1>2, <1>3, <1>4, StoreFields, WorksOn
<1>5. CASE j = [k EXCEPT !.at = "posting", !.left = Courses] \/ j = [k EXCEPT !.at = "detecting"]
  <2>1. j.at \in {"posting", "detecting"} /\ j.pass = k.pass /\ j.r = k.r /\ j.of = k.of
    BY <1>5 DEF Jobs
  <2>. QED BY <1>1, <1>2, <1>3, <2>1, WorksOn
<1>. QED BY <1>3, <1>4, <1>5

LEMMA DetectedKept ==
    ASSUME Inv, PassInv, NEW p \in Processes, NEW found \in BOOLEAN, At(p, "detecting"), Detected(p, found)
    PROVE  PassInv'
<1>1. PICK k \in Jobs : k = job[p] /\ Shape(p, k) /\ RemindOK(k) /\ k.at = "detecting"
  BY WasShaped DEF At
<1>2. UNCHANGED <<config, mailed, again, forgotten, dangling>>
  BY DEF Detected
<1>3. PICK j : /\ Becomes(p, j)
               /\ \/ j = Store(k, "binds", "success")
                  \/ j = Store(k, "binds", "failed") /\ k.pass = "bind"
                  \/ j = Store(k, "reminders", "sending") /\ k.pass # "bind"
  BY <1>1 DEF Detected
<1>. QED BY <1>1, <1>2, <1>3, StoreFields, WorksOn

LEMMA DetectKept == ASSUME Inv, PassInv, NEW p \in Processes, Detect(p) \/ DetectByCourse(p) PROVE PassInv'
<1>1. \E found \in BOOLEAN : Detected(p, found) /\ At(p, "detecting")
  BY DEF Detect, DetectByCourse, PaperListed, AllBound
<1>. QED BY <1>1, DetectedKept

LEMMA PostKept == ASSUME Inv, PassInv, NEW p \in Processes, NEW c \in Courses, Post(p, c) PROVE PassInv'
<1>1. PICK k \in Jobs : k = job[p] /\ Shape(p, k) /\ RemindOK(k) /\ k.at = "posting"
  BY WasShaped DEF Post, At
<1>2. k.pass = "bind" /\ UNCHANGED <<config, mailed, again, forgotten, dangling>>
  BY <1>1 DEF Shape, Post, history
<1>3. PICK j : j = AfterPost(k, c) /\ Becomes(p, j)
  BY <1>1 DEF Post
<1>4. CASE k.left = {c}
  <2>1. PICK i \in Jobs : i = [k EXCEPT !.left = {}]
    BY DEF Jobs
  <2>2. j = Store(i, "binds", "success") /\ i.pass = k.pass /\ i.r = k.r /\ i.of = k.of
    BY <1>3, <1>4, <2>1 DEF AfterPost, Jobs
  <2>. QED BY <1>1, <1>2, <1>3, <2>2, StoreFields, WorksOn
<1>5. CASE k.left # {c}
  <2>1. j.at = "posting" /\ j.pass = k.pass /\ j.r = k.r /\ j.of = k.of
    BY <1>1, <1>3, <1>5 DEF AfterPost, Jobs
  <2>. QED BY <1>1, <1>2, <1>3, <2>1, WorksOn
<1>. QED BY <1>4, <1>5

LEMMA CallFailsKept == ASSUME Inv, PassInv, NEW p \in Processes, CallFails(p) PROVE PassInv'
<1>1. PICK k \in Jobs : k = job[p] /\ Shape(p, k) /\ RemindOK(k) /\ k.at \in {"selecting", "posting", "detecting"}
  BY WasShaped DEF CallFails
<1>2. UNCHANGED <<config, mailed, again, forgotten, dangling>>
  BY DEF CallFails, history
<1>3. PICK j : j = AfterFailure(k) /\ Becomes(p, j)
  BY <1>1 DEF CallFails
<1>4. CASE k.pass = "bind"
  <2>1. PICK i \in Jobs : i = [k EXCEPT !.left = {}]
    BY DEF Jobs
  <2>2. j = StoreLast(i, "binds", "failed") /\ i.pass = k.pass /\ i.r = k.r /\ i.of = k.of
    BY <1>3, <1>4, <2>1 DEF AfterFailure, Jobs
  <2>. QED BY <1>1, <1>2, <1>3, <1>4, <2>2, StoreFields, WorksOn
<1>5. CASE k.pass # "bind"
  <2>1. j = Store(k, "reminders", "sending")
    BY <1>3, <1>5 DEF AfterFailure
  <2>. QED BY <1>1, <1>2, <1>3, <1>5, <2>1, StoreFields, WorksOn
<1>. QED BY <1>4, <1>5

-----------------------------------------------------------------------------
(* Reminding.                                                                *)

LEMMA DecideReminderKept == ASSUME Inv, PassInv, DecideReminder PROVE PassInv'
<1>1. PICK k \in Jobs : k = job[Scheduler] /\ Shape(Scheduler, k) /\ RemindOK(k) /\ k.at = "deciding" /\ k.pass = "remind"
  BY WasShaped, IsScheduler DEF DecideReminder, At
<1>2. UNCHANGED <<config, mailed, again, forgotten, dangling>>
  BY DEF DecideReminder
<1>3. k.r \in Requirements /\ k.r \in Int /\ \A r \in Requirements : r \in Int
  BY Numbers DEF Jobs, Requirements
<1>4. PICK n : n = k.r
  OBVIOUS
<1>5. \A r \in Requirements : r >= n => Known(k.task, r)
  BY <1>1, <1>4 DEF RemindOK
<1>6. n \in Requirements /\ n \in Int /\ n >= n
  BY <1>3, <1>4
<1>7. CASE ReminderDue(k.task, k.r, k.now)
  <2>. DEFINE j == [k EXCEPT !.at = "detecting", !.of = k.task.exam[k.r], !.task = NoTask]
  <2>1. Becomes(Scheduler, j)
    BY <1>1, <1>7 DEF DecideReminder
  <2>2. j.at = "detecting" /\ j.pass = "remind" /\ j.r = k.r /\ j.of = k.task.exam[k.r]
    BY <1>1 DEF Jobs
  <2>. HIDE DEF j
  <2>3. Known(k.task, k.r) /\ ~AlreadySent(k.task, k.r)
    BY <1>4, <1>5, <1>6, <1>7 DEF ReminderDue
  <2>4. Shape(Scheduler, j) /\ RemindOK(j)
    BY <2>2, <2>3 DEF Shape, RemindOK, Known, Storings
  <2>5. ~Sending(k) /\ \A r : ~Carries(k, r)
    BY <1>1 DEF Sending, Carries
  <2>. QED BY <1>1, <1>2, <2>1, <2>4, <2>5, IsScheduler, OnlyGoesOn
<1>8. CASE ~ReminderDue(k.task, k.r, k.now)
  <2>1. Becomes(Scheduler, Passed(k))
    BY <1>1, <1>8 DEF DecideReminder
  <2>2. \A r \in Requirements : r > k.r => Known(k.task, r)
    BY <1>3, <1>4, <1>5, <1>6
  <2>. QED BY <1>1, <1>2, <2>1, <2>2, PassesKept
<1>. QED BY <1>7, <1>8

(* Only the scheduler reminds.                                               *)
LEMMA OthersBind ==
    ASSUME Inv, PassInv, NEW q \in Processes, q # Scheduler
    PROVE  job[q].pass = "bind" /\ ~Sending(job[q])
<1>1. job[q].pass = "bind"
  BY Fields DEF PassInv, Shape, Jobs
<1>2. Shape(q, job[q])
  BY DEF PassInv
<1>. QED BY <1>1, <1>2 DEF Shape, Sending, Sends, Storings

LEMMA MailKept == ASSUME Inv, PassInv, Mail PROVE PassInv'
<1>1. PICK k \in Jobs : k = job[Scheduler] /\ Shape(Scheduler, k) /\ RemindOK(k) /\ k.at = "mailing" /\ k.pass = "remind"
  BY WasShaped, IsScheduler DEF Mail, At, Shape
<1>. PICK key : key = <<k.r, k.of>>
  OBVIOUS
<1>2. /\ mailed' = mailed \cup {key} /\ again' = again \cup ({key} \cap mailed)
      /\ UNCHANGED <<config, forgotten, dangling>>
  BY <1>1 DEF Mail, Delivers, Reminder
<1>3. PICK j : j = Store(k, "reminders", "sent") /\ Becomes(Scheduler, j)
  BY <1>1 DEF Mail
<1>4. /\ j.at = "get" /\ j.entry.kind = "reminders" /\ j.entry.status = "sent"
      /\ j.r = k.r /\ j.of = k.of /\ j.pass = "remind"
  BY <1>1, <1>3, StoreFields
<1>5. job'[Scheduler] = j /\ \A q \in Processes : q # Scheduler => job'[q] = job[q]
  BY <1>3, Fields, IsScheduler DEF Becomes, Inv, TypeOK
<1>6. RemindedOnce'
  BY <1>1, <1>2 DEF RemindOK, Pending, Unforgotten, PassInv, RemindedOnce
<1>7. ASSUME NEW q \in Processes PROVE (Shape(q, job[q]) /\ RemindOK(job[q]))'
  <2>1. CASE q = Scheduler
    BY <1>4, <1>5, <2>1 DEF Shape, RemindOK, Pending, Sends, Storings
  <2>2. CASE q # Scheduler
    BY <1>5, <2>2, OthersBind DEF PassInv, Shape, RemindOK, Value
  <2>. QED BY <2>1, <2>2
<1>8. RunInv'
  <2>1. \A r : ~Carries(k, r)
    BY <1>1 DEF Carries
  <2>. QED BY <1>1, <1>2, <1>5, <2>1 DEF PassInv, RunInv, Carries
<1>9. SentInv'
  <2>. SUFFICES ASSUME NEW x \in Unforgotten'
                PROVE  \/ config.reminders[x[1]] = [status |-> "sent", of |-> x[2]]
                       \/ \E q \in Processes : Sending(job'[q]) /\ <<job'[q].r, job'[q].of>> = x
    BY <1>2 DEF SentInv, Sending, Sends
  <2>1. CASE x = key
    BY <1>4, <1>5, <2>1, IsScheduler DEF Sending, Sends
  <2>2. CASE x # key
    <3>1. x \in Unforgotten
      BY <1>2, <2>2 DEF Unforgotten
    <3>2. \A q \in Processes : ~Sending(job[q])
      BY <1>1, OthersBind DEF Sending
    <3>. QED BY <3>1, <3>2 DEF PassInv, SentInv
  <2>. QED BY <2>1, <2>2
<1>. QED BY <1>6, <1>7, <1>8, <1>9 DEF PassInv

LEMMA MailFailsKept == ASSUME Inv, PassInv, MailFails PROVE PassInv'
<1>1. PICK k \in Jobs : k = job[Scheduler] /\ Shape(Scheduler, k) /\ RemindOK(k) /\ k.at = "mailing" /\ k.pass = "remind"
  BY WasShaped, IsScheduler DEF MailFails, At, Shape
<1>2. /\ \/ UNCHANGED <<mailed, again, forgotten>>
         \/ /\ mailed' = mailed \cup {<<k.r, k.of>>} /\ again' \subseteq again \cup {<<k.r, k.of>>}
            /\ forgotten' = forgotten \cup {<<k.r, k.of>>}
      /\ UNCHANGED <<config, dangling>>
  BY <1>1 DEF MailFails, Delivers, Reminder
<1>3. Unforgotten' \subseteq Unforgotten /\ again' \subseteq forgotten'
  BY <1>2 DEF Unforgotten, PassInv, RemindedOnce
<1>4. PICK j : j = StoreLast(k, "reminders", "failed") /\ Becomes(Scheduler, j)
  BY <1>1 DEF MailFails
<1>5. /\ j.at = "get" /\ j.entry.kind = "reminders" /\ j.entry.status = "failed"
      /\ j.r = k.r /\ j.of = k.of /\ j.pass = "remind"
  BY <1>1, <1>4, StoreFields
<1>6. Shape(Scheduler, j) /\ RemindOK(j)
  BY <1>1, <1>5 DEF Shape, RemindOK, Pending, Storings
<1>7. RemindOK(j)'
  BY <1>3, <1>6, RemindKept
<1>8. ~Sending(k) /\ \A r : ~Carries(k, r)
  BY <1>1 DEF Sending, Carries
<1>. QED BY <1>1, <1>2, <1>3, <1>4, <1>6, <1>7, <1>8, IsScheduler, GoesOn

-----------------------------------------------------------------------------
(* The clock and the server.                                                 *)

LEMMA TickKept == ASSUME Inv, PassInv, Tick PROVE PassInv'
<1>1. UNCHANGED <<config, mailed, again, forgotten, dangling>>
  BY DEF Tick, history
<1>2. CASE UNCHANGED job
  BY <1>1, <1>2, NobodyMoves
<1>3. CASE job' # job
  <2>. DEFINE j == [Idle EXCEPT !.at = "reading", !.now = clock']
  <2>1. At(Scheduler, "idle") /\ Becomes(Scheduler, j)
    BY <1>3 DEF Tick, Becomes
  <2>2. PICK k \in Jobs : k = job[Scheduler] /\ k.at = "idle"
    BY <2>1, WasShaped, IsScheduler DEF At
  <2>3. PICK i : i = j /\ Becomes(Scheduler, i)
    BY <2>1
  <2>4. i.at = "reading" /\ i.pass = "bind"
    BY <2>3 DEF Idle
  <2>5. Shape(Scheduler, i) /\ RemindOK(i)
    BY <2>4 DEF Shape, RemindOK, Storings
  <2>6. ~Sending(k) /\ \A r : ~Carries(k, r)
    BY <2>2 DEF Sending, Carries
  <2>. QED BY <1>1, <2>2, <2>3, <2>5, <2>6, IsScheduler, OnlyGoesOn
<1>. QED BY <1>2, <1>3

(* What a crash interrupts is on record.                                     *)
LEMMA CrashKept == ASSUME Inv, PassInv, Crash PROVE PassInv'
<1>1. \A q \in Processes : job'[q] = Idle
  BY DEF Crash
<1>2. /\ UNCHANGED <<config, mailed, again>>
      /\ forgotten' = forgotten \cup {<<job[q].r, job[q].of>> : q \in {p \in Processes : Sends(job[p])}}
      /\ dangling' = dangling \cup {job[q].r : q \in {p \in Processes : InRun(p)}}
  BY DEF Crash, Reminder, Sends
<1>3. ASSUME NEW q \in Processes PROVE (Shape(q, job[q]) /\ RemindOK(job[q]))'
  BY <1>1, IdleShaped DEF Idle, Shape, RemindOK, Storings
<1>4. RunInv'
  <2>1. \A q \in Processes, r \in Requirements : Carries(job[q], r) => r \in dangling'
    BY <1>2 DEF Carries, InRun
  <2>. QED BY <1>2, <2>1 DEF PassInv, RunInv
<1>5. SentInv'
  <2>1. \A q \in Processes : Sending(job[q]) => <<job[q].r, job[q].of>> \in forgotten'
    BY <1>2 DEF Sending
  <2>2. Unforgotten' \subseteq Unforgotten /\ \A x \in Unforgotten' : x \notin forgotten'
    BY <1>2 DEF Unforgotten
  <2>3. \A x \in Unforgotten' : config.reminders[x[1]] = [status |-> "sent", of |-> x[2]]
    BY <2>1, <2>2 DEF PassInv, SentInv
  <2>. QED BY <1>2, <2>3 DEF SentInv
<1>6. RemindedOnce'
  BY <1>2 DEF PassInv, RemindedOnce
<1>. QED BY <1>3, <1>4, <1>5, <1>6 DEF PassInv

LEMMA PassInit == ASSUME Init PROVE PassInv
<1>1. \A p \in Processes : job[p] = Idle
  BY DEF Init
<1>2. \A p \in Processes : Shape(p, job[p]) /\ RemindOK(job[p])
  BY <1>1, IdleShaped
<1>3. RunInv
  BY DEF Init, RunInv, NoConfig
<1>4. SentInv /\ RemindedOnce
  BY DEF Init, SentInv, Unforgotten, RemindedOnce
<1>. QED BY <1>2, <1>3, <1>4 DEF PassInv

LEMMA PassNext == ASSUME Inv, PassInv, [Next]_vars PROVE PassInv'
<1>1. ASSUME NEW p \in Processes, Storing(p) PROVE PassInv'
  BY <1>1, StoreGetKept, StoreMergeKept, StoreWriteKept, StoreReturnKept, StoreFailsKept, Zenon DEF Storing
<1>2. ASSUME NEW p \in Processes, Binding(p) PROVE PassInv'
  BY <1>2, SelectKept, DetectKept, CallFailsKept, PostKept, Zenon DEF Binding
<1>3. ASSUME Scheduling PROVE PassInv'
  BY <1>3, ReadTaskKept, ReadFailsKept, DecideBindingKept, NoLoginKept, DecideReminderKept, MailKept,
     MailFailsKept, Zenon DEF Scheduling
<1>4. ASSUME NEW c \in Courses, Offer(c) PROVE PassInv'
  BY <1>4, NobodyMoves DEF Offer, server, history
<1>5. ASSUME NEW r \in Requirements, NEW c \in Courses, BindByHand(r, c) PROVE PassInv'
  BY <1>5, NobodyMoves DEF BindByHand, server, history
<1>6. ASSUME NEW r \in Requirements, NewSession(r) PROVE PassInv'
  BY <1>6, NobodyMoves DEF NewSession, server, history
<1>7. ASSUME NEW r \in Requirements, NEW s \in Starts, PutOff(r, s) PROVE PassInv'
  BY <1>7, NobodyMoves DEF PutOff, server, history
<1>8. CASE Restart
  BY <1>8, NobodyMoves DEF Restart, history
<1>9. CASE UNCHANGED vars
  BY <1>9, NobodyMoves DEF vars, server, history
<1>. QED
  BY <1>1, <1>2, <1>3, <1>4, <1>5, <1>6, <1>7, <1>8, <1>9, RetryKept, TickKept, CrashKept, Zenon DEF Next

LEMMA PassHolds == Spec => []PassInv
<1>1. Init => Inv /\ PassInv
  BY InitSound, PassInit
<1>2. (Inv /\ PassInv) /\ [Next]_vars => (Inv /\ PassInv)'
  BY NextSound, PassNext
<1>. QED BY <1>1, <1>2, PTL DEF Spec

(* A reminder is mailed once, unless its "sent" was never stored or was      *)
(* written over: what reached its readers is in the configuration, or on the *)
(* way there, and every task a pass decides on tells of it.                  *)
THEOREM RemindedOnceHolds == Spec => []RemindedOnce
<1>1. PassInv => RemindedOnce
  BY DEF PassInv
<1>. QED BY <1>1, PassHolds, PTL

(* A binding stored as running is being carried out, unless a process ended  *)
(* without storing its end or was written over.                              *)
THEOREM RunningIsRunHolds == Spec => []RunningIsRun
<1>1. PassInv => RunningIsRun
  BY DEF PassInv, RunInv, Carries, RunningIsRun, InRun
<1>. QED BY <1>1, PassHolds, PTL
=============================================================================
