------------------------ MODULE ExamProvisionProofs ------------------------
(***************************************************************************)
(* What holds of an exam's sessions and of the task's record of them, for  *)
(* any number of requests and any budgets: every session on the platform   *)
(* is one the record names, unless a request that overlapped another one   *)
(* or failed on the way left it; the record's log keeps every change; the  *)
(* record shows what the platform has, while nobody works on it; what it   *)
(* calls bound is bound to the session that it names; and no course of the *)
(* project is created twice.                                               *)
(* The invariant says of each request what it holds and what it read, and  *)
(* that requests which work on the same thing are on record in "crossed"   *)
(* and, as far as they may garble the record, "unsure" and "uncounted".    *)
(***************************************************************************)
EXTENDS ExamProvision, FiniteSetTheorems, FunctionTheorems, WellFoundedInduction, TLAPS

(* What a request goes through, by what it was asked for.                    *)
Steps ==
    [none   |-> {"idle"},
     create |-> {"pinning", "pinned", "marking", "posting", "configuring", "recording", "made", "known", "listing",
                 "creating", "persisting", "created", "toBind", "binding", "bound"},
     bind   |-> {"toBind", "binding", "bound"},
     change |-> {"looking", "putting", "refusing", "saving", "logging"},
     sync   |-> {"looking", "syncing", "logging"},
     course |-> {"snapshots", "toRename", "renaming", "storing", "logging", "refusing"},
     import |-> {"detail", "personal", "entering", "reading", "saving"},
     rooms  |-> {"counting", "clearing", "arranging", "saving"},
     open   |-> {"visiting", "refreshing"},
     delete |-> {"deleting", "dropping"}]

IsRow(r) == r = [id |-> r.id, value |-> r.value, entries |-> r.entries, rooms |-> r.rooms]
AreRows(rs) == rs = [k \in Kinds |-> rs[k]] /\ \A k \in Kinds : IsRow(rs[k])

Formed(j) ==
    j = [op |-> j.op, at |-> j.at, kind |-> j.kind, id |-> j.id, of |-> j.of, rows |-> j.rows,
         seen |-> j.seen, to |-> j.to, courses |-> j.courses, held |-> j.held, todo |-> j.todo,
         log |-> j.log, number |-> j.number, alone |-> j.alone]
Shaped(j) ==
    /\ Formed(j) /\ j.op \in DOMAIN Steps /\ j.at \in Steps[j.op] /\ j.kind \in Kinds
    /\ AreRows(j.rows) /\ IsRow(j.seen)

IsSession(x) ==
    /\ x = [kind |-> x.kind, value |-> x.value, entries |-> x.entries, rooms |-> x.rooms,
            there |-> x.there, bound |-> x.bound]
    /\ x.kind \in Kinds

(* The sessions of the platform are numbered; a row names one of its kind.   *)
Listed == Len(sessions) \in Nat /\ sessions = [s \in 1..Len(sessions) |-> sessions[s]]
IsOf(s, k) == s \in DOMAIN sessions /\ sessions[s].kind = k
RowsOf(rs) == \A k \in Kinds : rs[k].id # NoSession => IsOf(rs[k].id, k)
World ==
    /\ Listed /\ \A s \in DOMAIN sessions : IsSession(sessions[s])
    /\ AreRows(rows) /\ RowsOf(rows) /\ job = [p \in Requests |-> job[p]]

(* Two requests that work on the same thing are on record, and so is one     *)
(* that still works when its task was deleted.                               *)
Sole == \A p, q \in Requests : p # q => Touches(job[p]) \cap Touches(job[q]) \subseteq crossed
Gone == ~there => \A p \in Requests : Touches(job[p]) \subseteq crossed

(* The session in the hands of a creation is the latest of its kind.         *)
InWork(j) == j.at \in {"configuring", "recording"}
HandOK(j) ==
    InWork(j) => /\ IsOf(j.id, j.kind)
                 /\ j.kind \notin crossed => \A t \in DOMAIN sessions : sessions[t].kind = j.kind => t <= j.id

(* A request that writes back a row has read the row of the same session.    *)
Rewrites == {"change", "sync", "import", "rooms", "open"}
ReadOK(j) == j.op \in Rewrites => \A k \in (Touches(j) \cap Kinds) \ crossed : j.rows[k].id = rows[k].id

(* A deletion has deleted, or has still to delete, what the task records.    *)
DeleteOK(j) ==
    j.op = "delete" =>
      /\ j.at = "dropping" => j.todo = {}
      /\ \A k \in Kinds \ crossed :
            rows[k].id # NoSession /\ sessions[rows[k].id].there => rows[k].id \in j.todo

(* The log a request will write from has every change that counts.           *)
LogOK(j) == there /\ Writes(j) /\ (j.op = "sync" => j.at = "logging") => done \ overtaken \subseteq j.log

JobOK(j) == Shaped(j) /\ RowsOf(j.rows) /\ HandOK(j) /\ ReadOK(j) /\ DeleteOK(j) /\ LogOK(j)
Inv ==
    /\ World /\ Sole /\ Gone /\ (\A p \in Requests : JobOK(job[p]))
    /\ SessionsAccountedFor /\ HistoryKept

-----------------------------------------------------------------------------
(* The parts of the state.                                                   *)

LEMMA Lists ==
    ASSUME NEW f, NEW n \in Nat, f = [i \in 1..n |-> f[i]], NEW e
    PROVE  /\ Len(f) = n
           /\ Append(f, e) = [i \in 1..(n + 1) |-> IF i = n + 1 THEN e ELSE f[i]]
<1>. DEFINE T == {f[i] : i \in 1..n} \cup {e}
<1>1. f \in Seq(T)
  <2>1. \A i \in 1..n : f[i] \in T
    OBVIOUS
  <2>. HIDE DEF T
  <2>2. f \in [1..n -> T]
    BY <2>1
  <2>. QED BY <2>2
<1>2. DOMAIN f = 1..n /\ e \in T
  OBVIOUS
<1>. HIDE DEF T
<1>3. Len(f) = n
  BY <1>1, <1>2
<1>. QED BY <1>1, <1>2, <1>3

LEMMA TouchesIs ==
    ASSUME NEW j, j.op \in DOMAIN Steps, j.kind \in Kinds
    PROVE  /\ Touches(j) \subseteq Things
           /\ j.op \in {"create", "delete"} => Touches(j) = Things
           /\ j.op = "none" => Touches(j) = {}
           /\ j.op \in {"change", "sync", "import", "rooms"} => j.kind \in Touches(j)
           /\ j.op = "open" => Touches(j) = Kinds
BY DEF Steps, Touches, Things, Kinds

(* Who has a session in hand creates.                                        *)
LEMMA CreatesIs ==
    ASSUME NEW j, Shaped(j), InWork(j)
    PROVE  j.op = "create" /\ j.kind \in Touches(j) /\ Touches(j) = Things
<1>1. j.op = "create"
  BY DEF Shaped, Formed, Steps, InWork
<1>. QED BY <1>1, TouchesIs DEF Shaped, Formed, Things

LEMMA IdleIs ==
    /\ Shaped(NoJob) /\ Touches(NoJob) = {} /\ ~InWork(NoJob) /\ ~Writes(NoJob)
    /\ JobOK(NoJob) /\ JobOK(NoJob)'
<1>1. Shaped(NoJob)
  BY DEF Shaped, Formed, NoJob, Steps, Kinds, AreRows, IsRow, NoRows, NoRow
<1>2. NoJob.op = "none" /\ NoJob.at = "idle" /\ NoJob.rows = NoRows /\ NoJob.kind \in Kinds
  BY DEF NoJob, Kinds
<1>3. RowsOf(NoRows) /\ RowsOf(NoRows)'
  BY DEF RowsOf, NoRows, NoRow
<1>4. Touches(NoJob) = {} /\ ~InWork(NoJob) /\ ~Writes(NoJob)
  BY <1>2, TouchesIs DEF Steps, InWork, Writes
<1>5. HandOK(NoJob) /\ HandOK(NoJob)' /\ LogOK(NoJob) /\ LogOK(NoJob)'
  BY <1>4 DEF HandOK, LogOK, InWork, Writes
<1>6. ReadOK(NoJob) /\ ReadOK(NoJob)' /\ DeleteOK(NoJob) /\ DeleteOK(NoJob)'
  BY <1>2 DEF ReadOK, DeleteOK, Rewrites
<1>7. Shaped(NoJob)'
  BY <1>1 DEF Shaped, Formed, AreRows, IsRow
<1>. QED BY <1>1, <1>2, <1>3, <1>4, <1>5, <1>6, <1>7 DEF JobOK

(* Whether it is alone changes nothing else of a request.                    *)
LEMMA AloneIs ==
    ASSUME NEW i, Shaped(i), NEW b
    PROVE  LET j == [i EXCEPT !.alone = b] IN
           /\ Shaped(j) /\ Touches(j) = Touches(i) /\ Writes(j) = Writes(i) /\ InWork(j) = InWork(i)
           /\ j.op = i.op /\ j.at = i.at /\ j.kind = i.kind /\ j.id = i.id /\ j.rows = i.rows
           /\ j.log = i.log /\ j.todo = i.todo
<1>. DEFINE j == [i EXCEPT !.alone = b]
<1>1. /\ j.op = i.op /\ j.at = i.at /\ j.kind = i.kind /\ j.id = i.id /\ j.rows = i.rows
      /\ j.log = i.log /\ j.todo = i.todo /\ Shaped(j)
  BY DEF Shaped, Formed
<1>. QED BY <1>1 DEF Touches, Writes, InWork

LEMMA InHandIs == \A p, s : s \in InHand(p) <=> InWork(job[p]) /\ s = job[p].id
BY DEF InHand, InWork

(* What another request holds, after a step that changes sessions and rows   *)
(* of T only, where T is what the request that steps works on.               *)
Beside(T) ==
    /\ DOMAIN sessions \subseteq DOMAIN sessions' /\ crossed \subseteq crossed'
    /\ \A s \in DOMAIN sessions : /\ sessions'[s].kind = sessions[s].kind
                                  /\ sessions'[s].there => sessions[s].there
    /\ \A s \in DOMAIN sessions' \ DOMAIN sessions : sessions'[s].kind \in T
    /\ \A k \in Kinds \ crossed' : k \in T \/ rows'[k].id = rows[k].id
    /\ there' => there

LEMMA OtherKept ==
    ASSUME World, NEW i, JobOK(i), NEW T, Beside(T), Touches(i) \cap T \subseteq crossed',
           there' /\ Writes(i) => done' \ overtaken' \subseteq done \ overtaken
    PROVE  JobOK(i)'
<1>1. \A s, k : IsOf(s, k) => IsOf(s, k)'
  BY DEF Beside, IsOf
<1>2. RowsOf(i.rows)'
  BY <1>1 DEF JobOK, RowsOf
<1>3. HandOK(i)'
  <2>. SUFFICES ASSUME InWork(i) PROVE HandOK(i)'
    BY DEF HandOK, InWork
  <2>1. i.op = "create" /\ i.kind \in Touches(i)
    BY CreatesIs DEF JobOK
  <2>2. IsOf(i.id, i.kind)'
    BY <1>1 DEF JobOK, HandOK
  <2>3. ASSUME i.kind \notin crossed', NEW t \in DOMAIN sessions', sessions'[t].kind = i.kind
        PROVE  t <= i.id
    BY <2>1, <2>3 DEF Beside, JobOK, HandOK
  <2>. QED BY <2>2, <2>3 DEF HandOK
<1>4. ReadOK(i)'
  BY DEF JobOK, ReadOK, Beside
<1>5. DeleteOK(i)'
  <2>. SUFFICES ASSUME i.op = "delete" PROVE DeleteOK(i)'
    BY DEF DeleteOK
  <2>1. Touches(i) = Things
    BY TouchesIs DEF JobOK, Shaped, Formed
  <2>2. \A k \in Kinds \ crossed' : rows'[k].id = rows[k].id
    BY <2>1 DEF Beside, Things
  <2>3. ASSUME NEW k \in Kinds \ crossed', rows'[k].id # NoSession, sessions'[rows'[k].id].there
        PROVE  rows'[k].id \in i.todo
    BY <2>2, <2>3 DEF World, RowsOf, IsOf, Beside, JobOK, DeleteOK
  <2>. QED BY <2>3 DEF DeleteOK, JobOK
<1>6. LogOK(i)'
  BY DEF JobOK, LogOK, Beside, Writes
<1>. QED BY <1>2, <1>3, <1>4, <1>5, <1>6 DEF JobOK, Shaped, Formed

(* A step of one request: what it still works on it worked on before, what   *)
(* it does to sessions and rows is of that, a session that it lets go is     *)
(* recorded or on record, and so is one that is displaced in the record.     *)
LEMMA Moves ==
    ASSUME Inv, NEW p \in Requests, NEW k, k = job[p], NEW j, Becomes(p, j),
           World', Beside(Touches(k)), there' = there, crossed' = crossed, cut \subseteq cut',
           Touches(j) \subseteq Touches(k), JobOK(j)', HistoryKept',
           \A q \in Requests \ {p} : Writes(job[q]) => done' \ overtaken' \subseteq done \ overtaken,
           \A m \in Kinds \ crossed : rows'[m].id # rows[m].id =>
               \A t \in DOMAIN sessions : sessions[t].kind = m => t <= rows'[m].id,
           \A s \in DOMAIN sessions' \ DOMAIN sessions :
               /\ \A t \in DOMAIN sessions : s > t
               /\ s \in cut' \/ (InWork(j) /\ j.id = s),
           InWork(k) => \/ InWork(j) /\ j.id = k.id
                        \/ k.id \in cut' \/ k.kind \in crossed
                        \/ there /\ rows'[k.kind].id = k.id
    PROVE  Inv'
<1>1. job'[p] = j /\ \A q \in Requests : q # p => job'[q] = job[q]
  BY DEF Inv, World, Becomes
<1>2. ASSUME NEW q \in Requests PROVE JobOK(job[q])'
  <2>1. CASE q = p
    BY <1>1, <2>1 DEF JobOK, Shaped, Formed, RowsOf, HandOK, ReadOK, DeleteOK, LogOK, Touches, InWork, Writes, IsOf
  <2>2. CASE q # p
    <3>1. PICK i : i = job[q]
      OBVIOUS
    <3>2. JobOK(i) /\ Touches(i) \cap Touches(k) \subseteq crossed
      BY <2>2, <3>1 DEF Inv, Sole
    <3>3. JobOK(i)'
      BY <2>2, <3>1, <3>2, OtherKept DEF Inv
    <3>. QED BY <1>1, <2>2, <3>1, <3>3 DEF JobOK, Shaped, Formed, RowsOf, HandOK, ReadOK, DeleteOK, LogOK, Touches, InWork, Writes, IsOf
  <2>. QED BY <2>1, <2>2
<1>3. Sole'
  BY <1>1 DEF Inv, Sole, Touches
<1>4. Gone'
  BY <1>1 DEF Inv, Gone, Touches
<1>5. SessionsAccountedFor'
  <2>. SUFFICES ASSUME NEW s \in DOMAIN sessions', sessions'[s].there, s \notin cut', sessions'[s].kind \notin crossed,
                       \A t \in DOMAIN sessions' : ~(t > s /\ sessions'[t].kind = sessions'[s].kind)
                PROVE  \/ there /\ \E m \in Kinds : rows'[m].id = s
                       \/ \E q \in Requests : InWork(job'[q]) /\ s = job'[q].id
    BY DEF SessionsAccountedFor, Accounted, InHand, InWork
  <2>1. CASE s \notin DOMAIN sessions
    BY <1>1, <2>1
  <2>2. CASE s \in DOMAIN sessions
    <3>1. /\ sessions[s].there /\ s \notin cut /\ sessions[s].kind \notin crossed
          /\ sessions[s].kind = sessions'[s].kind /\ sessions[s].kind \in Kinds
          /\ \A t \in DOMAIN sessions : ~(t > s /\ sessions[t].kind = sessions[s].kind)
      BY <2>2 DEF Beside, Inv, World, IsSession
    <3>2. Accounted(s)
      BY <2>2, <3>1 DEF Inv, SessionsAccountedFor
    <3>3. ASSUME there, NEW m \in Kinds, rows[m].id = s PROVE rows'[m].id = s
      <4>1. s # NoSession /\ sessions[s].kind = m
        BY <2>2, <3>3 DEF Inv, World, Listed, RowsOf, IsOf, NoSession
      <4>2. rows'[m].id # rows[m].id => s <= rows'[m].id
        BY <2>2, <3>1, <4>1
      <4>3. rows'[m].id # NoSession =>
              rows'[m].id \in DOMAIN sessions' /\ sessions'[rows'[m].id].kind = m
        BY DEF World, RowsOf, IsOf
      <4>4. s \in Nat /\ s # 0 /\ DOMAIN sessions' \subseteq Nat
        BY <2>2 DEF Inv, World, Listed
      <4>. QED BY <3>1, <3>3, <4>1, <4>2, <4>3, <4>4 DEF NoSession
    <3>4. ASSUME NEW q \in Requests, s \in InHand(q)
          PROVE  \/ there /\ \E m \in Kinds : rows'[m].id = s
                 \/ InWork(job'[q]) /\ s = job'[q].id
      <4>1. InWork(job[q]) /\ s = job[q].id
        BY <3>4, InHandIs
      <4>2. k.kind \in Kinds /\ (q = p => k.kind = sessions[s].kind)
        BY <4>1 DEF Inv, JobOK, Shaped, Formed, HandOK, IsOf
      <4>. QED BY <1>1, <3>1, <4>1, <4>2
    <3>. QED BY <3>2, <3>3, <3>4 DEF Accounted
  <2>. QED BY <2>1, <2>2
<1>. QED BY <1>2, <1>3, <1>4, <1>5 DEF Inv

(* The sessions keep their kinds, and none comes back.                       *)
Steady ==
    /\ Listed' /\ DOMAIN sessions' = DOMAIN sessions
    /\ \A s \in DOMAIN sessions : /\ IsSession(sessions'[s]) /\ sessions'[s].kind = sessions[s].kind
                                  /\ sessions'[s].there => sessions[s].there

LEMMA SameSteady == ASSUME World, UNCHANGED sessions PROVE Steady
BY DEF World, Steady, Listed

LEMMA PutSteady ==
    ASSUME World, NEW s, NEW v, NEW f \in {"value", "entries", "rooms", "bound", "there"}, Put(s, f, v),
           f = "there" => ~v
    PROVE  Steady
<1>1. PICK n \in Nat : sessions = [t \in 1..n |-> sessions[t]] /\ n = Len(sessions)
  BY DEF World, Listed
<1>2. sessions' = [t \in 1..n |-> sessions'[t]]
  BY <1>1 DEF Put
<1>3. Len(sessions') = n
  BY <1>2, Lists
<1>4. Listed'
  BY <1>2, <1>3 DEF Listed
<1>5. \A t \in DOMAIN sessions : sessions'[t] = IF t = s THEN [sessions[t] EXCEPT ![f] = v] ELSE sessions[t]
  BY DEF Put
<1>6. DOMAIN sessions' = DOMAIN sessions
  BY <1>1, <1>2
<1>7. ASSUME NEW t \in DOMAIN sessions
      PROVE  /\ IsSession(sessions'[t]) /\ sessions'[t].kind = sessions[t].kind
             /\ sessions'[t].there => sessions[t].there
  <2>1. IsSession(sessions[t])
    BY DEF World
  <2>2. PICK x : x = sessions[t]
    OBVIOUS
  <2>3. CASE t = s
    <3>1. PICK y : y = [x EXCEPT ![f] = v]
      OBVIOUS
    <3>2. IsSession(y) /\ y.kind = x.kind /\ (y.there => x.there)
      BY <2>1, <2>2, <3>1 DEF IsSession
    <3>. QED BY <1>5, <2>2, <2>3, <3>1, <3>2
  <2>. QED BY <1>5, <2>1, <2>3
<1>. QED BY <1>4, <1>6, <1>7 DEF Steady

LEMMA SteadyWorld ==
    ASSUME World, Steady, AreRows(rows'), RowsOf(rows'), NEW p, NEW j, Becomes(p, j)
    PROVE  World'
<1>1. job' = [q \in Requests |-> job'[q]]
  BY DEF World, Becomes
<1>2. RowsOf(rows)'
  BY DEF RowsOf, IsOf, Steady
<1>. QED BY <1>1, <1>2 DEF World, Steady, AreRows, IsRow, IsSession

(* What a request goes on with that changes nothing these invariants speak   *)
(* of.                                                                       *)
Follows(k, j) ==
    /\ Shaped(j) /\ j.op = k.op /\ j.rows = k.rows /\ j.log = k.log
    /\ j.kind = k.kind \/ j.op \in {"create", "open"}
    /\ InWork(j) => InWork(k) /\ j.id = k.id /\ j.kind = k.kind
    /\ k.op = "delete" => j.at = k.at /\ j.todo = k.todo
    /\ j.op = "sync" /\ j.at = "logging" => k.at = "logging"

LEMMA FollowsOK ==
    ASSUME NEW k, JobOK(k), NEW j, Follows(k, j) \/ j = NoJob
    PROVE  JobOK(j) /\ Touches(j) \subseteq Touches(k)
<1>1. CASE j = NoJob
  BY <1>1, IdleIs
<1>2. CASE Follows(k, j)
  <2>1. Touches(j) = Touches(k) /\ Writes(j) = Writes(k)
    BY <1>2 DEF Follows, Touches, Writes
  <2>. QED BY <1>2, <2>1 DEF Follows, JobOK, HandOK, ReadOK, DeleteOK, LogOK
<1>. QED BY <1>1, <1>2

Apart == <<rows, there, crossed, done, overtaken, history>>

LEMMA FollowsKept ==
    ASSUME Inv, NEW p \in Requests, NEW k, k = job[p], NEW j, Becomes(p, j), Follows(k, j) \/ j = NoJob,
           Steady, UNCHANGED Apart, cut \subseteq cut', InWork(k) => InWork(j) \/ k.id \in cut'
    PROVE  Inv'
<1>1. JobOK(k)
  BY DEF Inv
<1>2. JobOK(j) /\ Touches(j) \subseteq Touches(k)
  BY <1>1, FollowsOK
<1>3. World'
  BY SteadyWorld DEF Inv, World, Apart
<1>4. \A T : Beside(T)
  BY DEF Beside, Steady, Apart
<1>5. JobOK(j)'
  BY <1>2, <1>4, OtherKept DEF Inv, Apart
<1>6. HistoryKept'
  BY DEF Inv, HistoryKept, Apart
<1>7. InWork(k) /\ InWork(j) => j.id = k.id
  BY IdleIs DEF Follows
<1>8. DOMAIN sessions' = DOMAIN sessions
  BY DEF Steady
<1>. QED BY <1>2, <1>3, <1>4, <1>5, <1>6, <1>7, <1>8, Moves DEF Apart

-----------------------------------------------------------------------------
(* Steps that leave alone what these invariants speak of.                    *)

LEMMA JobIs == ASSUME Inv, NEW p \in Requests PROVE \E k : k = job[p] /\ JobOK(k) /\ Shaped(k)
BY DEF Inv, JobOK

(* What a request was asked for, by the place where it is.                   *)
LEMMA OpAt ==
    ASSUME NEW k, Shaped(k)
    PROVE  /\ k.at \in {"pinning", "pinned", "marking", "posting", "configuring", "recording", "made", "known",
                        "listing", "creating", "persisting", "created"} => k.op = "create"
           /\ k.at \in {"toBind", "binding", "bound"} => k.op \in {"create", "bind"}
           /\ k.at \in {"snapshots", "toRename", "renaming", "storing"} => k.op = "course"
           /\ k.at = "looking" => k.op \in {"change", "sync"}
           /\ k.at = "putting" => k.op = "change"
           /\ k.at = "refusing" => k.op \in {"change", "course"}
           /\ k.at = "syncing" => k.op = "sync"
           /\ k.at = "saving" => k.op \in {"change", "import", "rooms"}
           /\ k.at = "logging" => k.op \in {"change", "sync", "course"}
           /\ k.at \in {"detail", "personal", "entering", "reading"} => k.op = "import"
           /\ k.at \in {"counting", "clearing", "arranging"} => k.op = "rooms"
           /\ k.at \in {"visiting", "refreshing"} => k.op = "open"
           /\ k.at \in {"deleting", "dropping"} => k.op = "delete"
           /\ k.at = "idle" => k.op = "none"
BY DEF Shaped, Steps

(* It goes on to another place of the same request.                          *)
Shifted(k, j) ==
    /\ Formed(j) /\ j.op = k.op /\ j.rows = k.rows /\ j.log = k.log /\ (j.alone => k.alone)
    /\ j.kind \in Kinds /\ IsRow(j.seen) /\ (j.kind = k.kind \/ k.op \in {"create", "open"})
    /\ InWork(j) => InWork(k) /\ j.id = k.id /\ j.kind = k.kind
    /\ j.at \in Steps[k.op] /\ (j.at = "logging" => k.op # "sync")

(* It stays with its session and with what it has read of it.                *)
Alike(k, j) ==
    /\ Formed(j) /\ j.op = k.op /\ j.rows = k.rows /\ j.log = k.log /\ j.alone = k.alone
    /\ j.kind = k.kind /\ j.id = k.id /\ j.to = k.to

LEMMA AlikeShifted ==
    ASSUME NEW k, Shaped(k), NEW j, Alike(k, j), IsRow(j.seen), j.at \in Steps[k.op],
           j.at = "logging" => k.op # "sync", InWork(j) => InWork(k)
    PROVE  Shifted(k, j)
BY DEF Shaped, Alike, Shifted

LEMMA Shifting ==
    ASSUME NEW k, Shaped(k), NEW j, Shifted(k, j), k.op # "delete"
    PROVE  Follows(k, j)
BY DEF Shaped, Shifted, Follows

(* A request goes on so, or ends, and the record stays.                      *)
Quiet(p) ==
    \E j : /\ Becomes(p, j) /\ ((Shifted(job[p], j) /\ job[p].op # "delete") \/ j = NoJob)
           /\ InWork(job[p]) => InWork(j) \/ job[p].id \in cut'
           /\ Steady /\ UNCHANGED Apart /\ cut \subseteq cut'

LEMMA QuietIs ==
    ASSUME NEW p \in Requests, NEW k, k = job[p], NEW j, Becomes(p, j),
           (Shifted(k, j) /\ k.op # "delete") \/ j = NoJob,
           Steady, UNCHANGED Apart, cut \subseteq cut', InWork(k) => InWork(j) \/ k.id \in cut'
    PROVE  Quiet(p)
BY DEF Quiet

LEMMA QuietKept == ASSUME Inv, NEW p \in Requests, Quiet(p) PROVE Inv'
<1>1. PICK k : k = job[p] /\ Shaped(k)
  BY JobIs
<1>. QED BY <1>1, Shifting, FollowsKept DEF Quiet

LEMMA CreationQuiet ==
    ASSUME Inv, NEW p \in Requests,
           PinRead(p) \/ PinWrite(p) \/ Mark(p) \/ Configure(p) \/ Made(p) \/ Known(p) \/ Persist(p) \/ CoursesDone(p)
    PROVE  Quiet(p)
<1>1. PICK k : k = job[p] /\ Shaped(k)
  BY JobIs
<1>2. UNCHANGED <<sessions, Apart>> /\ cut \subseteq cut'
  BY DEF PinRead, PinWrite, Mark, Configure, Made, Known, Persist, CoursesDone, platform, task, ghosts, Apart
<1>3. k.op = "create"
  BY <1>1, OpAt DEF PinRead, PinWrite, Mark, Configure, Made, Known, Persist, CoursesDone, Write, At
<1>4. PICK j : Becomes(p, j) /\ Shifted(k, j) /\ (InWork(k) => InWork(j))
  <2>1. CASE PinRead(p)
    <3>1. PICK j : j = [k EXCEPT !.at = "pinned", !.held = courses] /\ Becomes(p, j) /\ k.at = "pinning"
      BY <1>1, <2>1 DEF PinRead, Write, At
    <3>2. Alike(k, j) /\ j.at = "pinned" /\ IsRow(j.seen)
      BY <1>1, <3>1 DEF Shaped, Formed, Alike
    <3>3. j.at \in Steps[k.op] /\ (InWork(k) <=> InWork(j))
      BY <1>3, <3>1, <3>2 DEF InWork, Steps
    <3>. QED BY <1>1, <3>1, <3>2, <3>3, AlikeShifted
  <2>2. CASE PinWrite(p)
    <3>1. PICK j : j = [k EXCEPT !.at = "marking", !.held = {}] /\ Becomes(p, j) /\ k.at = "pinned"
      BY <1>1, <2>2 DEF PinWrite, Write, At
    <3>2. Alike(k, j) /\ j.at = "marking" /\ IsRow(j.seen)
      BY <1>1, <3>1 DEF Shaped, Formed, Alike
    <3>3. j.at \in Steps[k.op] /\ (InWork(k) <=> InWork(j))
      BY <1>3, <3>1, <3>2 DEF InWork, Steps
    <3>. QED BY <1>1, <3>1, <3>2, <3>3, AlikeShifted
  <2>3. CASE Mark(p)
    <3>1. PICK j : j = [k EXCEPT !.at = "posting"] /\ Becomes(p, j) /\ k.at = "marking"
      BY <1>1, <2>3 DEF Mark, Write, At, Goes
    <3>2. Alike(k, j) /\ j.at = "posting" /\ IsRow(j.seen)
      BY <1>1, <3>1 DEF Shaped, Formed, Alike
    <3>3. j.at \in Steps[k.op] /\ (InWork(k) <=> InWork(j))
      BY <1>3, <3>1, <3>2 DEF InWork, Steps
    <3>. QED BY <1>1, <3>1, <3>2, <3>3, AlikeShifted
  <2>4. CASE Configure(p)
    <3>1. PICK j : j = [k EXCEPT !.at = "recording"] /\ Becomes(p, j) /\ k.at = "configuring"
      BY <1>1, <2>4 DEF Configure, At, Goes
    <3>2. Alike(k, j) /\ j.at = "recording" /\ IsRow(j.seen)
      BY <1>1, <3>1 DEF Shaped, Formed, Alike
    <3>3. j.at \in Steps[k.op] /\ (InWork(k) <=> InWork(j))
      BY <1>3, <3>1, <3>2 DEF InWork, Steps
    <3>. QED BY <1>1, <3>1, <3>2, <3>3, AlikeShifted
  <2>5. CASE Made(p)
    <3>1. PICK j : /\ Becomes(p, j) /\ k.at = "made"
                   /\ j = IF k.kind = "formal"
                          THEN [k EXCEPT !.at = "marking", !.kind = "trial", !.of = k.id, !.id = NoSession]
                          ELSE [k EXCEPT !.at = "known", !.id = NoSession]
      BY <1>1, <2>5 DEF Made, Write, At
    <3>2. k.kind \in Kinds /\ "trial" \in Kinds
      BY <1>1 DEF Shaped, Kinds
    <3>3. /\ Formed(j) /\ j.op = k.op /\ j.rows = k.rows /\ j.log = k.log /\ j.alone = k.alone
          /\ j.kind \in Kinds /\ j.at \in {"marking", "known"} /\ IsRow(j.seen)
      BY <1>1, <3>1, <3>2 DEF Shaped, Formed
    <3>4. j.at \in Steps[k.op] /\ ~InWork(j) /\ ~InWork(k)
      BY <1>3, <3>1, <3>3 DEF InWork, Steps
    <3>. QED BY <1>3, <3>1, <3>3, <3>4 DEF Shifted
  <2>6. CASE Known(p)
    <3>1. PICK j : j = [k EXCEPT !.at = "listing", !.held = Coded(courses)] /\ Becomes(p, j) /\ k.at = "known"
      BY <1>1, <2>6 DEF Known, Write, At
    <3>2. Alike(k, j) /\ j.at = "listing" /\ IsRow(j.seen)
      BY <1>1, <3>1 DEF Shaped, Formed, Alike
    <3>3. j.at \in Steps[k.op] /\ (InWork(k) <=> InWork(j))
      BY <1>3, <3>1, <3>2 DEF InWork, Steps
    <3>. QED BY <1>1, <3>1, <3>2, <3>3, AlikeShifted
  <2>7. CASE Persist(p)
    <3>1. PICK j : j = [k EXCEPT !.at = "created"] /\ Becomes(p, j) /\ k.at = "persisting"
      BY <1>1, <2>7 DEF Persist, Write, At, Goes
    <3>2. Alike(k, j) /\ j.at = "created" /\ IsRow(j.seen)
      BY <1>1, <3>1 DEF Shaped, Formed, Alike
    <3>3. j.at \in Steps[k.op] /\ (InWork(k) <=> InWork(j))
      BY <1>3, <3>1, <3>2 DEF InWork, Steps
    <3>. QED BY <1>1, <3>1, <3>2, <3>3, AlikeShifted
  <2>8. CASE CoursesDone(p)
    <3>1. PICK j : j = [k EXCEPT !.at = "toBind"] /\ Becomes(p, j) /\ k.at = "created"
      BY <1>1, <2>8 DEF CoursesDone, Write, At, Goes
    <3>2. Alike(k, j) /\ j.at = "toBind" /\ IsRow(j.seen)
      BY <1>1, <3>1 DEF Shaped, Formed, Alike
    <3>3. j.at \in Steps[k.op] /\ (InWork(k) <=> InWork(j))
      BY <1>3, <3>1, <3>2 DEF InWork, Steps
    <3>. QED BY <1>1, <3>1, <3>2, <3>3, AlikeShifted
  <2>. QED BY <2>1, <2>2, <2>3, <2>4, <2>5, <2>6, <2>7, <2>8
<1>. QED BY <1>1, <1>2, <1>3, <1>4, SameSteady, QuietIs DEF Inv

(* What is planned, or that the numbers run out.                             *)
LEMMA PlannedQuiet ==
    ASSUME Inv, NEW p \in Requests, NEW listed, Planned(p, listed), job[p].at = "listing",
           UNCHANGED <<sessions, crossed, done, overtaken, cut>>
    PROVE  Quiet(p)
<1>1. PICK k : k = job[p] /\ Shaped(k)
  BY JobIs
<1>2. k.op = "create" /\ k.at = "listing" /\ ~InWork(k)
  BY <1>1, OpAt DEF InWork
<1>3. UNCHANGED Apart
  BY DEF Planned, StepFails, task, Apart
<1>4. CASE Becomes(p, NoJob)
  BY <1>1, <1>2, <1>3, <1>4, SameSteady, QuietIs DEF Inv
<1>5. CASE ~Becomes(p, NoJob)
  <2>1. \E at \in {"persisting", "creating"} : \E cs, todo :
          Becomes(p, [k EXCEPT !.at = at, !.held = {}, !.todo = todo, !.courses = cs])
    BY <1>1, <1>5 DEF Planned, StepFails, Ends
  <2>2. PICK at, cs, todo, j :
          at \in {"persisting", "creating"} /\ Becomes(p, j) /\ j = [k EXCEPT !.at = at, !.held = {}, !.todo = todo, !.courses = cs]
    BY <2>1
  <2>3. Alike(k, j) /\ j.at = at /\ IsRow(j.seen)
    BY <1>1, <2>2 DEF Shaped, Formed, Alike
  <2>4. j.at \in Steps[k.op] /\ ~InWork(j) /\ j.at # "logging"
    BY <1>2, <2>2, <2>3 DEF InWork, Steps
  <2>. QED BY <1>1, <1>2, <1>3, <2>2, <2>3, <2>4, AlikeShifted, SameSteady, QuietIs DEF Inv
<1>. QED BY <1>4, <1>5

LEMMA ListQuiet == ASSUME Inv, NEW p \in Requests, List(p) \/ ListFails(p) PROVE Quiet(p)
BY PlannedQuiet DEF List, ListFails, At, platform, ghosts

(* Requests that end.                                                        *)
LEMMA EndsQuiet ==
    ASSUME Inv, NEW p \in Requests, Becomes(p, NoJob), Steady, UNCHANGED Apart, cut \subseteq cut',
           InWork(job[p]) => job[p].id \in cut'
    PROVE  Quiet(p)
BY JobIs, QuietIs

LEMMA EndingQuiet ==
    ASSUME Inv, NEW p \in Requests,
           NumbersRunOut(p) \/ BindDone(p) \/ BindRefused(p) \/ SyncRefused(p) \/ TaskGone(p) \/ NotFound(p)
    PROVE  Quiet(p)
<1>1. Becomes(p, NoJob) /\ UNCHANGED <<sessions, Apart, cut>>
  BY DEF NumbersRunOut, BindDone, BindRefused, SyncRefused, TaskGone, NotFound, StepFails, Ends, platform, task, ghosts,
         Apart
<1>2. ~InWork(job[p])
  BY DEF NumbersRunOut, BindDone, BindRefused, SyncRefused, TaskGone, NotFound, Write, At, Checked, InWork
<1>. QED BY <1>1, <1>2, EndsQuiet, SameSteady DEF Inv

LEMMA BindQuiet == ASSUME Inv, NEW p \in Requests, BindMark(p) PROVE Quiet(p)
<1>1. PICK k : k = job[p] /\ Shaped(k)
  BY JobIs
<1>2. k.at = "toBind" /\ k.op \in {"create", "bind"} /\ ~InWork(k)
  BY <1>1, OpAt DEF BindMark, Write, At, InWork
<1>3. PICK at, codes, j :
        at \in {"bound", "binding"} /\ Becomes(p, j) /\ j = [k EXCEPT !.at = at, !.todo = codes]
  BY <1>1 DEF BindMark
<1>4. Alike(k, j) /\ j.at = at /\ IsRow(j.seen)
  BY <1>1, <1>3 DEF Shaped, Formed, Alike
<1>5. j.at \in Steps[k.op] /\ ~InWork(j) /\ j.at # "logging"
  BY <1>2, <1>3, <1>4 DEF InWork, Steps
<1>6. UNCHANGED <<sessions, Apart, cut>>
  BY DEF BindMark, platform, ghosts, Apart
<1>. QED BY <1>1, <1>2, <1>3, <1>4, <1>5, <1>6, AlikeShifted, SameSteady, QuietIs DEF Inv

(* A request goes to another place with what else it has to do there.        *)
LEMMA AlikeQuiet ==
    ASSUME Inv, NEW p \in Requests, NEW k, k = job[p], NEW j, Becomes(p, j), Alike(k, j), IsRow(j.seen),
           k.op # "delete", ~InWork(k), ~InWork(j), j.at \in Steps[k.op], j.at = "logging" => k.op # "sync",
           Steady, UNCHANGED Apart, cut \subseteq cut'
    PROVE  Quiet(p)
BY JobIs, AlikeShifted, QuietIs

LEMMA GoesQuiet ==
    ASSUME Inv, NEW p \in Requests, NEW place, Goes(p, place), job[p].op # "delete", ~InWork(job[p]),
           place \in Steps[job[p].op] \ {"configuring", "recording"}, place = "logging" => job[p].op # "sync",
           Steady, UNCHANGED Apart, cut \subseteq cut'
    PROVE  Quiet(p)
<1>1. PICK k : k = job[p] /\ Shaped(k)
  BY JobIs
<1>2. PICK j : j = [k EXCEPT !.at = place] /\ Becomes(p, j)
  BY <1>1 DEF Goes
<1>3. Alike(k, j) /\ j.at = place /\ IsRow(j.seen)
  BY <1>1, <1>2 DEF Shaped, Formed, Alike
<1>4. ~InWork(j)
  BY <1>3 DEF InWork
<1>. QED BY <1>1, <1>2, <1>3, <1>4, AlikeQuiet

LEMMA ChangeQuiet ==
    ASSUME Inv, NEW p \in Requests, ChangeLook(p) \/ ChangeRefused(p)
    PROVE  Quiet(p)
<1>1. job[p].op = "change" /\ ~InWork(job[p])
  BY JobIs, OpAt DEF ChangeLook, ChangeRefused, At, Doing, InWork
<1>2. UNCHANGED <<sessions, Apart, cut>>
  BY DEF ChangeLook, ChangeRefused, platform, task, ghosts, Apart
<1>3. \/ Becomes(p, NoJob)
      \/ \E place \in {"putting", "refusing"} : Goes(p, place)
  BY DEF ChangeLook, ChangeRefused, Looked, Ends
<1>4. ASSUME NEW place \in {"putting", "refusing"}, Goes(p, place) PROVE Quiet(p)
  <2>1. place \in Steps["change"] \ {"configuring", "recording"} /\ place # "logging"
    BY <1>4 DEF Steps
  <2>. QED BY <1>1, <1>2, <1>4, <2>1, SameSteady, GoesQuiet DEF Inv
<1>. QED BY <1>1, <1>2, <1>3, <1>4, EndsQuiet, SameSteady DEF Inv

LEMMA SyncQuiet ==
    ASSUME Inv, NEW p \in Requests, NEW found, Compared(p, found)
    PROVE  Quiet(p)
<1>1. PICK k : k = job[p] /\ Shaped(k) /\ k.op = "sync" /\ k.at = "looking"
  BY JobIs DEF Compared, Doing, At
<1>2. UNCHANGED <<sessions, Apart, cut>> /\ ~InWork(k)
  BY <1>1 DEF Compared, platform, task, ghosts, Apart, InWork
<1>3. CASE Becomes(p, NoJob)
  BY <1>1, <1>2, <1>3, EndsQuiet, SameSteady DEF Inv
<1>4. CASE ~Becomes(p, NoJob)
  <2>1. PICK value, cs, j :
          Becomes(p, j) /\ j = [k EXCEPT !.at = "syncing", !.seen.value = value, !.held = {}, !.courses = cs]
    BY <1>1, <1>4 DEF Compared, Ends
  <2>2. Alike(k, j) /\ j.at = "syncing" /\ IsRow(j.seen)
    BY <1>1, <2>1 DEF Shaped, Formed, Alike, IsRow
  <2>3. j.at \in Steps[k.op] /\ ~InWork(j) /\ j.at # "logging"
    BY <1>1, <2>2 DEF InWork, Steps
  <2>. QED BY <1>1, <1>2, <2>1, <2>2, <2>3, AlikeQuiet, SameSteady DEF Inv
<1>. QED BY <1>3, <1>4

LEMMA CourseQuiet ==
    ASSUME Inv, NEW p \in Requests, Snapshots(p) \/ RenameStore(p)
    PROVE  Quiet(p)
<1>1. PICK k : k = job[p] /\ Shaped(k) /\ k.op = "course" /\ k.at \in {"snapshots", "storing"}
  BY JobIs, OpAt DEF Snapshots, RenameStore, Write, At
<1>2. UNCHANGED <<sessions, Apart, cut>> /\ ~InWork(k)
  BY <1>1 DEF Snapshots, RenameStore, platform, task, ghosts, Apart, InWork
<1>3. CASE Becomes(p, NoJob)
  BY <1>1, <1>2, <1>3, EndsQuiet, SameSteady DEF Inv
<1>4. CASE ~Becomes(p, NoJob)
  <2>1. PICK todo, cs, at, j :
          at \in {"toRename", "logging"} /\ Becomes(p, j)
          /\ (j = [k EXCEPT !.at = at, !.todo = todo] \/ j = [k EXCEPT !.at = at, !.courses = cs])
    BY <1>1, <1>4 DEF Snapshots, RenameStore, Ends
  <2>2. Alike(k, j) /\ j.at = at /\ IsRow(j.seen)
    BY <1>1, <2>1 DEF Shaped, Formed, Alike
  <2>3. j.at \in Steps[k.op] /\ ~InWork(j)
    BY <1>1, <2>1, <2>2 DEF InWork, Steps
  <2>. QED BY <1>1, <1>2, <2>1, <2>2, <2>3, AlikeQuiet, SameSteady DEF Inv
<1>. QED BY <1>3, <1>4

(* Requests that read a session.                                             *)
LEMMA ReadingQuiet ==
    ASSUME Inv, NEW p \in Requests, Detail(p) \/ ImportCount(p) \/ RoomsCount(p)
    PROVE  Quiet(p)
<1>1. PICK k : k = job[p] /\ Shaped(k) /\ k.at \in {"detail", "reading", "counting"}
  BY JobIs DEF Detail, ImportCount, RoomsCount, At
<1>2. k.op \in {"import", "rooms"} /\ (k.at = "counting" <=> k.op = "rooms")
  BY <1>1, OpAt
<1>3. UNCHANGED <<sessions, Apart, cut>> /\ ~InWork(k)
  BY <1>1 DEF Detail, ImportCount, RoomsCount, platform, task, ghosts, Apart, InWork
<1>4. CASE Becomes(p, NoJob)
  BY <1>1, <1>3, <1>4, EndsQuiet, SameSteady DEF Inv
<1>5. CASE ~Becomes(p, NoJob)
  <2>1. PICK at, seen, j : /\ Becomes(p, j) /\ j = [k EXCEPT !.at = at, !.seen = seen] /\ IsRow(seen)
                           /\ at \in IF k.op = "rooms" THEN {"clearing", "arranging"} ELSE {"personal", "saving"}
    <3>1. CASE Detail(p)
      <4>1. PICK v : Becomes(p, [k EXCEPT !.at = "personal", !.seen.value = v]) /\ k.at = "detail"
        BY <1>1, <3>1 DEF Detail, At
      <4>2. PICK seen : seen = [k.seen EXCEPT !.value = v]
        OBVIOUS
      <4>3. IsRow(seen) /\ [k EXCEPT !.at = "personal", !.seen.value = v] = [k EXCEPT !.at = "personal", !.seen = seen]
        BY <1>1, <4>2 DEF Shaped, Formed, IsRow
      <4>. QED BY <1>2, <4>1, <4>3
    <3>2. CASE ImportCount(p) \/ RoomsCount(p)
      <4>1. PICK at, e, n : /\ Becomes(p, [[k EXCEPT !.seen = [NoRow EXCEPT !.entries = e, !.rooms = n]] EXCEPT !.at = at])
                            /\ at \in IF k.at = "counting" THEN {"clearing", "arranging"} ELSE {"personal", "saving"}
        BY <1>1, <1>5, <3>2 DEF ImportCount, RoomsCount, Counted, At, Ends
      <4>2. PICK seen : seen = [NoRow EXCEPT !.entries = e, !.rooms = n]
        OBVIOUS
      <4>3. IsRow(seen) /\ [[k EXCEPT !.seen = seen] EXCEPT !.at = at] = [k EXCEPT !.at = at, !.seen = seen]
        BY <1>1, <4>2 DEF Shaped, Formed, IsRow, NoRow
      <4>. QED BY <1>2, <4>1, <4>2, <4>3
    <3>. QED BY <3>1, <3>2
  <2>2. Alike(k, j) /\ j.at = at /\ IsRow(j.seen)
    BY <1>1, <2>1 DEF Shaped, Formed, Alike
  <2>3. j.at \in Steps[k.op] /\ ~InWork(j) /\ j.at # "logging"
    BY <1>2, <2>1, <2>2 DEF InWork, Steps
  <2>. QED BY <1>1, <1>2, <1>3, <2>1, <2>2, <2>3, AlikeQuiet, SameSteady DEF Inv
<1>. QED BY <1>4, <1>5

(* The opening of the task's page goes from one session to the next.         *)
Opens(k, j) ==
    /\ Formed(j) /\ j.op = k.op /\ j.rows = k.rows /\ j.log = k.log /\ j.kind \in Kinds
    /\ (j.alone => k.alone) /\ j.at \in {"visiting", "refreshing"} /\ IsRow(j.seen)

Shown(i, x) == [[i EXCEPT !.seen = x] EXCEPT !.at = "refreshing"]
Roomless(i, x) == [[i EXCEPT !.seen = x] EXCEPT !.at = "refreshing", !.seen.rooms = 0]

LEMMA OpensIs ==
    ASSUME NEW k, NEW i, Formed(i), i.op = k.op, i.rows = k.rows, i.log = k.log, i.kind \in Kinds,
           i.alone => k.alone, NEW x, IsRow(x)
    PROVE  /\ Opens(k, Visited(i))
           /\ Opens(k, Shown(i, x))
           /\ Opens(k, Roomless(i, x))
<1>1. IsRow(NoRow) /\ "trial" \in Kinds
  BY DEF IsRow, NoRow, Kinds
<1>2. ASSUME NEW j, j = Visited(i) PROVE Opens(k, j)
  BY <1>1, <1>2 DEF Visited, Formed, Opens
<1>3. ASSUME NEW j, j = Shown(i, x) PROVE Opens(k, j)
  BY <1>3 DEF Formed, Opens, Shown
<1>4. ASSUME NEW j, j = Roomless(i, x) PROVE Opens(k, j)
  BY <1>4 DEF Formed, IsRow, Opens, Roomless
<1>. QED BY <1>2, <1>3, <1>4

LEMMA OpeningQuiet ==
    ASSUME Inv, NEW p \in Requests, NEW k, k = job[p], Shaped(k), k.op = "open", NEW j, Becomes(p, j), Opens(k, j),
           UNCHANGED <<sessions, Apart, cut>>
    PROVE  Quiet(p)
<1>1. j.at \in Steps[k.op] /\ ~InWork(j) /\ ~InWork(k)
  <2>1. k.at \in {"visiting", "refreshing"}
    BY DEF Shaped, Steps
  <2>. QED BY <2>1 DEF InWork, Steps, Opens
<1>2. Shifted(k, j)
  BY <1>1 DEF Shifted, Opens
<1>. QED BY <1>1, <1>2, QuietIs, SameSteady DEF Inv

LEMMA VisitingIs ==
    ASSUME NEW k, Shaped(k), NEW i \in {Visiting(k), [Visiting(k) EXCEPT !.alone = FALSE]}
    PROVE  /\ Formed(i) /\ i.op = k.op /\ i.rows = k.rows /\ i.log = k.log /\ i.kind \in Kinds /\ i.todo = k.todo
           /\ i.at = k.at /\ (i.alone => k.alone)
BY DEF Shaped, Formed, Visiting, Kinds

LEMMA VisitQuiet == ASSUME Inv, NEW p \in Requests, Visit(p) PROVE Quiet(p)
<1>1. PICK k : k = job[p] /\ Shaped(k) /\ k.at = "visiting" /\ k.op = "open"
  BY JobIs, OpAt DEF Visit, At
<1>2. UNCHANGED <<sessions, Apart, cut>>
  BY DEF Visit, platform, task, Apart
<1>3. CASE Becomes(p, NoJob)
  BY <1>1, <1>2, <1>3, EndsQuiet, SameSteady DEF Inv, InWork
<1>4. CASE ~Becomes(p, NoJob)
  <2>1. PICK i : i = Visiting(k)
    OBVIOUS
  <2>2. PICK x : x = [NoRow EXCEPT !.entries = sessions[Row(i).id].entries, !.rooms = sessions[Row(i).id].rooms]
    OBVIOUS
  <2>3. IsRow(x)
    BY <2>2 DEF IsRow, NoRow
  <2>4. Becomes(p, Visited(i)) \/ Becomes(p, Shown(i, x))
    BY <1>1, <1>4, <2>1, <2>2 DEF Visit, Ends, Counted, Shown
  <2>5. PICK j : (j = Visited(i) \/ j = Shown(i, x)) /\ Becomes(p, j)
    BY <2>4
  <2>6. Formed(i) /\ i.op = k.op /\ i.rows = k.rows /\ i.log = k.log /\ i.kind \in Kinds /\ (i.alone => k.alone)
    BY <1>1, <2>1, VisitingIs
  <2>7. Opens(k, j)
    BY <2>3, <2>5, <2>6, OpensIs
  <2>. QED BY <1>1, <1>2, <2>5, <2>7, OpeningQuiet
<1>. QED BY <1>3, <1>4

LEMMA ReadFailsQuiet == ASSUME Inv, NEW p \in Requests, ReadFails(p) PROVE Quiet(p)
<1>1. PICK k : k = job[p] /\ Shaped(k)
  BY JobIs
<1>2. UNCHANGED <<sessions, Apart, cut>>
  BY DEF ReadFails, platform, task, Unsettled, Apart
<1>3. PICK i : i = [Visiting(k) EXCEPT !.alone = FALSE]
  OBVIOUS
<1>8. PICK x : x = [NoRow EXCEPT !.entries = sessions[Row(i).id].entries, !.rooms = sessions[Row(i).id].rooms]
  OBVIOUS
<1>4. \/ /\ k.at = "looking" /\ k.op = "change" /\ (Becomes(p, NoJob) \/ Goes(p, "putting"))
      \/ k.at = "reading" /\ Goes(p, "saving")
      \/ /\ k.at = "visiting"
         /\ \/ Becomes(p, Visited(i))
            \/ Becomes(p, Roomless(i, x))
  BY <1>1, <1>3, <1>8 DEF ReadFails, Looked, Ends, At, Doing, Counted, Roomless
<1>5. CASE k.at = "looking" /\ k.op = "change" /\ (Becomes(p, NoJob) \/ Goes(p, "putting"))
  <2>1. "putting" \in Steps["change"] \ {"configuring", "recording"} /\ ~InWork(k)
    BY <1>5 DEF Steps, InWork
  <2>. QED BY <1>1, <1>2, <1>5, <2>1, EndsQuiet, GoesQuiet, SameSteady DEF Inv
<1>6. CASE k.at = "reading" /\ Goes(p, "saving")
  <2>1. "saving" \in Steps["import"] \ {"configuring", "recording"} /\ ~InWork(k) /\ k.op = "import"
    BY <1>1, <1>6, OpAt DEF Steps, InWork
  <2>. QED BY <1>1, <1>2, <1>6, <2>1, GoesQuiet, SameSteady DEF Inv
<1>7. CASE k.at = "visiting" /\ (\/ Becomes(p, Visited(i))
                                 \/ Becomes(p, Roomless(i, x)))
  <2>1. k.op = "open" /\ IsRow(x)
    BY <1>1, <1>7, <1>8, OpAt DEF IsRow, NoRow
  <2>2. PICK j : /\ j = Visited(i) \/ j = Roomless(i, x)
                 /\ Becomes(p, j)
    BY <1>7
  <2>3. Formed(i) /\ i.op = k.op /\ i.rows = k.rows /\ i.log = k.log /\ i.kind \in Kinds /\ (i.alone => k.alone)
    BY <1>1, <1>3, VisitingIs
  <2>4. Opens(k, j)
    BY <2>1, <2>2, <2>3, OpensIs
  <2>. QED BY <1>1, <1>2, <2>1, <2>2, <2>4, OpeningQuiet
<1>. QED BY <1>4, <1>5, <1>6, <1>7

-----------------------------------------------------------------------------
(* Calls of the platform.                                                    *)

LEMMA CarriedSteady ==
    ASSUME World, NEW p, CarriedOut(p), ~At(p, "posting")
    PROVE  Steady
<1>1. CASE UNCHANGED sessions
  BY <1>1, SameSteady
<1>2. CASE ~UNCHANGED sessions
  <2>1. \/ \E v : Put(job[p].of, "bound", v)
        \/ \E f \in {"value", "entries", "rooms"} : \E v : Put(Target(p), f, v)
        \/ Put(FirstOf(job[p].todo), "there", FALSE)
    BY <1>2 DEF CarriedOut
  <2>2. ASSUME NEW s, NEW v, NEW f \in {"value", "entries", "rooms", "bound"}, Put(s, f, v) PROVE Steady
    BY <2>2, PutSteady
  <2>3. ASSUME NEW s, Put(s, "there", FALSE) PROVE Steady
    BY <2>3, PutSteady
  <2>. QED BY <2>1, <2>2, <2>3
<1>. QED BY <1>1, <1>2

LEMMA OnwardsIs ==
    ASSUME Inv, NEW p \in Requests, NEW k, k = job[p], Shaped(k), k.at \in Calling \ {"posting", "deleting"},
           NEW j, j = Onwards(p)
    PROVE  Alike(k, j) /\ IsRow(j.seen) /\ j.at \in Steps[k.op] /\ j.at # "logging" /\ ~InWork(j)
<1>1. CASE k.at = "creating"
  <2>1. PICK cs, item : j = [Done(k, item, "persisting") EXCEPT !.courses = cs]
    BY <1>1 DEF Onwards
  <2>2. Alike(k, j) /\ IsRow(j.seen) /\ j.at \in {"creating", "persisting"}
    BY <1>1, <2>1 DEF Shaped, Formed, Alike, Done
  <2>. QED BY <1>1, <2>2, OpAt DEF Steps, InWork
<1>2. CASE k.at \in {"binding", "renaming"}
  <2>1. PICK item, place : j = Done(k, item, place) /\ place = IF k.at = "binding" THEN "bound" ELSE "storing"
    BY <1>2 DEF Onwards
  <2>2. Alike(k, j) /\ IsRow(j.seen) /\ j.at \in {k.at, place}
    BY <1>2, <2>1 DEF Shaped, Formed, Alike, Done
  <2>. QED BY <1>2, <2>1, <2>2, OpAt DEF Steps, InWork
<1>3. CASE k.at = "personal"
  <2>1. j = [k EXCEPT !.at = "entering", !.seen = NoRow] /\ IsRow(NoRow)
    BY <1>3 DEF Onwards, IsRow, NoRow
  <2>2. Alike(k, j) /\ IsRow(j.seen) /\ j.at = "entering"
    BY <2>1 DEF Shaped, Formed, Alike
  <2>. QED BY <1>3, <2>2, OpAt DEF Steps, InWork
<1>4. CASE k.at \in {"putting", "entering", "clearing", "arranging"}
  <2>1. PICK place : /\ j = [k EXCEPT !.at = place]
                     /\ place = IF k.at = "entering" THEN "reading" ELSE IF k.at = "clearing" THEN "arranging" ELSE "saving"
    BY <1>4 DEF Onwards
  <2>2. Alike(k, j) /\ IsRow(j.seen) /\ j.at = place
    BY <2>1 DEF Shaped, Formed, Alike
  <2>. QED BY <1>4, <2>1, <2>2, OpAt DEF Steps, InWork
<1>. QED BY <1>1, <1>2, <1>3, <1>4 DEF Calling, OnSession

LEMMA CallQuiet ==
    ASSUME Inv, NEW p \in Requests, Call(p), job[p].at \notin {"posting", "deleting"}
    PROVE  Quiet(p)
<1>1. PICK k : k = job[p] /\ Shaped(k) /\ k.at \in Calling \ {"posting", "deleting"} /\ ~InWork(k) /\ k.op # "delete"
  <2>1. PICK k : k = job[p] /\ Shaped(k) /\ k.at \in Calling \ {"posting", "deleting"}
    BY JobIs DEF Call
  <2>2. ~InWork(k) /\ k.op # "delete"
    BY <2>1 DEF Calling, OnSession, InWork, Shaped, Steps
  <2>. QED BY <2>1, <2>2
<1>2. PICK j : j = Onwards(p) /\ Becomes(p, j)
  BY DEF Call
<1>3. Alike(k, j) /\ IsRow(j.seen) /\ j.at \in Steps[k.op] /\ j.at # "logging" /\ ~InWork(j)
  BY <1>1, <1>2, OnwardsIs
<1>4. Steady
  BY CarriedSteady DEF Inv, Call, At
<1>5. UNCHANGED <<Apart, cut>>
  BY DEF Call, task, Apart
<1>. QED BY <1>1, <1>2, <1>3, <1>4, <1>5, AlikeQuiet

(* The session a creation makes is the latest, and of the kind it works on.  *)
Posted(k) ==
    /\ Listed' /\ Len(sessions') = Len(sessions) + 1
    /\ \A s \in DOMAIN sessions : sessions'[s] = sessions[s]
    /\ DOMAIN sessions' = DOMAIN sessions \cup {Len(sessions) + 1}
    /\ IsSession(sessions'[Len(sessions) + 1]) /\ sessions'[Len(sessions) + 1].kind = k
    /\ sessions'[Len(sessions) + 1] = Session(k)

LEMMA PostingIs ==
    ASSUME World, NEW p, CarriedOut(p), At(p, "posting"), job[p].kind \in Kinds
    PROVE  Posted(job[p].kind)
<1>1. PICK k : k = job[p].kind
  OBVIOUS
<1>2. sessions' = Append(sessions, Session(k))
  BY <1>1 DEF CarriedOut, At
<1>3. PICK n : n \in Nat /\ n = Len(sessions) /\ sessions = [s \in 1..n |-> sessions[s]]
  BY DEF World, Listed
<1>4. sessions' = [s \in 1..(n + 1) |-> IF s = n + 1 THEN Session(k) ELSE sessions[s]]
  BY <1>2, <1>3, Lists
<1>5. sessions' = [s \in 1..(n + 1) |-> sessions'[s]] /\ n + 1 \in Nat
  BY <1>3, <1>4
<1>6. Len(sessions') = n + 1
  BY <1>5, Lists
<1>7. IsSession(Session(k)) /\ Session(k).kind = k
  BY <1>1 DEF IsSession, Session
<1>8. DOMAIN sessions = 1..n /\ DOMAIN sessions' = 1..(n + 1)
  BY <1>3, <1>4
<1>9. sessions'[n + 1] = Session(k) /\ \A s \in DOMAIN sessions : sessions'[s] = sessions[s]
  BY <1>3, <1>4, <1>8
<1>10. Listed'
  BY <1>5, <1>6 DEF Listed
<1>. QED BY <1>1, <1>3, <1>6, <1>7, <1>8, <1>9, <1>10 DEF Posted

LEMMA PostedKept ==
    ASSUME Inv, NEW p \in Requests, NEW k, k = job[p], k.at = "posting", Posted(k.kind), UNCHANGED Apart,
           cut \subseteq cut', NEW j, Becomes(p, j),
           \/ j = NoJob /\ Len(sessions) + 1 \in cut'
           \/ j = [k EXCEPT !.at = "configuring", !.id = Len(sessions) + 1]
    PROVE  Inv'
<1>1. JobOK(k) /\ Shaped(k) /\ k.kind \in Kinds /\ k.op = "create" /\ k.kind \in Touches(k) /\ ~InWork(k)
  <2>1. JobOK(k) /\ Shaped(k) /\ k.kind \in Kinds /\ k.op = "create"
    BY OpAt DEF Inv, JobOK, Shaped
  <2>. QED BY <2>1, TouchesIs DEF Shaped, Things, InWork
<1>2. PICK n : n = Len(sessions) /\ n \in Nat /\ DOMAIN sessions = 1..n
  BY DEF Inv, World, Listed
<1>3. Beside(Touches(k))
  BY <1>1, <1>2 DEF Posted, Beside, Apart
<1>4. World'
  <2>1. RowsOf(rows)' /\ AreRows(rows')
    BY <1>2 DEF Inv, World, RowsOf, IsOf, Posted, Apart
  <2>2. job' = [q \in Requests |-> job'[q]]
    BY DEF Inv, World, Becomes
  <2>3. \A s \in DOMAIN sessions' : IsSession(sessions'[s])
    BY DEF Posted, Inv, World
  <2>. QED BY <2>1, <2>2, <2>3 DEF World, Posted, AreRows, IsRow, IsSession
<1>5. Touches(j) \subseteq Touches(k) /\ JobOK(j)'
  <2>1. CASE j = NoJob
    BY <2>1, IdleIs
  <2>2. CASE j = [k EXCEPT !.at = "configuring", !.id = n + 1]
    <3>1. /\ Formed(j) /\ j.op = "create" /\ j.at = "configuring" /\ j.kind = k.kind /\ j.id = n + 1
          /\ j.rows = k.rows /\ j.seen = k.seen /\ j.log = k.log
      BY <1>1, <2>2 DEF Shaped, Formed
    <3>2. Shaped(j)
      BY <1>1, <3>1 DEF Shaped, Steps
    <3>3. RowsOf(j.rows)'
      BY <1>1, <1>2, <3>1 DEF JobOK, RowsOf, IsOf, Posted
    <3>4. HandOK(j)'
      BY <1>2, <3>1 DEF HandOK, IsOf, Posted
    <3>5. ReadOK(j)' /\ DeleteOK(j)' /\ LogOK(j)'
      BY <3>1 DEF ReadOK, DeleteOK, LogOK, Rewrites, Writes
    <3>6. Touches(j) = Touches(k)
      BY <1>1, <3>1 DEF Touches
    <3>. QED BY <3>2, <3>3, <3>4, <3>5, <3>6 DEF JobOK, Shaped, Formed
  <2>. QED BY <1>2, <2>1, <2>2
<1>6. HistoryKept'
  BY DEF Inv, HistoryKept, Apart
<1>7. \A s \in DOMAIN sessions' \ DOMAIN sessions :
         /\ \A t \in DOMAIN sessions : s > t
         /\ s \in cut' \/ (InWork(j) /\ j.id = s)
  <2>1. \A s \in DOMAIN sessions' \ DOMAIN sessions : s = n + 1
    BY <1>2 DEF Posted
  <2>2. \A t \in DOMAIN sessions : n + 1 > t
    BY <1>2
  <2>3. n + 1 \in cut' \/ (InWork(j) /\ j.id = n + 1)
    BY <1>1, <1>2 DEF InWork, Shaped, Formed
  <2>. QED BY <2>1, <2>2, <2>3
<1>. QED BY <1>1, <1>3, <1>4, <1>5, <1>6, <1>7, Moves DEF Apart

LEMMA CallPosting == ASSUME Inv, NEW p \in Requests, Call(p), At(p, "posting") PROVE Inv'
<1>1. PICK k : k = job[p] /\ Shaped(k) /\ k.at = "posting"
  BY JobIs DEF At
<1>2. Posted(k.kind)
  BY <1>1, PostingIs DEF Inv, Call, Shaped
<1>3. PICK j : j = [k EXCEPT !.at = "configuring", !.id = Len(sessions) + 1] /\ Becomes(p, j)
  BY <1>1 DEF Call, Onwards
<1>4. UNCHANGED <<Apart, cut>>
  BY DEF Call, task, Apart
<1>. QED BY <1>1, <1>2, <1>3, <1>4, PostedKept

(* A session that is deleted is one the deletion had to delete.              *)
LEMMA CallDeleting == ASSUME Inv, NEW p \in Requests, Call(p), At(p, "deleting") PROVE Inv'
<1>1. PICK k : k = job[p] /\ Shaped(k) /\ JobOK(k) /\ k.at = "deleting" /\ k.op = "delete"
  BY JobIs, OpAt DEF At
<1>2. PICK s : s = FirstOf(k.todo) /\ Put(s, "there", FALSE)
  BY <1>1 DEF Call, CarriedOut, At
<1>3. PICK j : j = Done(k, s, "dropping") /\ Becomes(p, j)
  BY <1>1, <1>2 DEF Call, Onwards
<1>4. UNCHANGED <<Apart, cut>>
  BY DEF Call, task, Apart
<1>5. Steady
  BY <1>2, PutSteady DEF Inv
<1>6. /\ Formed(j) /\ j.op = "delete" /\ j.kind = k.kind /\ j.rows = k.rows /\ j.seen = k.seen /\ j.log = k.log
      /\ j.todo = k.todo \ {s} /\ j.at = IF k.todo = {s} THEN "dropping" ELSE "deleting"
  BY <1>1, <1>3 DEF Done, Shaped, Formed
<1>7. Shaped(j)
  BY <1>1, <1>6 DEF Shaped, Steps
<1>8. World'
  BY <1>3, <1>4, <1>5, SteadyWorld DEF Inv, World, Apart
<1>9. \A T : Beside(T)
  BY <1>4, <1>5 DEF Beside, Steady, Apart
<1>10. JobOK(j)'
  <2>1. RowsOf(j.rows)'
    BY <1>1, <1>5, <1>6 DEF JobOK, RowsOf, IsOf, Steady
  <2>2. HandOK(j)' /\ ReadOK(j)' /\ LogOK(j)'
    BY <1>6 DEF HandOK, ReadOK, LogOK, InWork, Rewrites, Writes
  <2>3. \A t \in DOMAIN sessions : sessions'[t].there => sessions[t].there /\ t # s
    <3>1. \A t \in DOMAIN sessions : sessions'[t].there => sessions[t].there
      BY <1>5 DEF Steady
    <3>2. s \in DOMAIN sessions => ~sessions'[s].there
      <4>1. ASSUME s \in DOMAIN sessions, NEW x, x = sessions[s] PROVE ~[x EXCEPT !["there"] = FALSE].there
        BY <4>1 DEF Inv, World, IsSession
      <4>2. s \in DOMAIN sessions => sessions'[s] = [sessions[s] EXCEPT !["there"] = FALSE]
        BY <1>2 DEF Put
      <4>. QED BY <4>1, <4>2
    <3>. QED BY <3>1, <3>2
  <2>4. DeleteOK(j)'
    <3>1. j.at = "dropping" => j.todo = {}
      BY <1>6
    <3>2. ASSUME NEW m \in Kinds \ crossed', rows'[m].id # NoSession, sessions'[rows'[m].id].there
          PROVE  rows'[m].id \in j.todo
      <4>1. rows'[m].id = rows[m].id /\ rows[m].id \in DOMAIN sessions /\ m \in Kinds \ crossed
        BY <1>4, <3>2 DEF Inv, World, RowsOf, IsOf, Apart
      <4>2. rows[m].id \in k.todo
        BY <1>1, <2>3, <3>2, <4>1 DEF JobOK, DeleteOK
      <4>. QED BY <1>6, <2>3, <3>2, <4>1, <4>2
    <3>. QED BY <3>1, <3>2 DEF DeleteOK
  <2>. QED BY <1>7, <2>1, <2>2, <2>4 DEF JobOK, Shaped, Formed
<1>11. Touches(j) \subseteq Touches(k)
  BY <1>1, <1>6 DEF Touches
<1>12. HistoryKept'
  BY <1>4 DEF Inv, HistoryKept, Apart
<1>13. DOMAIN sessions' = DOMAIN sessions /\ ~InWork(k)
  BY <1>1, <1>5 DEF Steady, InWork
<1>. QED BY <1>1, <1>3, <1>4, <1>8, <1>9, <1>10, <1>11, <1>12, <1>13, Moves DEF Apart

LEMMA CallKept == ASSUME Inv, NEW p \in Requests, Call(p) PROVE Inv'
BY CallQuiet, QuietKept, CallPosting, CallDeleting DEF At

(* A failure ends the request, or what it recorded is refused.               *)
LEMMA CallFailsKept == ASSUME Inv, NEW p \in Requests, CallFails(p) PROVE Inv'
<1>1. PICK k : k = job[p] /\ Shaped(k)
  BY JobIs
<1>2. UNCHANGED Apart
  BY DEF CallFails, Broken, StepFails, Unsettled, task, Apart
<1>3. \/ Becomes(p, NoJob)
      \/ Goes(p, "refusing") /\ (At(p, "putting") \/ Doing(p, "course"))
  BY DEF CallFails, Broken, StepFails, Ends
<1>4. cut \subseteq cut' /\ (At(p, "posting") => ~Goes(p, "refusing") \/ Becomes(p, NoJob))
  <2>1. At(p, "posting") => ~At(p, "putting") /\ ~Doing(p, "course")
    BY <1>1, OpAt DEF At, Doing
  <2>. QED BY <1>3, <2>1 DEF CallFails
<1>5. CASE UNCHANGED platform /\ cut' = cut \cup InHand(p)
  <2>1. Steady /\ (InWork(k) => k.id \in cut')
    BY <1>1, <1>5, SameSteady, InHandIs DEF Inv, platform
  <2>2. CASE Becomes(p, NoJob)
    BY <1>1, <1>2, <1>4, <2>1, <2>2, EndsQuiet, QuietKept
  <2>3. CASE Goes(p, "refusing") /\ (At(p, "putting") \/ Doing(p, "course"))
    <3>1. k.op \in {"change", "course"}
      BY <1>1, <2>3, OpAt DEF At, Doing
    <3>2. ~InWork(k) /\ "refusing" \in Steps[k.op] \ {"configuring", "recording"} /\ k.op # "delete"
      BY <1>1, <3>1 DEF InWork, Shaped, Steps
    <3>. QED BY <1>1, <1>2, <1>4, <2>1, <2>3, <3>2, GoesQuiet, QuietKept
  <2>. QED BY <1>3, <2>2, <2>3
<1>6. CASE /\ job[p].at \in Calling /\ CarriedOut(p)
           /\ cut' = cut \cup {s \in {Len(sessions) + 1} : At(p, "posting")}
  <2>1. CASE At(p, "posting")
    <3>1. Posted(k.kind)
      BY <1>1, <1>6, <2>1, PostingIs DEF Inv, Shaped
    <3>2. Becomes(p, NoJob)
      BY <1>3, <1>4, <2>1
    <3>3. Len(sessions) + 1 \in cut'
      BY <1>6, <2>1
    <3>. QED BY <1>1, <1>2, <1>4, <2>1, <3>1, <3>2, <3>3, PostedKept DEF At
  <2>2. CASE ~At(p, "posting")
    <3>1. Steady /\ ~InWork(k)
      BY <1>1, <1>6, <2>2, CarriedSteady DEF Inv, Calling, OnSession, InWork
    <3>2. CASE Becomes(p, NoJob)
      BY <1>1, <1>2, <1>4, <3>1, <3>2, EndsQuiet, QuietKept
    <3>3. CASE Goes(p, "refusing") /\ (At(p, "putting") \/ Doing(p, "course"))
      <4>1. k.op \in {"change", "course"}
        BY <1>1, <3>3, OpAt DEF At, Doing
      <4>2. "refusing" \in Steps[k.op] \ {"configuring", "recording"} /\ k.op # "delete"
        BY <4>1 DEF Steps
      <4>. QED BY <1>1, <1>2, <1>4, <3>1, <3>3, <4>2, GoesQuiet, QuietKept
    <3>. QED BY <1>3, <3>2, <3>3
  <2>. QED BY <2>1, <2>2
<1>. QED BY <1>5, <1>6 DEF CallFails

-----------------------------------------------------------------------------
(* Writes of the record.                                                     *)

(* The row a step writes is one of the kind that the request works on.       *)
LEMMA RowWritten ==
    ASSUME World, UNCHANGED sessions, NEW m \in Kinds, NEW r, IsRow(r), r.id # NoSession => IsOf(r.id, m),
           rows' = [rows EXCEPT ![m] = r]
    PROVE  AreRows(rows') /\ RowsOf(rows') /\ rows'[m] = r /\ \A n \in Kinds : n # m => rows'[n] = rows[n]
<1>1. rows'[m] = r /\ (\A n \in Kinds : n # m => rows'[n] = rows[n]) /\ rows' = [n \in Kinds |-> rows'[n]]
  BY DEF World, AreRows
<1>2. \A n \in Kinds : IsRow(rows[n]) /\ (rows[n].id # NoSession => IsOf(rows[n].id, n))
  BY DEF World, AreRows, RowsOf
<1>3. \A n \in Kinds : IsRow(rows'[n]) /\ (rows'[n].id # NoSession => IsOf(rows'[n].id, n))
  BY <1>1, <1>2
<1>. QED BY <1>1, <1>3 DEF AreRows, RowsOf

LEMMA RecordKept == ASSUME Inv, NEW p \in Requests, Record(p) PROVE Inv'
<1>1. PICK k : k = job[p] /\ Shaped(k) /\ JobOK(k) /\ k.at = "recording" /\ k.op = "create" /\ InWork(k)
  <2>1. PICK k : k = job[p] /\ Shaped(k) /\ JobOK(k) /\ k.at = "recording"
    BY JobIs DEF Record, At
  <2>. QED BY <2>1, OpAt DEF InWork
<1>2. k.kind \in Kinds /\ Touches(k) = Things /\ IsOf(k.id, k.kind)
  BY <1>1, CreatesIs DEF JobOK, HandOK, Shaped
<1>3. PICK r : r = [NoRow EXCEPT !.id = k.id] /\ rows' = [rows EXCEPT ![k.kind] = r]
  BY <1>1 DEF Record, RowOf
<1>4. IsRow(r) /\ r.id = k.id
  BY <1>3 DEF NoRow, IsRow
<1>5. UNCHANGED <<sessions, there, crossed, done, overtaken, history, cut>>
  BY DEF Record, platform, ghosts
<1>6. AreRows(rows') /\ RowsOf(rows') /\ rows'[k.kind] = r /\ \A n \in Kinds : n # k.kind => rows'[n] = rows[n]
  BY <1>2, <1>3, <1>4, <1>5, RowWritten DEF Inv
<1>7. PICK j : j = [k EXCEPT !.at = "made"] /\ Becomes(p, j)
  BY <1>1 DEF Record, Goes
<1>8. /\ Formed(j) /\ j.op = "create" /\ j.at = "made" /\ j.kind = k.kind /\ j.rows = k.rows /\ j.seen = k.seen
  BY <1>1, <1>7 DEF Shaped, Formed
<1>9. World'
  BY <1>5, <1>6, <1>7, SameSteady, SteadyWorld DEF Inv
<1>10. JobOK(j)'
  <2>1. Shaped(j) /\ ~InWork(j)
    BY <1>1, <1>8 DEF Shaped, Steps, InWork
  <2>2. RowsOf(j.rows)'
    BY <1>1, <1>5, <1>8 DEF JobOK, RowsOf, IsOf
  <2>3. HandOK(j)' /\ ReadOK(j)' /\ DeleteOK(j)' /\ LogOK(j)'
    BY <1>8, <2>1 DEF HandOK, ReadOK, DeleteOK, LogOK, InWork, Rewrites, Writes
  <2>. QED BY <2>1, <2>2, <2>3 DEF JobOK, Shaped, Formed
<1>11. Touches(j) \subseteq Touches(k)
  BY <1>1, <1>8 DEF Touches
<1>12. Beside(Touches(k))
  BY <1>2, <1>5 DEF Beside, Things
<1>13. HistoryKept'
  BY <1>5 DEF Inv, HistoryKept
<1>14. \A m \in Kinds \ crossed : rows'[m].id # rows[m].id =>
          \A t \in DOMAIN sessions : sessions[t].kind = m => t <= rows'[m].id
  BY <1>1, <1>4, <1>6 DEF JobOK, HandOK
<1>15. k.kind \in crossed \/ (there /\ rows'[k.kind].id = k.id)
  BY <1>1, <1>2, <1>4, <1>6 DEF Inv, Gone, Things
<1>. QED BY <1>1, <1>5, <1>7, <1>9, <1>10, <1>11, <1>12, <1>13, <1>14, <1>15, Moves

(* A row that was read is written with the session it was read with.         *)
LEMMA RewriteKept ==
    ASSUME Inv, NEW p \in Requests, NEW k, k = job[p], k.op \in Rewrites, k.kind \in Touches(k), NEW j, Becomes(p, j),
           NEW r, IsRow(r), r.id = Row(k).id, rows' = [rows EXCEPT ![k.kind] = r],
           UNCHANGED <<sessions, there, crossed, done, overtaken, history, cut>>,
           Touches(j) \subseteq Touches(k), RowsOf(rows') => JobOK(j)'
    PROVE  Inv'
<1>1. JobOK(k) /\ k.kind \in Kinds /\ ~InWork(k)
  BY DEF Inv, JobOK, Shaped, Rewrites, InWork, Steps
<1>2. r.id # NoSession => IsOf(r.id, k.kind)
  BY <1>1 DEF JobOK, RowsOf, Row
<1>3. AreRows(rows') /\ RowsOf(rows') /\ rows'[k.kind] = r /\ \A n \in Kinds : n # k.kind => rows'[n] = rows[n]
  BY <1>1, <1>2, RowWritten DEF Inv
<1>4. World'
  BY <1>3, SameSteady, SteadyWorld DEF Inv
<1>5. Beside(Touches(k))
  BY <1>3 DEF Beside
<1>6. HistoryKept'
  BY DEF Inv, HistoryKept
<1>7. \A m \in Kinds \ crossed : rows'[m].id = rows[m].id
  BY <1>1, <1>3 DEF JobOK, ReadOK, Row
<1>. QED BY <1>1, <1>3, <1>4, <1>5, <1>6, <1>7, Moves

LEMMA SavedIs ==
    ASSUME NEW k, Shaped(k), k.op \in {"change", "import", "rooms"}
    PROVE  IsRow(Saved(k)) /\ Saved(k).id = Row(k).id
<1>1. PICK r : r = Row(k) /\ IsRow(r)
  BY DEF Shaped, Row, AreRows
<1>2. PICK s : s = Saved(k)
  OBVIOUS
<1>3. IsRow(s) /\ s.id = r.id
  <2>1. CASE k.op = "change"
    <3>1. s = [r EXCEPT !.value = k.to]
      BY <1>1, <1>2, <2>1 DEF Saved
    <3>. QED BY <1>1, <3>1 DEF IsRow
  <2>2. CASE k.op = "rooms"
    <3>1. s = [r EXCEPT !.entries = k.seen.entries, !.rooms = k.to]
      BY <1>1, <1>2, <2>2 DEF Saved
    <3>. QED BY <1>1, <3>1 DEF IsRow
  <2>3. CASE k.op = "import"
    <3>1. PICK n : n = IF k.seen.rooms # 0 THEN k.seen.rooms ELSE r.rooms
      OBVIOUS
    <3>2. s = [r EXCEPT !.entries = k.seen.entries, !.rooms = n]
      BY <1>1, <1>2, <2>3, <3>1 DEF Saved, IsRow
    <3>. QED BY <1>1, <3>2 DEF IsRow
  <2>. QED BY <2>1, <2>2, <2>3
<1>. QED BY <1>1, <1>2, <1>3

LEMMA SaveKept == ASSUME Inv, NEW p \in Requests, Save(p) PROVE Inv'
<1>1. PICK k : k = job[p] /\ Shaped(k) /\ JobOK(k) /\ k.at = "saving" /\ k.op \in {"change", "import", "rooms"}
  <2>1. PICK k : k = job[p] /\ Shaped(k) /\ JobOK(k) /\ k.at = "saving"
    BY JobIs DEF Save, At
  <2>. QED BY <2>1, OpAt
<1>2. IsRow(Saved(k)) /\ Saved(k).id = Row(k).id /\ rows' = [rows EXCEPT ![k.kind] = Saved(k)]
  BY <1>1, SavedIs DEF Save
<1>3. UNCHANGED <<sessions, there, crossed, done, overtaken, history, cut>>
  BY DEF Save, platform, ghosts
<1>4. k.op \in Rewrites /\ k.kind \in Touches(k)
  BY <1>1, TouchesIs DEF Rewrites, Shaped
<1>5. CASE k.op # "change"
  <2>1. Becomes(p, NoJob)
    BY <1>1, <1>5 DEF Save, Ends
  <2>. QED BY <1>1, <1>2, <1>3, <1>4, <2>1, IdleIs, RewriteKept
<1>6. CASE k.op = "change"
  <2>1. PICK log, j : /\ Becomes(p, j) /\ j = [k EXCEPT !.at = "logging", !.log = log]
                      /\ log = IF there THEN history ELSE k.log
    BY <1>1, <1>6 DEF Save
  <2>2. /\ Formed(j) /\ j.op = "change" /\ j.at = "logging" /\ j.kind = k.kind /\ j.rows = k.rows /\ j.seen = k.seen
        /\ j.log = log
    BY <1>1, <1>6, <2>1 DEF Shaped, Formed
  <2>3. Shaped(j) /\ ~InWork(j)
    BY <1>1, <2>2 DEF Shaped, Steps, InWork
  <2>4. Touches(j) = Touches(k)
    BY <1>6, <2>2 DEF Touches
  <2>5. ASSUME RowsOf(rows') PROVE JobOK(j)'
    <3>1. RowsOf(j.rows)'
      BY <1>1, <1>3, <2>2 DEF JobOK, RowsOf, IsOf
    <3>2. HandOK(j)' /\ DeleteOK(j)'
      BY <2>2, <2>3 DEF HandOK, DeleteOK, InWork
    <3>3. LogOK(j)'
      BY <1>3, <2>1, <2>2 DEF LogOK, Inv, HistoryKept
    <3>4. ReadOK(j)'
      <4>1. Touches(j)' = Touches(j) /\ Touches(j) = {k.kind} /\ k.kind \in Kinds
        BY <1>1, <1>6, <2>2 DEF Touches, Shaped
      <4>2. k.kind \in Kinds => rows'[k.kind] = Saved(k)
        BY <1>2 DEF Inv, World, AreRows
      <4>. QED BY <1>1, <1>2, <2>2, <4>1, <4>2 DEF ReadOK, Row
    <3>. QED BY <2>3, <3>1, <3>2, <3>3, <3>4 DEF JobOK, Shaped, Formed
  <2>. QED BY <1>1, <1>2, <1>3, <1>4, <2>1, <2>4, <2>5, RewriteKept
<1>. QED BY <1>5, <1>6

LEMMA SyncWriteKept == ASSUME Inv, NEW p \in Requests, SyncWrite(p) PROVE Inv'
<1>1. PICK k : k = job[p] /\ Shaped(k) /\ JobOK(k) /\ k.at = "syncing" /\ k.op = "sync" /\ there
  <2>1. PICK k : k = job[p] /\ Shaped(k) /\ JobOK(k) /\ k.at = "syncing" /\ there
    BY JobIs DEF SyncWrite, Write, At
  <2>. QED BY <2>1, OpAt
<1>2. k.kind \in Kinds
  BY <1>1 DEF Shaped
<1>3. PICK r : r = [rows[k.kind] EXCEPT !.value = k.seen.value] /\ rows' = [rows EXCEPT ![k.kind] = r]
  BY <1>1 DEF SyncWrite
<1>4. IsRow(r) /\ r.id = rows[k.kind].id /\ r.id = Row(k).id
  <2>1. PICK x : x = rows[k.kind] /\ IsRow(x)
    BY <1>2 DEF Inv, World, AreRows
  <2>2. IsRow(r) /\ r.id = x.id
    BY <1>3, <2>1 DEF IsRow
  <2>. QED BY <1>1, <2>1, <2>2 DEF SyncWrite, Target
<1>5. UNCHANGED <<sessions, there, crossed, done, overtaken, history, cut>>
  BY DEF SyncWrite, platform, ghosts
<1>6. k.op \in Rewrites /\ k.kind \in Touches(k)
  BY <1>1, TouchesIs DEF Rewrites, Shaped
<1>7. PICK j : j = [k EXCEPT !.at = "logging", !.courses = {}, !.log = history] /\ Becomes(p, j)
  BY <1>1 DEF SyncWrite
<1>8. /\ Formed(j) /\ j.op = "sync" /\ j.at = "logging" /\ j.kind = k.kind /\ j.rows = k.rows /\ j.seen = k.seen
      /\ j.log = history
  BY <1>1, <1>7 DEF Shaped, Formed
<1>9. Shaped(j) /\ ~InWork(j)
  BY <1>1, <1>8 DEF Shaped, Steps, InWork
<1>10. Touches(j) = Touches(k)
  BY <1>1, <1>8 DEF Touches
<1>11. ASSUME RowsOf(rows') PROVE JobOK(j)'
  <2>1. RowsOf(j.rows)'
    BY <1>1, <1>5, <1>8 DEF JobOK, RowsOf, IsOf
  <2>2. HandOK(j)' /\ DeleteOK(j)'
    BY <1>8, <1>9 DEF HandOK, DeleteOK, InWork
  <2>3. LogOK(j)'
    BY <1>5, <1>8 DEF LogOK, Inv, HistoryKept
  <2>4. ReadOK(j)'
    <3>1. \A m \in Kinds : rows'[m].id = rows[m].id
      BY <1>2, <1>3, <1>4 DEF Inv, World, AreRows
    <3>2. Touches(j)' = Touches(k)
      BY <1>1, <1>8 DEF Touches
    <3>. QED BY <1>1, <1>5, <1>8, <3>1, <3>2 DEF ReadOK, JobOK
  <2>. QED BY <1>9, <2>1, <2>2, <2>3, <2>4 DEF JobOK, Shaped, Formed
<1>. QED BY <1>1, <1>3, <1>4, <1>5, <1>6, <1>7, <1>10, <1>11, RewriteKept

LEMMA RefreshKept == ASSUME Inv, NEW p \in Requests, Refresh(p) PROVE Inv'
<1>1. PICK k : k = job[p] /\ Shaped(k) /\ JobOK(k) /\ k.at = "refreshing" /\ k.op = "open"
  <2>1. PICK k : k = job[p] /\ Shaped(k) /\ JobOK(k) /\ k.at = "refreshing"
    BY JobIs DEF Refresh, At
  <2>. QED BY <2>1, OpAt
<1>2. k.kind \in Kinds /\ IsRow(Row(k))
  BY <1>1 DEF Shaped, AreRows, Row
<1>3. PICK r : r = [Row(k) EXCEPT !.entries = k.seen.entries, !.rooms = k.seen.rooms] /\ rows' = [rows EXCEPT ![k.kind] = r]
  BY <1>1 DEF Refresh
<1>4. IsRow(r) /\ r.id = Row(k).id
  BY <1>2, <1>3 DEF IsRow
<1>5. UNCHANGED <<sessions, there, crossed, done, overtaken, history, cut>>
  BY DEF Refresh, platform
<1>6. k.op \in Rewrites /\ k.kind \in Touches(k) /\ Touches(k) = Kinds
  BY <1>1, <1>2, TouchesIs DEF Rewrites, Shaped
<1>7. PICK i : i = Visited(k)
  OBVIOUS
<1>8. /\ Formed(i) /\ i.op = "open" /\ i.at = "visiting" /\ i.kind \in Kinds /\ i.rows = k.rows /\ IsRow(i.seen)
      /\ i.log = k.log
  <2>1. IsRow(NoRow) /\ "trial" \in Kinds
    BY DEF IsRow, NoRow, Kinds
  <2>. QED BY <1>1, <1>7, <2>1 DEF Visited, Shaped, Formed
<1>9. PICK rs, j : rs = (IF there THEN rows' ELSE k.rows) /\ j = [i EXCEPT !.rows = rs] /\ Becomes(p, j)
  BY <1>1, <1>7, <1>8 DEF Refresh
<1>10. Formed(j) /\ j.op = "open" /\ j.at = "visiting" /\ j.kind \in Kinds /\ j.rows = rs /\ IsRow(j.seen)
  BY <1>8, <1>9 DEF Formed
<1>11. Touches(j) = Kinds /\ ~InWork(j) /\ j.op \in DOMAIN Steps /\ j.at \in Steps[j.op]
  BY <1>10, TouchesIs DEF Steps, InWork
<1>12. ASSUME RowsOf(rows') PROVE JobOK(j)'
  <2>1. RowsOf(k.rows)' /\ RowsOf(rows)'
    BY <1>1, <1>5, <1>12 DEF JobOK, RowsOf, IsOf
  <2>2. AreRows(rs)
    <3>1. AreRows(rows')
      BY <1>2, <1>3, <1>4 DEF Inv, World, AreRows
    <3>. QED BY <1>1, <1>9, <3>1 DEF Shaped
  <2>3. HandOK(j)' /\ DeleteOK(j)' /\ LogOK(j)'
    BY <1>10, <1>11 DEF HandOK, DeleteOK, LogOK, InWork, Writes
  <2>4. ReadOK(j)'
    <3>1. Touches(j)' = Touches(j)
      BY DEF Touches
    <3>2. CASE there
      BY <1>9, <1>10, <3>2 DEF ReadOK
    <3>3. CASE ~there
      BY <1>1, <1>5, <1>6, <1>11, <3>1, <3>3 DEF Inv, Gone, ReadOK
    <3>. QED BY <3>2, <3>3
  <2>5. Shaped(j)
    BY <1>10, <1>11, <2>2 DEF Shaped
  <2>6. RowsOf(j.rows)'
    BY <1>9, <1>10, <2>1
  <2>. QED BY <2>3, <2>4, <2>5, <2>6 DEF JobOK, Shaped, Formed
<1>. QED BY <1>1, <1>3, <1>4, <1>5, <1>6, <1>9, <1>11, <1>12, RewriteKept

-----------------------------------------------------------------------------
(* Writes of the log.                                                        *)

LEMMA LoggingKept ==
    ASSUME Inv, NEW p \in Requests, NEW k, k = job[p], Shaped(k), k.op # "delete", ~InWork(k), NEW j, Becomes(p, j),
           j = NoJob \/ (Shifted(k, j) /\ Writes(k) /\ (k.op = "sync" => k.at = "logging")),
           UNCHANGED <<sessions, rows, there, crossed, cut>>,
           HistoryKept', there => done' \ overtaken' \subseteq IF j = NoJob THEN history' ELSE k.log,
           \A q \in Requests \ {p} : Writes(job[q]) => done' \ overtaken' \subseteq done \ overtaken
    PROVE  Inv'
<1>1. JobOK(k)
  BY DEF Inv
<1>2. Follows(k, j) \/ j = NoJob
  BY Shifting
<1>3. JobOK(j) /\ Touches(j) \subseteq Touches(k)
  BY <1>1, <1>2, FollowsOK
<1>4. World'
  BY SameSteady, SteadyWorld DEF Inv, World
<1>5. \A T : Beside(T)
  BY DEF Beside
<1>6. JobOK(j)'
  <2>1. CASE j = NoJob
    BY <2>1, IdleIs
  <2>2. CASE j # NoJob
    <3>1. j.log = k.log
      BY <2>2 DEF Shifted
    <3>2. LogOK(j)'
      BY <2>2, <3>1 DEF LogOK
    <3>. QED BY <1>3, <3>2 DEF JobOK, Shaped, Formed, RowsOf, IsOf, HandOK, ReadOK, DeleteOK, Touches, InWork
  <2>. QED BY <2>1, <2>2
<1>. QED BY <1>3, <1>4, <1>5, <1>6, Moves

(* A refusal writes the log that was read: nothing that counts is missing.   *)
LEMMA RefuseKept == ASSUME Inv, NEW p \in Requests, Refuse(p) PROVE Inv'
<1>1. PICK k : k = job[p] /\ Shaped(k) /\ JobOK(k) /\ k.at = "refusing" /\ there
  BY JobIs DEF Refuse, Write, At
<1>2. k.op \in {"change", "course"} /\ Writes(k) /\ ~InWork(k)
  BY <1>1, OpAt DEF Writes, InWork
<1>3. history' = k.log /\ Becomes(p, NoJob) /\ UNCHANGED <<sessions, rows, there, crossed, cut, done, overtaken>>
  BY <1>1 DEF Refuse, Ends, platform, ghosts
<1>4. done \ overtaken \subseteq k.log
  BY <1>1, <1>2 DEF JobOK, LogOK
<1>5. HistoryKept'
  BY <1>3, <1>4 DEF HistoryKept
<1>. QED BY <1>1, <1>2, <1>3, <1>4, <1>5, LoggingKept

LEMMA RenameMarkKept == ASSUME Inv, NEW p \in Requests, RenameMark(p) PROVE Inv'
<1>1. PICK k : k = job[p] /\ Shaped(k) /\ JobOK(k) /\ k.at = "toRename" /\ there
  BY JobIs DEF RenameMark, Write, At
<1>2. k.op = "course" /\ Writes(k) /\ ~InWork(k)
  BY <1>1, OpAt DEF Writes, InWork
<1>3. PICK j : j = [k EXCEPT !.at = "renaming"] /\ Becomes(p, j)
  BY <1>1 DEF RenameMark, Goes
<1>4. history' = k.log /\ UNCHANGED <<sessions, rows, there, crossed, cut, done, overtaken>>
  BY <1>1 DEF RenameMark, platform, ghosts
<1>5. Alike(k, j) /\ j.at = "renaming" /\ IsRow(j.seen)
  BY <1>1, <1>3 DEF Shaped, Formed, Alike
<1>6. j.at \in Steps[k.op] /\ ~InWork(j) /\ j.at # "logging"
  BY <1>2, <1>5 DEF InWork, Steps
<1>7. Shifted(k, j)
  BY <1>1, <1>5, <1>6, AlikeShifted
<1>8. done \ overtaken \subseteq k.log
  BY <1>1, <1>2 DEF JobOK, LogOK
<1>9. HistoryKept'
  BY <1>4, <1>8 DEF HistoryKept
<1>. QED BY <1>1, <1>2, <1>3, <1>4, <1>7, <1>8, <1>9, LoggingKept

(* What is logged while another request holds an older log counts no more.   *)
LEMMA LogKept == ASSUME Inv, NEW p \in Requests, Log(p) PROVE Inv'
<1>1. PICK k : k = job[p] /\ Shaped(k) /\ JobOK(k) /\ k.at = "logging" /\ there
  BY JobIs DEF Log, Write, At
<1>2. k.op \in {"change", "sync", "course"} /\ Writes(k) /\ ~InWork(k)
  BY <1>1, OpAt DEF Writes, InWork
<1>3. PICK e : /\ history' = k.log \cup {e} /\ done' = done \cup {e}
               /\ overtaken' = IF \E q \in Requests \ {p} : Writes(job[q]) THEN overtaken \cup {e} ELSE overtaken
  BY <1>1 DEF Log, WithEntry
<1>4. Becomes(p, NoJob) /\ UNCHANGED <<sessions, rows, there, crossed, cut>>
  BY DEF Log, Ends, platform
<1>5. done \ overtaken \subseteq k.log
  BY <1>1, <1>2 DEF JobOK, LogOK
<1>6. done' \ overtaken' \subseteq history'
  BY <1>3, <1>5
<1>7. \A q \in Requests \ {p} : Writes(job[q]) => done' \ overtaken' \subseteq done \ overtaken
  BY <1>3
<1>8. HistoryKept'
  BY <1>6 DEF HistoryKept
<1>. QED BY <1>1, <1>2, <1>4, <1>6, <1>7, <1>8, LoggingKept

LEMMA EraseKept == ASSUME Inv, Erase PROVE Inv'
<1>1. UNCHANGED <<sessions, rows, there, crossed, cut, job>> /\ overtaken' = overtaken \cup history /\ done' = done
  BY DEF Erase, platform
<1>2. done' \ overtaken' = {}
  BY <1>1 DEF Inv, HistoryKept, Erase
<1>3. World' /\ Sole' /\ Gone'
  BY <1>1 DEF Inv, World, Sole, Gone, Listed, IsSession, AreRows, IsRow, RowsOf, IsOf, Touches
<1>4. ASSUME NEW q \in Requests PROVE JobOK(job[q])'
  <2>1. PICK i : i = job[q] /\ JobOK(i)
    BY JobIs
  <2>2. Beside({})
    BY <1>1 DEF Beside
  <2>3. JobOK(i)'
    BY <1>2, <2>1, <2>2, OtherKept DEF Inv
  <2>4. job'[q] = i
    BY <1>1, <2>1
  <2>. QED BY <2>3, <2>4 DEF JobOK, Shaped, Formed, RowsOf, HandOK, ReadOK, DeleteOK, LogOK, Touches, InWork, Writes, IsOf
<1>5. SessionsAccountedFor'
  BY <1>1 DEF Inv, SessionsAccountedFor, Accounted, InHand
<1>6. HistoryKept'
  BY <1>2 DEF HistoryKept
<1>. QED BY <1>3, <1>4, <1>5, <1>6 DEF Inv

-----------------------------------------------------------------------------
(* Requests that begin, and steps that concern them all.                     *)

LEMMA AloneKept ==
    ASSUME World, NEW i, JobOK(i), Beside({}), NEW b,
           there' /\ Writes(i) => done' \ overtaken' \subseteq done \ overtaken
    PROVE  JobOK([i EXCEPT !.alone = b])'
<1>1. JobOK(i)'
  BY OtherKept
<1>2. PICK j : j = [i EXCEPT !.alone = b]
  OBVIOUS
<1>3. /\ Shaped(j) /\ Touches(j) = Touches(i) /\ Writes(j) = Writes(i) /\ InWork(j) = InWork(i)
      /\ j.op = i.op /\ j.at = i.at /\ j.kind = i.kind /\ j.id = i.id /\ j.rows = i.rows
      /\ j.log = i.log /\ j.todo = i.todo
  BY <1>2, AloneIs DEF JobOK
<1>4. JobOK(j)'
  BY <1>1, <1>3 DEF JobOK, Shaped, Formed, RowsOf, IsOf, HandOK, ReadOK, DeleteOK, LogOK, Touches, InWork, Writes
<1>. QED BY <1>2, <1>4 DEF JobOK, Shaped, Formed, RowsOf, IsOf, HandOK, ReadOK, DeleteOK, LogOK, Touches, InWork, Writes

(* A request that begins.                                                    *)
Fresh(j) == Shaped(j) /\ RowsOf(j.rows) /\ ReadOK(j) /\ DeleteOK(j) /\ LogOK(j) /\ ~InWork(j)

LEMMA BeginsKept == ASSUME Inv, NEW p \in Requests, NEW j, Fresh(j), Begins(p, j) PROVE Inv'
<1>1. there /\ At(p, "idle") /\ UNCHANGED <<sessions, rows, there, history, done, overtaken, cut>>
  BY DEF Begins, platform, task
<1>2. PICK b, n : job'[p] = [j EXCEPT !.alone = b, !.number = n]
  BY DEF Begins
<1>3. \A q \in Requests : q # p => \E a : job'[q] = [job[q] EXCEPT !.alone = a]
  BY DEF Begins
<1>4. job' = [q \in Requests |-> job'[q]] /\ crossed \subseteq crossed'
  BY DEF Begins
<1>5. PICK i : i = [j EXCEPT !.alone = b, !.number = n]
  OBVIOUS
<1>6. /\ Shaped(i) /\ i.op = j.op /\ i.at = j.at /\ i.kind = j.kind /\ i.rows = j.rows /\ i.log = j.log
      /\ i.todo = j.todo
  BY <1>5 DEF Fresh, Shaped, Formed
<1>7. Touches(i) = Touches(j) /\ ~InWork(i) /\ Writes(i) = Writes(j)
  BY <1>6 DEF Fresh, Touches, InWork, Writes
<1>8. JobOK(i)'
  <2>1. JobOK(i)
    BY <1>6, <1>7 DEF Fresh, JobOK, HandOK, ReadOK, DeleteOK, LogOK
  <2>2. Beside({})
    BY <1>1, <1>4 DEF Beside
  <2>. QED BY <1>1, <2>1, <2>2, OtherKept DEF Inv
<1>9. Beside({})
  BY <1>1, <1>4 DEF Beside
<1>10. ASSUME NEW q \in Requests PROVE JobOK(job[q])'
  <2>1. CASE q = p
    BY <1>2, <1>5, <1>8, <2>1 DEF JobOK, Shaped, Formed, RowsOf, IsOf, HandOK, ReadOK, DeleteOK, LogOK, Touches, InWork, Writes
  <2>2. CASE q # p
    <3>1. PICK a : job'[q] = [job[q] EXCEPT !.alone = a]
      BY <1>3, <2>2
    <3>2. PICK k : k = job[q] /\ JobOK(k)
      BY JobIs
    <3>3. JobOK([k EXCEPT !.alone = a])'
      BY <1>1, <1>9, <3>2, AloneKept DEF Inv
    <3>4. job'[q] = [k EXCEPT !.alone = a]
      BY <3>1, <3>2
    <3>. QED BY <3>3, <3>4 DEF JobOK, Shaped, Formed, RowsOf, IsOf, HandOK, ReadOK, DeleteOK, LogOK, Touches, InWork, Writes
  <2>. QED BY <2>1, <2>2
<1>11. Touches(job'[p]) = Touches(j) /\ ~InWork(job'[p])
  BY <1>2, <1>5, <1>7
<1>12. ASSUME NEW q \in Requests, q # p
       PROVE  /\ Touches(job'[q]) = Touches(job[q]) /\ InWork(job'[q]) = InWork(job[q]) /\ job'[q].id = job[q].id
              /\ Touches(job[q]) \cap Touches(j) \subseteq crossed'
  <2>1. PICK a, k : job'[q] = [k EXCEPT !.alone = a] /\ k = job[q] /\ Shaped(k)
    BY <1>3, <1>12, JobIs
  <2>2. /\ Touches(job'[q]) = Touches(job[q]) /\ InWork(job'[q]) = InWork(job[q]) /\ job'[q].id = job[q].id
    BY <2>1, AloneIs
  <2>3. Touches(job[q]) \cap Touches(j) \subseteq crossed'
    BY <1>12 DEF Begins
  <2>. QED BY <2>2, <2>3
<1>13. World'
  BY <1>1, <1>4 DEF Inv, World, Listed, IsSession, AreRows, IsRow, RowsOf, IsOf
<1>14. Sole'
  <2>. SUFFICES ASSUME NEW q \in Requests, NEW r \in Requests, q # r
                PROVE  Touches(job'[q]) \cap Touches(job'[r]) \subseteq crossed'
    BY DEF Sole, Touches
  <2>1. Touches(job[q]) \cap Touches(job[r]) \subseteq crossed
    BY DEF Inv, Sole
  <2>. QED BY <1>4, <1>11, <1>12, <2>1
<1>15. Gone'
  BY <1>1 DEF Gone
<1>16. HistoryKept'
  BY <1>1 DEF Inv, HistoryKept
<1>17. SessionsAccountedFor'
  <2>. SUFFICES ASSUME NEW s \in DOMAIN sessions, Accounted(s) PROVE Accounted(s)'
    BY <1>1, <1>4 DEF Inv, SessionsAccountedFor
  <2>1. ASSUME NEW q \in Requests, s \in InHand(q) PROVE s \in InHand(q)'
    <3>1. InWork(job[q]) /\ s = job[q].id
      BY <2>1, InHandIs
    <3>2. q # p
      BY <1>1, <3>1 DEF At, InWork
    <3>3. InWork(job'[q]) /\ s = job'[q].id
      BY <1>12, <3>1, <3>2
    <3>. QED BY <3>3 DEF InHand, InWork
  <2>. QED BY <1>1, <2>1 DEF Accounted
<1>. QED BY <1>10, <1>13, <1>14, <1>15, <1>16, <1>17 DEF Inv

(* What a request for one session begins with, and one that reads no row.    *)
LEMMA FreshIs ==
    ASSUME Inv, NEW j, Formed(j), j.op \in DOMAIN Steps, j.at \in Steps[j.op], j.kind \in Kinds, IsRow(j.seen), ~InWork(j),
           \/ j.rows = NoRows /\ j.op \notin Rewrites
           \/ j.rows = ReadRows(j.kind) /\ j.op # "open",
           j.op \in {"change", "course"} => j.log = history, j.op = "sync" => j.at # "logging",
           j.op = "delete" => /\ j.at = "dropping" => j.todo = {}
                              /\ \A k \in Kinds : rows[k].id # NoSession => rows[k].id \in j.todo
    PROVE  Fresh(j)
<1>1. \A k \in Kinds : IsRow(rows[k]) /\ (rows[k].id # NoSession => IsOf(rows[k].id, k))
  BY DEF Inv, World, AreRows, RowsOf
<1>2. \A k \in Kinds : NoRows[k] = NoRow /\ NoRow.id = NoSession /\ IsRow(NoRow)
  BY DEF NoRows, NoRow, IsRow
<1>3. ReadRows(j.kind)[j.kind] = rows[j.kind] /\ \A k \in Kinds : k # j.kind => ReadRows(j.kind)[k] = NoRow
  BY <1>2 DEF ReadRows, NoRows
<1>4. NoRows = [k \in Kinds |-> NoRows[k]] /\ ReadRows(j.kind) = [k \in Kinds |-> ReadRows(j.kind)[k]]
  BY DEF NoRows, ReadRows
<1>5. \A k \in Kinds : j.rows[k] \in {NoRow, rows[k]}
  BY <1>2, <1>3
<1>6. RowsOf(j.rows) /\ AreRows(j.rows)
  BY <1>1, <1>2, <1>4, <1>5 DEF RowsOf, AreRows
<1>7. ReadOK(j)
  <2>. SUFFICES ASSUME j.op \in Rewrites, NEW k \in Touches(j) \cap Kinds PROVE j.rows[k] = rows[k]
    BY DEF ReadOK
  <2>1. k = j.kind
    BY DEF Rewrites, Touches, Kinds
  <2>. QED BY <1>3, <2>1
<1>8. LogOK(j)
  BY DEF LogOK, Inv, HistoryKept, Writes
<1>9. DeleteOK(j)
  BY DEF DeleteOK
<1>. QED BY <1>6, <1>7, <1>8, <1>9 DEF Fresh, Shaped

LEMMA NoJobIs ==
    /\ Formed(NoJob) /\ IsRow(NoJob.seen) /\ NoJob.kind \in Kinds /\ NoJob.rows = NoRows /\ NoJob.at = "idle"
BY DEF NoJob, Formed, IsRow, NoRow, Kinds

(* Where a request begins, and what of the record it has read there.         *)
Starts == {"pinning", "toBind", "snapshots", "looking", "detail", "entering", "counting", "visiting", "deleting",
           "dropping"}
Starting(j) ==
    /\ j.at \in Starts
    /\ j.op \in Rewrites => \A k \in Touches(j) \cap Kinds : j.rows[k] = rows[k]
    /\ j.op \in {"change", "sync", "import", "rooms"} => Recorded(j.kind)

LEMMA StartingIs ==
    ASSUME NEW j, j.kind \in Kinds, j.at \in Starts,
           \/ j.op \notin Rewrites
           \/ j.op \in {"change", "sync", "import", "rooms"} /\ j.rows = ReadRows(j.kind) /\ Recorded(j.kind)
           \/ j.op = "open" /\ j.rows = rows
    PROVE  Starting(j)
<1>1. j.op \in {"change", "sync", "import", "rooms"} => Touches(j) \cap Kinds = {j.kind} \/ j.op = "sync"
  BY DEF Touches
<1>2. j.op = "sync" => Touches(j) \cap Kinds = {j.kind}
  BY DEF Touches, Kinds
<1>3. ReadRows(j.kind)[j.kind] = rows[j.kind]
  BY DEF ReadRows, NoRows
<1>. QED BY <1>1, <1>2, <1>3 DEF Starting, Rewrites

LEMMA BeginningIs ==
    ASSUME Inv, NEW p \in Requests,
           \/ Create(p) \/ Bind(p) \/ Open(p) \/ Delete(p)
           \/ \E k \in Kinds : Sync(p, k) \/ Import(p, k) \/ (\E v : Change(p, k, v)) \/ (\E n : Rooms(p, k, n))
           \/ \E names : Rename(p, names)
    PROVE  \E j : Begins(p, j) /\ Fresh(j) /\ Starting(j)
<1>1. CASE Create(p)
  <2>1. PICK j : Begins(p, j) /\ j = [NoJob EXCEPT !.op = "create", !.at = "pinning", !.courses = courses]
    BY <1>1 DEF Create
  <2>2. /\ Formed(j) /\ j.op = "create" /\ j.at = "pinning" /\ j.kind \in Kinds /\ IsRow(j.seen) /\ j.rows = NoRows
    BY <2>1, NoJobIs DEF Formed
  <2>3. Fresh(j)
    BY <2>2, FreshIs DEF Steps, InWork, Rewrites
  <2>9. Starting(j)
    BY <1>1, <2>1, <2>2, StartingIs DEF Create, Starts, Rewrites
  <2>. QED BY <2>1, <2>3, <2>9
<1>2. CASE Bind(p)
  <2>1. PICK id, j : /\ Begins(p, j)
                     /\ j = [NoJob EXCEPT !.op = "bind", !.at = "toBind", !.of = id, !.courses = Stored]
    BY <1>2 DEF Bind
  <2>2. /\ Formed(j) /\ j.op = "bind" /\ j.at = "toBind" /\ j.kind \in Kinds /\ IsRow(j.seen) /\ j.rows = NoRows
    BY <2>1, NoJobIs DEF Formed
  <2>3. Fresh(j)
    BY <2>2, FreshIs DEF Steps, InWork, Rewrites
  <2>9. Starting(j)
    BY <1>2, <2>1, <2>2, StartingIs DEF Bind, Starts, Rewrites
  <2>. QED BY <2>1, <2>3, <2>9
<1>3. CASE Open(p)
  <2>1. PICK ks, j : Begins(p, j) /\ j = [NoJob EXCEPT !.op = "open", !.at = "visiting", !.rows = rows, !.todo = ks]
    BY <1>3 DEF Open
  <2>2. /\ Formed(j) /\ j.op = "open" /\ j.at = "visiting" /\ j.kind \in Kinds /\ IsRow(j.seen) /\ j.rows = rows
    BY <2>1, NoJobIs DEF Formed
  <2>3. Fresh(j)
    <3>1. j.op \in DOMAIN Steps /\ j.at \in Steps[j.op] /\ ~InWork(j)
      BY <2>2 DEF Steps, InWork
    <3>2. /\ Shaped(j) /\ RowsOf(j.rows) /\ ReadOK(j) /\ DeleteOK(j) /\ LogOK(j)
      BY <2>2, <3>1 DEF Inv, World, Shaped, ReadOK, DeleteOK, LogOK, Writes
    <3>. QED BY <3>1, <3>2 DEF Fresh
  <2>9. Starting(j)
    BY <1>3, <2>1, <2>2, StartingIs DEF Open, Starts, Rewrites
  <2>. QED BY <2>1, <2>3, <2>9
<1>4. CASE Delete(p)
  <2>1. PICK ids, at, j : /\ Begins(p, j) /\ j = [NoJob EXCEPT !.op = "delete", !.at = at, !.todo = ids]
                          /\ ids = {rows[k].id : k \in Kinds} \ {NoSession}
                          /\ at = IF ids = {} THEN "dropping" ELSE "deleting"
    BY <1>4 DEF Delete
  <2>2. /\ Formed(j) /\ j.op = "delete" /\ j.at = at /\ j.kind \in Kinds /\ IsRow(j.seen) /\ j.rows = NoRows
        /\ j.todo = ids
    BY <2>1, NoJobIs DEF Formed
  <2>3. \A k \in Kinds : rows[k].id # NoSession => rows[k].id \in j.todo
    BY <2>1, <2>2
  <2>4. j.op \in DOMAIN Steps /\ j.at \in Steps[j.op] /\ ~InWork(j) /\ j.op \notin Rewrites
    BY <2>1, <2>2 DEF Steps, InWork, Rewrites
  <2>5. j.at = "dropping" => j.todo = {}
    BY <2>1, <2>2
  <2>6. Fresh(j)
    BY <2>2, <2>3, <2>4, <2>5, FreshIs
  <2>9. Starting(j)
    BY <1>4, <2>1, <2>2, StartingIs DEF Delete, Starts, Rewrites
  <2>. QED BY <2>1, <2>6, <2>9
<1>5. ASSUME NEW k \in Kinds, Sync(p, k) PROVE \E j : Begins(p, j) /\ Fresh(j) /\ Starting(j)
  <2>1. PICK j : /\ Begins(p, j)
                 /\ j = [NoJob EXCEPT !.op = "sync", !.at = "looking", !.kind = k, !.rows = ReadRows(k), !.held = courses]
    BY <1>5 DEF Sync
  <2>2. /\ Formed(j) /\ j.op = "sync" /\ j.at = "looking" /\ j.kind = k /\ IsRow(j.seen) /\ j.rows = ReadRows(k)
    BY <2>1, NoJobIs DEF Formed
  <2>3. Fresh(j)
    BY <2>2, FreshIs DEF Steps, InWork
  <2>9. Starting(j)
    BY <1>5, <2>1, <2>2, StartingIs DEF Sync, Starts, Rewrites
  <2>. QED BY <2>1, <2>3, <2>9
<1>6. ASSUME NEW k \in Kinds, Import(p, k) PROVE \E j : Begins(p, j) /\ Fresh(j) /\ Starting(j)
  <2>1. PICK place, j : /\ Begins(p, j) /\ place \in {"detail", "entering"}
                        /\ j = [NoJob EXCEPT !.op = "import", !.at = place, !.kind = k, !.rows = ReadRows(k)]
    BY <1>6 DEF Import
  <2>2. /\ Formed(j) /\ j.op = "import" /\ j.at = place /\ j.kind = k /\ IsRow(j.seen) /\ j.rows = ReadRows(k)
    BY <2>1, NoJobIs DEF Formed
  <2>3. j.op \in DOMAIN Steps /\ j.at \in Steps[j.op] /\ ~InWork(j)
    BY <2>1, <2>2 DEF Steps, InWork
  <2>4. Fresh(j)
    BY <2>2, <2>3, FreshIs
  <2>9. Starting(j)
    BY <1>6, <2>1, <2>2, StartingIs DEF Import, Starts, Rewrites
  <2>. QED BY <2>1, <2>4, <2>9
<1>7. ASSUME NEW k \in Kinds, NEW v, Change(p, k, v) PROVE \E j : Begins(p, j) /\ Fresh(j) /\ Starting(j)
  <2>1. PICK j : /\ Begins(p, j)
                 /\ j = [NoJob EXCEPT !.op = "change", !.at = "looking", !.kind = k, !.rows = ReadRows(k),
                                      !.log = history, !.to = v]
    BY <1>7 DEF Change
  <2>2. /\ Formed(j) /\ j.op = "change" /\ j.at = "looking" /\ j.kind = k /\ IsRow(j.seen) /\ j.rows = ReadRows(k)
        /\ j.log = history
    BY <2>1, NoJobIs DEF Formed
  <2>3. Fresh(j)
    BY <2>2, FreshIs DEF Steps, InWork
  <2>9. Starting(j)
    BY <1>7, <2>1, <2>2, StartingIs DEF Change, Starts, Rewrites
  <2>. QED BY <2>1, <2>3, <2>9
<1>8. ASSUME NEW k \in Kinds, NEW n, Rooms(p, k, n) PROVE \E j : Begins(p, j) /\ Fresh(j) /\ Starting(j)
  <2>1. PICK j : /\ Begins(p, j)
                 /\ j = [NoJob EXCEPT !.op = "rooms", !.at = "counting", !.kind = k, !.rows = ReadRows(k), !.to = n]
    BY <1>8 DEF Rooms
  <2>2. /\ Formed(j) /\ j.op = "rooms" /\ j.at = "counting" /\ j.kind = k /\ IsRow(j.seen) /\ j.rows = ReadRows(k)
    BY <2>1, NoJobIs DEF Formed
  <2>3. Fresh(j)
    BY <2>2, FreshIs DEF Steps, InWork
  <2>9. Starting(j)
    BY <1>8, <2>1, <2>2, StartingIs DEF Rooms, Starts, Rewrites
  <2>. QED BY <2>1, <2>3, <2>9
<1>9. ASSUME NEW names, Rename(p, names) PROVE \E j : Begins(p, j) /\ Fresh(j) /\ Starting(j)
  <2>1. PICK cs, j : /\ Begins(p, j)
                     /\ j = [NoJob EXCEPT !.op = "course", !.at = "snapshots", !.log = history, !.courses = cs]
    BY <1>9 DEF Rename
  <2>2. /\ Formed(j) /\ j.op = "course" /\ j.at = "snapshots" /\ j.kind \in Kinds /\ IsRow(j.seen) /\ j.rows = NoRows
        /\ j.log = history
    BY <2>1, NoJobIs DEF Formed
  <2>3. Fresh(j)
    BY <2>2, FreshIs DEF Steps, InWork, Rewrites
  <2>9. Starting(j)
    BY <1>9, <2>1, <2>2, StartingIs DEF Rename, Starts, Rewrites
  <2>. QED BY <2>1, <2>3, <2>9
<1>. QED BY <1>1, <1>2, <1>3, <1>4, <1>5, <1>6, <1>7, <1>8, <1>9

LEMMA BeginningKept ==
    ASSUME Inv, NEW p \in Requests,
           \/ Create(p) \/ Bind(p) \/ Open(p) \/ Delete(p)
           \/ \E k \in Kinds : Sync(p, k) \/ Import(p, k) \/ (\E v : Change(p, k, v)) \/ (\E n : Rooms(p, k, n))
           \/ \E names : Rename(p, names)
    PROVE  Inv'
<1>1. \E j : Begins(p, j) /\ Fresh(j)
  BY BeginningIs
<1>. QED BY <1>1, BeginsKept

-----------------------------------------------------------------------------
(* The task goes, and what befalls every request.                            *)

LEMMA DropKept == ASSUME Inv, NEW p \in Requests, Drop(p) PROVE Inv'
<1>1. PICK k : k = job[p] /\ Shaped(k) /\ JobOK(k) /\ k.at = "dropping" /\ k.op = "delete"
  <2>1. PICK k : k = job[p] /\ Shaped(k) /\ JobOK(k) /\ k.at = "dropping"
    BY JobIs DEF Drop, At
  <2>. QED BY <2>1, OpAt
<1>2. /\ UNCHANGED <<sessions, crossed, done, overtaken, cut>> /\ ~there' /\ rows' = NoRows
      /\ job' = [job EXCEPT ![p] = NoJob]
  BY DEF Drop, Ends, Becomes, platform, ghosts
<1>3. \A q \in Requests : q # p => job'[q] = job[q] /\ Touches(job[q]) \subseteq crossed
  <2>1. Touches(k) = Things
    BY <1>1, TouchesIs DEF Shaped
  <2>2. \A q \in Requests : Touches(job[q]) \subseteq Things
    BY JobIs, TouchesIs DEF Shaped
  <2>. QED BY <1>1, <1>2, <2>1, <2>2 DEF Inv, World, Sole
<1>4. job'[p] = NoJob /\ job' = [q \in Requests |-> job'[q]]
  BY <1>2 DEF Inv, World
<1>5. AreRows(NoRows) /\ RowsOf(NoRows)'
  BY DEF AreRows, RowsOf, NoRows, NoRow, IsRow
<1>6. World'
  BY <1>2, <1>4, <1>5 DEF Inv, World, Listed, IsSession, AreRows, IsRow, RowsOf, IsOf
<1>7. Beside(Things)
  BY <1>2 DEF Beside, Things
<1>8. ASSUME NEW q \in Requests PROVE JobOK(job[q])'
  <2>1. CASE q = p
    BY <1>4, <2>1, IdleIs DEF JobOK, Shaped, Formed, RowsOf, IsOf, HandOK, ReadOK, DeleteOK, LogOK, Touches, InWork, Writes
  <2>2. CASE q # p
    <3>1. PICK i : i = job[q] /\ JobOK(i)
      BY JobIs
    <3>2. JobOK(i)'
      BY <1>2, <1>3, <1>7, <2>2, <3>1, OtherKept DEF Inv
    <3>3. job'[q] = i
      BY <1>3, <2>2, <3>1
    <3>. QED BY <3>2, <3>3 DEF JobOK, Shaped, Formed, RowsOf, IsOf, HandOK, ReadOK, DeleteOK, LogOK, Touches, InWork, Writes
  <2>. QED BY <2>1, <2>2
<1>9. \A q \in Requests : Touches(job'[q]) \subseteq crossed
  BY <1>3, <1>4, IdleIs
<1>10. Sole' /\ Gone'
  BY <1>2, <1>9 DEF Sole, Gone, Touches
<1>11. HistoryKept'
  BY <1>2 DEF HistoryKept
<1>12. SessionsAccountedFor'
  <2>. SUFFICES ASSUME NEW s \in DOMAIN sessions, sessions[s].there, s \notin cut, sessions[s].kind \notin crossed, Accounted(s)
                PROVE  FALSE
    BY <1>2 DEF Inv, SessionsAccountedFor
  <2>1. sessions[s].kind \in Kinds
    BY DEF Inv, World, IsSession
  <2>2. ASSUME NEW m \in Kinds, rows[m].id = s PROVE FALSE
    <3>1. s # NoSession /\ sessions[s].kind = m
      BY <2>2 DEF Inv, World, Listed, RowsOf, IsOf, NoSession
    <3>. QED BY <1>1, <2>2, <3>1 DEF JobOK, DeleteOK
  <2>3. ASSUME NEW q \in Requests, s \in InHand(q) PROVE FALSE
    <3>1. InWork(job[q]) /\ s = job[q].id
      BY <2>3, InHandIs
    <3>2. PICK i : i = job[q] /\ JobOK(i) /\ Shaped(i)
      BY JobIs
    <3>3. i.kind \in Touches(i) /\ IsOf(s, i.kind)
      BY <3>1, <3>2, CreatesIs DEF JobOK, HandOK
    <3>4. q # p
      BY <1>1, <3>1 DEF InWork
    <3>. QED BY <1>3, <3>2, <3>3, <3>4 DEF IsOf
  <2>. QED BY <2>2, <2>3 DEF Accounted
<1>. QED BY <1>6, <1>8, <1>10, <1>11, <1>12 DEF Inv

LEMMA RestartKept == ASSUME Inv, Restart PROVE Inv'
<1>1. /\ UNCHANGED <<sessions, rows, there, history, crossed, done, overtaken>> /\ job' = [q \in Requests |-> NoJob]
      /\ cut' = cut \cup UNION {InHand(q) : q \in Requests}
  BY DEF Restart, Unsettled, platform, task
<1>2. World'
  BY <1>1 DEF Inv, World, Listed, IsSession, AreRows, IsRow, RowsOf, IsOf
<1>3. \A q \in Requests : job'[q] = NoJob
  BY <1>1
<1>4. Sole' /\ Gone'
  BY <1>3, IdleIs DEF Sole, Gone, Touches
<1>5. ASSUME NEW q \in Requests PROVE JobOK(job[q])'
  BY <1>3, IdleIs DEF JobOK, Shaped, Formed, RowsOf, IsOf, HandOK, ReadOK, DeleteOK, LogOK, Touches, InWork, Writes
<1>6. HistoryKept'
  BY <1>1 DEF Inv, HistoryKept
<1>7. SessionsAccountedFor'
  <2>. SUFFICES ASSUME NEW s \in DOMAIN sessions, Accounted(s)
                PROVE  s \in cut' \/ (there /\ \E m \in Kinds : rows[m].id = s)
    BY <1>1 DEF Inv, SessionsAccountedFor, Accounted
  <2>. QED BY <1>1 DEF Accounted
<1>. QED BY <1>2, <1>4, <1>5, <1>6, <1>7 DEF Inv

LEMMA HandEditKept == ASSUME Inv, NEW s, NEW v, HandEdit(s, v) PROVE Inv'
<1>1. /\ UNCHANGED <<rows, there, history, crossed, done, overtaken, cut>>
      /\ job' = [q \in Requests |-> [job[q] EXCEPT !.alone = FALSE]]
  BY DEF HandEdit, task
<1>2. Steady
  BY PutSteady DEF Inv, HandEdit
<1>3. Beside({})
  BY <1>1, <1>2 DEF Beside, Steady
<1>4. World'
  <2>1. RowsOf(rows)'
    BY <1>1, <1>2 DEF Inv, World, RowsOf, IsOf, Steady
  <2>. QED BY <1>1, <1>2, <2>1 DEF Inv, World, Steady, AreRows, IsRow, IsSession
<1>5. ASSUME NEW q \in Requests
      PROVE  /\ JobOK(job[q])' /\ Touches(job'[q]) = Touches(job[q])
             /\ InWork(job'[q]) = InWork(job[q]) /\ job'[q].id = job[q].id
  <2>1. PICK k : k = job[q] /\ JobOK(k) /\ Shaped(k)
    BY JobIs
  <2>2. job'[q] = [k EXCEPT !.alone = FALSE]
    BY <1>1, <2>1
  <2>3. JobOK([k EXCEPT !.alone = FALSE])'
    BY <1>1, <1>3, <2>1, AloneKept DEF Inv
  <2>4. JobOK(job[q])'
    BY <2>2, <2>3 DEF JobOK, Shaped, Formed, RowsOf, IsOf, HandOK, ReadOK, DeleteOK, LogOK, Touches, InWork, Writes
  <2>. QED BY <2>1, <2>2, <2>4, AloneIs
<1>6. Sole' /\ Gone'
  BY <1>1, <1>5 DEF Inv, Sole, Gone, Touches
<1>7. HistoryKept'
  BY <1>1 DEF Inv, HistoryKept
<1>8. SessionsAccountedFor'
  <2>. SUFFICES ASSUME NEW t \in DOMAIN sessions', sessions'[t].there, t \notin cut, sessions'[t].kind \notin crossed,
                       ~(\E u \in DOMAIN sessions' : u > t /\ sessions'[u].kind = sessions'[t].kind)
                PROVE  Accounted(t)'
    BY <1>1 DEF SessionsAccountedFor
  <2>1. Accounted(t)
    BY <1>2 DEF Steady, Inv, SessionsAccountedFor
  <2>2. ASSUME NEW q \in Requests, t \in InHand(q) PROVE t \in InHand(q)'
    <3>1. InWork(job'[q]) /\ t = job'[q].id
      BY <1>5, <2>2, InHandIs
    <3>. QED BY <3>1 DEF InHand, InWork
  <2>. QED BY <1>1, <2>1, <2>2 DEF Accounted
<1>. QED BY <1>4, <1>5, <1>6, <1>7, <1>8 DEF Inv

LEMMA SameKept == ASSUME Inv, UNCHANGED <<sessions, Apart, cut, job>> PROVE Inv'
<1>1. UNCHANGED <<sessions, rows, there, crossed, done, overtaken, history, cut, job>>
  BY DEF Apart
<1>2. World' /\ Sole' /\ Gone' /\ HistoryKept'
  BY <1>1 DEF Inv, World, Listed, IsSession, AreRows, IsRow, RowsOf, IsOf, Sole, Gone, Touches, HistoryKept
<1>3. SessionsAccountedFor'
  BY <1>1 DEF Inv, SessionsAccountedFor, Accounted, InHand
<1>4. ASSUME NEW q \in Requests PROVE JobOK(job[q])'
  <2>1. PICK i : i = job[q] /\ JobOK(i)
    BY JobIs
  <2>2. Beside({})
    BY <1>1 DEF Beside
  <2>3. JobOK(i)'
    BY <1>1, <2>1, <2>2, OtherKept DEF Inv
  <2>4. job'[q] = i
    BY <1>1, <2>1
  <2>. QED BY <2>3, <2>4 DEF JobOK, Shaped, Formed, RowsOf, IsOf, HandOK, ReadOK, DeleteOK, LogOK, Touches, InWork, Writes
<1>. QED BY <1>2, <1>3, <1>4 DEF Inv

-----------------------------------------------------------------------------
(* The specification.                                                        *)

LEMMA InitInv == ASSUME Init PROVE Inv
<1>1. job = [p \in Requests |-> NoJob] /\ there /\ crossed = {} /\ done = {} /\ overtaken = {}
  BY DEF Init
<1>2. Listed /\ (\A s \in DOMAIN sessions : IsSession(sessions[s])) /\ AreRows(rows) /\ RowsOf(rows) /\ SessionsAccountedFor
  <2>0. \A k \in Kinds : NoRows[k] = NoRow
    BY DEF NoRows
  <2>1. CASE sessions = <<>> /\ rows = NoRows
    <3>1. Len(sessions) = 0 /\ sessions = [s \in 1..0 |-> sessions[s]]
      BY <2>1
    <3>2. DOMAIN sessions = {}
      BY <3>1
    <3>3. AreRows(rows) /\ RowsOf(rows)
      BY <2>1 DEF AreRows, RowsOf, NoRows, NoRow, IsRow
    <3>. QED BY <3>1, <3>2, <3>3 DEF Listed, SessionsAccountedFor
  <2>2. CASE rows = MadeRows /\ \E b : sessions = <<[Session("formal") EXCEPT !.bound = b], Session("trial")>>
    <3>1. PICK x, y : /\ sessions = <<x, y>> /\ IsSession(x) /\ IsSession(y) /\ x.kind = "formal" /\ y.kind = "trial"
      <4>1. PICK b, x : sessions = <<x, Session("trial")>> /\ x = [Session("formal") EXCEPT !.bound = b]
        BY <2>2
      <4>2. IsSession(x) /\ x.kind = "formal" /\ IsSession(Session("trial")) /\ Session("trial").kind = "trial"
        BY <4>1 DEF Session, IsSession, Kinds
      <4>. QED BY <4>1, <4>2
    <3>2. Len(sessions) = 2 /\ sessions = [s \in 1..2 |-> sessions[s]] /\ DOMAIN sessions = {1, 2}
          /\ sessions[1] = x /\ sessions[2] = y
      BY <3>1
    <3>3. Listed /\ \A s \in DOMAIN sessions : IsSession(sessions[s])
      BY <3>1, <3>2 DEF Listed
    <3>4. rows = [k \in Kinds |-> rows[k]] /\ \A k \in Kinds : IsRow(rows[k]) /\ rows[k].id = IF k = "formal" THEN 1 ELSE 2
      BY <2>2 DEF MadeRows, NoRow, IsRow
    <3>5. AreRows(rows) /\ RowsOf(rows)
      BY <3>1, <3>2, <3>4 DEF AreRows, RowsOf, IsOf, Kinds
    <3>6. \A s \in DOMAIN sessions : \E k \in Kinds : rows[k].id = s
      BY <3>2, <3>4 DEF Kinds
    <3>. QED BY <1>1, <3>3, <3>5, <3>6 DEF SessionsAccountedFor, Accounted
  <2>. QED BY <2>1, <2>2 DEF Init
<1>3. World
  BY <1>1, <1>2 DEF World
<1>4. \A p \in Requests : JobOK(job[p]) /\ Touches(job[p]) = {}
  BY <1>1, IdleIs
<1>5. Sole /\ Gone /\ HistoryKept
  BY <1>1, <1>4 DEF Sole, Gone, HistoryKept
<1>. QED BY <1>2, <1>3, <1>4, <1>5 DEF Inv

LEMMA InvStep == ASSUME Inv, [Next]_vars PROVE Inv'
<1>1. ASSUME NEW p \in Requests, Creation(p) PROVE Inv'
  BY <1>1, QuietKept, BeginningKept, CreationQuiet, RecordKept, ListQuiet, EndingQuiet, BindQuiet DEF Creation
<1>2. ASSUME NEW p \in Requests, Changing(p) PROVE Inv'
  BY <1>2, QuietKept, BeginningKept, ChangeQuiet, RefuseKept, SaveKept, LogKept, SyncQuiet, EndingQuiet, SyncWriteKept, CourseQuiet,
     RenameMarkKept DEF Changing, SyncLook, InventoryFails
<1>3. ASSUME NEW p \in Requests, Keeping(p) PROVE Inv'
  BY <1>3, QuietKept, BeginningKept, ReadingQuiet, VisitQuiet, RefreshKept, DropKept DEF Keeping
<1>4. ASSUME NEW p \in Requests, Call(p) \/ NotFound(p) \/ TaskGone(p) \/ CallFails(p) \/ ReadFails(p) PROVE Inv'
  BY <1>4, QuietKept, CallKept, EndingQuiet, CallFailsKept, ReadFailsQuiet
<1>5. ASSUME NEW code, OtherCourse(code) PROVE Inv'
  BY <1>5, SameKept DEF OtherCourse, task, ghosts, Apart
<1>6. CASE UNCHANGED vars
  BY <1>6, SameKept DEF vars, platform, task, ghosts, Apart
<1>. QED BY <1>1, <1>2, <1>3, <1>4, <1>5, <1>6, EraseKept, RestartKept, HandEditKept DEF Next

(* Init and every step establish the invariant.                              *)
LEMMA InvHolds == Spec => []Inv
BY InitInv, InvStep, PTL DEF Spec

(* No session is left behind on the platform, whatever requests of whatever  *)
(* kind run, fail, are cut off by a restart or meet: but for what they were  *)
(* known to disturb, each is recorded, in hand or replaced by a later one.   *)
THEOREM SessionsAccountedForHolds == Spec => []SessionsAccountedFor
<1>1. Inv => SessionsAccountedFor
  BY DEF Inv
<1>. QED BY <1>1, InvHolds, PTL

(* The log of a task keeps every change that was logged, unless another      *)
(* request had an older log in hand or the retry of a failed change erased   *)
(* it.                                                                       *)
THEOREM HistoryKeptHolds == Spec => []HistoryKept
<1>1. Inv => HistoryKept
  BY DEF Inv
<1>. QED BY <1>1, InvHolds, PTL

-----------------------------------------------------------------------------
(* What the record shows.  Requests that work on one kind of session at once *)
(* leave it unsure and uncounted, and none of them is alone.                 *)
Meet ==
    \A p, q \in Requests : p # q =>
        \A k \in Touches(job[p]) \cap Touches(job[q]) \cap Kinds :
            ~job[p].alone /\ k \in unsure /\ k \in uncounted

ShowsValue(k) ==
    Recorded(k) => sessions[rows[k].id].there /\ rows[k].value = sessions[rows[k].id].value
ShowsEntries(k) == Recorded(k) => rows[k].entries = sessions[rows[k].id].entries
ShowsRooms(k) == Recorded(k) => rows[k].rooms = sessions[rows[k].id].rooms

(* The platform has been changed, and not yet the record.                    *)
ValueBehind(j) == j.op = "delete" \/ (j.op = "change" /\ j.at = "saving")
EntriesBehind(j) == j.op = "import" /\ j.at \in {"reading", "saving"}
RoomsBehind(j) == j.op = "rooms" /\ j.at \in {"arranging", "saving"}
Behind(j) == ValueBehind(j) \/ EntriesBehind(j) \/ RoomsBehind(j)

Shows(j, k) ==
    /\ k \in unsure \/ ValueBehind(j) \/ ShowsValue(k)
    /\ k \in uncounted \/ EntriesBehind(j) \/ ShowsEntries(k)
    /\ k \in uncounted \/ RoomsBehind(j) \/ ShowsRooms(k)

(* Nothing disturbed what a request has read: of the values, of the numbers. *)
Certain(j, k) == j.alone \/ k \notin unsure
Counts(j, k) == j.alone \/ k \notin uncounted

(* What a request holds that writes back a row.                              *)
RowIs(j) ==
    j.op \in Rewrites /\ ~(j.op \in {"change", "sync"} /\ j.at = "logging") =>
        \A k \in Touches(j) \cap Kinds : Certain(j, k) \/ Counts(j, k) => j.rows[k] = rows[k]
Named(j) == j.op \in {"change", "sync", "import", "rooms"} \/ j.at = "refreshing" => Row(j).id # NoSession

(* What is on the platform when a request has changed it or has read it.     *)
ChangeOK(j) ==
    LET x == sessions[Row(j).id] IN
    j.op = "change" /\ j.at = "saving" /\ j.kind \notin unsure => x.there /\ x.value = j.to
SyncOK(j) ==
    LET x == sessions[Row(j).id] IN
    j.op = "sync" /\ Certain(j, j.kind) =>
        /\ j.at = "syncing" => x.there /\ x.value = j.seen.value
        /\ j.at = "logging" => ShowsValue(j.kind)
ImportOK(j) ==
    LET x == sessions[Row(j).id] IN
    j.op = "import" =>
        /\ j.at = "personal" /\ j.kind \notin unsure => x.value = j.seen.value
        /\ j.at = "saving" /\ j.kind \notin uncounted => x.entries = j.seen.entries /\ x.rooms = j.seen.rooms
RoomsOK(j) ==
    LET x == sessions[Row(j).id] IN
    j.op = "rooms" /\ j.at \in {"clearing", "arranging", "saving"} /\ j.kind \notin uncounted =>
        x.there /\ x.entries = j.seen.entries /\ (j.at = "saving" => x.rooms = j.to)
OpenOK(j) ==
    LET x == sessions[Row(j).id] IN
    j.op = "open" /\ j.at = "refreshing" /\ Counts(j, j.kind) =>
        x.entries = j.seen.entries /\ x.rooms = j.seen.rooms
CreateOK(j) ==
    LET x == sessions[j.id] IN
    InWork(j) =>
        /\ j.kind \notin unsure => x.there /\ x.value = First
        /\ j.kind \notin uncounted => x.entries = 0 /\ x.rooms = 0

PlaceOK(j) == ChangeOK(j) /\ SyncOK(j) /\ ImportOK(j) /\ RoomsOK(j) /\ OpenOK(j) /\ CreateOK(j)
Fits(j) == Named(j) /\ RowIs(j) /\ PlaceOK(j) /\ \A k \in Touches(j) \cap Kinds : Shows(j, k)

AllFit ==
    there => /\ \A k \in Kinds : Idle({k}) => Shows(NoJob, k)
             /\ \A p \in Requests : Fits(job[p])
RecordInv == Meet /\ AllFit

(* Nothing of the sessions and rows changes but for the kinds in T.          *)
AsBefore(s) ==
    /\ sessions'[s].value = sessions[s].value /\ sessions'[s].there = sessions[s].there
    /\ sessions'[s].entries = sessions[s].entries /\ sessions'[s].rooms = sessions[s].rooms
Only(T) ==
    /\ \A s \in DOMAIN sessions : sessions[s].kind \in T \/ AsBefore(s)
    /\ \A k \in Kinds \ T : /\ rows'[k] = rows[k]
                            /\ (k \in unsure' <=> k \in unsure) /\ (k \in uncounted' <=> k \in uncounted)

LEMMA NothingOnly ==
    ASSUME UNCHANGED <<sessions, rows, unsure, uncounted>>
    PROVE  \A T : Only(T)
BY DEF Only, AsBefore

LEMMA ShowsKept ==
    ASSUME World, NEW T, Only(T), NEW k \in Kinds \ T, NEW i, Shows(i, k)
    PROVE  Shows(i, k)'
<1>1. rows'[k] = rows[k] /\ (k \in unsure' <=> k \in unsure) /\ (k \in uncounted' <=> k \in uncounted)
  BY DEF Only
<1>2. Recorded(k) => AsBefore(rows[k].id)
  BY DEF World, RowsOf, IsOf, Only, Recorded
<1>3. ShowsValue(k) => ShowsValue(k)'
  BY <1>1, <1>2 DEF ShowsValue, AsBefore, Recorded
<1>4. ShowsEntries(k) => ShowsEntries(k)'
  BY <1>1, <1>2 DEF ShowsEntries, AsBefore, Recorded
<1>5. ShowsRooms(k) => ShowsRooms(k)'
  BY <1>1, <1>2 DEF ShowsRooms, AsBefore, Recorded
<1>. QED BY <1>1, <1>3, <1>4, <1>5 DEF Shows, ValueBehind, EntriesBehind, RoomsBehind

(* What a request works on, by what it was asked for.                        *)
LEMMA KindsOf ==
    ASSUME NEW j, j.op \in DOMAIN Steps, j.kind \in Kinds
    PROVE  /\ j.op \in {"change", "sync", "import", "rooms"} => Touches(j) \cap Kinds = {j.kind}
           /\ j.op \in {"create", "open", "delete"} => Touches(j) \cap Kinds = Kinds
           /\ j.op \in {"none", "bind", "course"} => Touches(j) \cap Kinds = {}
           /\ j.op # "none" => Touches(j) # {}
BY DEF Steps, Touches, Things, Kinds

(* Another request finds what it has read as it was, unless it had met the   *)
(* one that makes the step.                                                  *)
LEMMA FitsKept ==
    ASSUME World, NEW i, Shaped(i), RowsOf(i.rows), InWork(i) => IsOf(i.id, i.kind), Fits(i), NEW T, Only(T),
           \A k \in Touches(i) \cap T \cap Kinds : ~i.alone /\ k \in unsure' /\ k \in uncounted'
    PROVE  Fits(i)'
<1>1. i.kind \in Kinds /\ i.op \in DOMAIN Steps
  BY DEF Shaped
<1>2. PICK k : k = i.kind
  OBVIOUS
<1>3. i.op \in {"change", "sync", "import", "rooms", "open"} \/ InWork(i) => k \in Touches(i) \cap Kinds
  <2>1. InWork(i) => i.op = "create"
    BY CreatesIs
  <2>. QED BY <1>1, <1>2, <2>1, KindsOf
<1>4. Touches(i)' = Touches(i)
  BY DEF Touches
<1>5. ASSUME NEW m \in Touches(i) \cap Kinds PROVE Shows(i, m)'
  <2>1. CASE m \in T
    BY <2>1 DEF Shows
  <2>2. CASE m \notin T
    BY <2>2, ShowsKept DEF Fits
  <2>. QED BY <2>1, <2>2
<1>6. RowIs(i)'
  <2>. SUFFICES ASSUME RowIs(i), NEW m \in Touches(i) \cap Kinds, Certain(i, m)' \/ Counts(i, m)', i.op \in Rewrites,
                       ~(i.op \in {"change", "sync"} /\ i.at = "logging")
                PROVE  i.rows[m] = rows'[m]
    BY <1>4 DEF RowIs, Fits, Certain, Counts
  <2>1. m \notin T
    BY DEF Certain, Counts
  <2>. QED BY <2>1 DEF RowIs, Only, Certain, Counts
<1>7. Named(i)'
  BY DEF Fits, Named, Row
<1>8. PICK s : s = Row(i).id
  OBVIOUS
<1>9. k \notin T => (s # NoSession => AsBefore(s)) /\ (InWork(i) => AsBefore(i.id))
  BY <1>1, <1>2, <1>8 DEF RowsOf, IsOf, Only, Row
<1>10. s # NoSession \/ ~(i.op \in {"change", "sync", "import", "rooms"} \/ i.at = "refreshing")
  BY <1>8 DEF Fits, Named
<1>11. Row(i)' = Row(i)
  BY DEF Row
<1>12. k \notin T => (k \in unsure' <=> k \in unsure) /\ (k \in uncounted' <=> k \in uncounted)
  BY <1>1, <1>2 DEF Only
<1>13. CASE k \in T
  <2>1. k \in Touches(i) => ~i.alone /\ k \in unsure' /\ k \in uncounted'
    BY <1>1, <1>2, <1>13
  <2>2. ChangeOK(i)' /\ SyncOK(i)' /\ ImportOK(i)' /\ RoomsOK(i)' /\ OpenOK(i)' /\ CreateOK(i)'
    BY <1>2, <1>3, <2>1 DEF ChangeOK, SyncOK, ImportOK, RoomsOK, OpenOK, CreateOK, Certain, Counts, InWork
  <2>. QED BY <1>5, <1>6, <1>7, <1>4, <2>2 DEF Fits, PlaceOK
<1>14. CASE k \notin T
  <2>1. ChangeOK(i)' /\ RoomsOK(i)' /\ ImportOK(i)'
    BY <1>2, <1>8, <1>9, <1>10, <1>11, <1>12, <1>14 DEF Fits, PlaceOK, ChangeOK, ImportOK, RoomsOK, AsBefore
  <2>2. OpenOK(i)'
    BY <1>2, <1>8, <1>9, <1>10, <1>11, <1>12, <1>14 DEF Fits, PlaceOK, OpenOK, AsBefore, Counts
  <2>3. CreateOK(i)'
    BY <1>2, <1>9, <1>12, <1>14 DEF Fits, PlaceOK, CreateOK, AsBefore, InWork
  <2>4. SyncOK(i)'
    <3>1. ShowsValue(k) => ShowsValue(k)'
      <4>1. rows'[k] = rows[k] /\ (Recorded(k) => AsBefore(rows[k].id))
        BY <1>1, <1>2, <1>14 DEF World, RowsOf, IsOf, Only, Recorded
      <4>. QED BY <4>1 DEF ShowsValue, AsBefore, Recorded
    <3>. QED BY <1>2, <1>8, <1>9, <1>10, <1>11, <1>12, <1>14, <3>1 DEF Fits, PlaceOK, SyncOK, AsBefore, Certain
  <2>. QED BY <1>5, <1>6, <1>7, <1>4, <2>1, <2>2, <2>3, <2>4 DEF Fits, PlaceOK
<1>. QED BY <1>13, <1>14

LEMMA NoneFits == Fits(NoJob) /\ Fits(NoJob)' /\ ~Behind(NoJob)
<1>1. NoJob.op = "none" /\ NoJob.at = "idle" /\ Touches(NoJob) = {} /\ ~InWork(NoJob)
  BY IdleIs DEF NoJob
<1>2. Named(NoJob) /\ RowIs(NoJob) /\ PlaceOK(NoJob)
  BY <1>1 DEF Named, RowIs, Rewrites, PlaceOK, ChangeOK, SyncOK, ImportOK, RoomsOK, OpenOK, CreateOK
<1>3. Named(NoJob)' /\ RowIs(NoJob)' /\ PlaceOK(NoJob)'
  BY <1>1 DEF Named, RowIs, Rewrites, PlaceOK, ChangeOK, SyncOK, ImportOK, RoomsOK, OpenOK, CreateOK, Row, Touches, InWork
<1>4. Touches(NoJob)' = {}
  BY <1>1 DEF Touches
<1>. QED BY <1>1, <1>2, <1>3, <1>4 DEF Fits, Behind, ValueBehind, EntriesBehind, RoomsBehind

LEMMA FitsAt == ASSUME NEW q, NEW o, o = job'[q], Fits(o)' PROVE Fits(job[q])'
BY DEF Fits, Named, RowIs, PlaceOK, ChangeOK, SyncOK, ImportOK, RoomsOK, OpenOK, CreateOK, Certain, Counts, Row, Touches,
       InWork, Shows, ShowsValue, ShowsEntries, ShowsRooms, ValueBehind, EntriesBehind, RoomsBehind, Recorded

(* A step of one request, which is alone when it makes anything sure again.  *)
LEMMA StepShown ==
    ASSUME Inv, RecordInv, NEW p \in Requests, NEW i, i = job[p], NEW j, Becomes(p, j), Only(Touches(i)), there' => there,
           Touches(j) \subseteq Touches(i), j.alone => i.alone \/ Touches(j) = {},
           \A k \in Kinds : (k \in unsure /\ k \notin unsure') \/ (k \in uncounted /\ k \notin uncounted') => i.alone,
           there' => Fits(j)' /\ \A k \in (Touches(i) \cap Kinds) \ Touches(j) : Shows(NoJob, k)'
    PROVE  RecordInv'
<1>1. job'[p] = j /\ \A q \in Requests : q # p => job'[q] = job[q]
  BY DEF Inv, World, Becomes
<1>2. ASSUME NEW q \in Requests, q # p, NEW k \in Touches(job[q]) \cap Touches(i) \cap Kinds
      PROVE  ~job[q].alone /\ ~i.alone /\ k \in unsure' /\ k \in uncounted'
  BY <1>2 DEF RecordInv, Meet
<1>3. \A k \in Kinds \ Touches(i) : (k \in unsure' <=> k \in unsure) /\ (k \in uncounted' <=> k \in uncounted)
  BY DEF Only
<1>4. Meet'
  <2>. SUFFICES ASSUME NEW q \in Requests, NEW r \in Requests, q # r,
                       NEW k \in Touches(job'[q]) \cap Touches(job'[r]) \cap Kinds
                PROVE  ~job'[q].alone /\ k \in unsure' /\ k \in uncounted'
    BY DEF Meet, Touches
  <2>1. CASE q = p \/ r = p
    BY <1>1, <1>2, <2>1
  <2>2. CASE q # p /\ r # p
    <3>1. ~job[q].alone /\ k \in unsure /\ k \in uncounted
      BY <1>1, <2>2 DEF RecordInv, Meet
    <3>. QED BY <1>1, <1>2, <1>3, <2>2, <3>1
  <2>. QED BY <2>1, <2>2
<1>5. ASSUME there' PROVE (\A k \in Kinds : Idle({k}) => Shows(NoJob, k))' /\ \A q \in Requests : Fits(job[q])'
  <2>1. ASSUME NEW k \in Kinds, Idle({k})' PROVE Shows(NoJob, k)'
    <3>1. \A q \in Requests : k \notin Touches(job'[q])
      BY <2>1 DEF Idle, Touches
    <3>2. CASE k \in Touches(i)
      BY <1>1, <1>5, <3>1, <3>2
    <3>3. CASE k \notin Touches(i)
      <4>1. Idle({k})
        BY <1>1, <3>1, <3>3 DEF Idle
      <4>. QED BY <1>5, <3>3, <4>1, ShowsKept DEF RecordInv, AllFit, Inv
    <3>. QED BY <3>2, <3>3
  <2>2. ASSUME NEW q \in Requests PROVE Fits(job[q])'
    <3>1. CASE q = p
      BY <1>1, <1>5, <3>1, FitsAt
    <3>2. CASE q # p
      <4>1. PICK o : o = job[q]
        OBVIOUS
      <4>2. JobOK(o) /\ Fits(o)
        BY <1>5, <4>1 DEF Inv, RecordInv, AllFit
      <4>3. \A k \in Touches(o) \cap Touches(i) \cap Kinds : ~o.alone /\ k \in unsure' /\ k \in uncounted'
        BY <1>2, <3>2, <4>1
      <4>4. Fits(o)'
        BY <4>2, <4>3, FitsKept DEF Inv, JobOK, HandOK
      <4>. QED BY <1>1, <3>2, <4>1, <4>4, FitsAt
    <3>. QED BY <3>1, <3>2
  <2>. QED BY <2>1, <2>2
<1>. QED BY <1>4, <1>5 DEF RecordInv, AllFit

(* A step that leaves the sessions and rows as they are.                     *)
LEMMA StillShown ==
    ASSUME Inv, Inv', RecordInv, NEW p \in Requests, NEW i, i = job[p], NEW j, Becomes(p, j), Only({}), there' => there,
           j.rows = i.rows, InWork(j) => InWork(i) /\ j.id = i.id /\ j.kind = i.kind,
           Touches(j) \subseteq Touches(i), j.alone => i.alone \/ Touches(j) = {},
           there /\ Fits(i) => Fits(j) /\ \A k \in (Touches(i) \cap Kinds) \ Touches(j) : Shows(NoJob, k)
    PROVE  RecordInv'
<1>1. JobOK(i) /\ (there => Fits(i))
  BY DEF Inv, RecordInv, AllFit
<1>2. Shaped(j)
  <2>1. job'[p] = j /\ JobOK(job[p])'
    BY DEF Inv, World, Becomes
  <2>. QED BY <2>1 DEF JobOK, Shaped, Formed, AreRows, IsRow
<1>3. RowsOf(j.rows) /\ (InWork(j) => IsOf(j.id, j.kind))
  BY <1>1 DEF JobOK, HandOK
<1>4. there => Fits(j)'
  BY <1>1, <1>2, <1>3, FitsKept DEF Inv
<1>5. there => \A k \in (Touches(i) \cap Kinds) \ Touches(j) : Shows(NoJob, k)'
  BY <1>1, ShowsKept DEF Inv
<1>6. Only(Touches(i)) /\ \A k \in Kinds : (k \in unsure' <=> k \in unsure) /\ (k \in uncounted' <=> k \in uncounted)
  BY DEF Only
<1>. QED BY <1>4, <1>5, <1>6, StepShown

LEMMA EndsShown ==
    ASSUME Inv, Inv', RecordInv, NEW p \in Requests, NEW i, i = job[p], Becomes(p, NoJob), Only({}), there' => there,
           there /\ Fits(i) => ~Behind(i) \/ \A k \in Touches(i) \cap Kinds : Shows(NoJob, k)
    PROVE  RecordInv'
<1>1. there /\ Fits(i) => \A k \in Touches(i) \cap Kinds : Shows(NoJob, k)
  BY DEF Fits, Shows, Behind
<1>2. Touches(NoJob) = {} /\ ~InWork(NoJob) /\ Fits(NoJob)
  BY IdleIs, NoneFits
<1>3. there => Fits(NoJob)' /\ \A k \in Touches(i) \cap Kinds : Shows(NoJob, k)'
  <2>1. there => Fits(i)
    BY DEF RecordInv, AllFit
  <2>. QED BY <1>1, <2>1, NoneFits, ShowsKept DEF Inv
<1>4. Only(Touches(i)) /\ \A k \in Kinds : (k \in unsure' <=> k \in unsure) /\ (k \in uncounted' <=> k \in uncounted)
  BY DEF Only
<1>. QED BY <1>2, <1>3, <1>4, StepShown

(* Creations, bindings and renamings work on no row until they record one.   *)
LEMMA MakingShown ==
    ASSUME Inv, Inv', RecordInv, NEW p \in Requests, job[p].op \in {"create", "bind", "course"}, Only({}), there' = there,
           \E j : Becomes(p, j) /\ (Shifted(job[p], j) \/ j = NoJob)
    PROVE  RecordInv'
<1>1. PICK i : i = job[p] /\ JobOK(i) /\ Shaped(i) /\ i.op \in {"create", "bind", "course"}
  BY JobIs
<1>2. PICK j : Becomes(p, j) /\ (Shifted(i, j) \/ j = NoJob)
  BY <1>1
<1>3. there' = there
  OBVIOUS
<1>4. ~Behind(i)
  BY <1>1 DEF Behind, ValueBehind, EntriesBehind, RoomsBehind
<1>5. CASE j = NoJob
  BY <1>1, <1>2, <1>3, <1>4, <1>5, EndsShown
<1>6. CASE Shifted(i, j)
  <2>1. j.op = i.op /\ j.at \in Steps[i.op] /\ ~Behind(j)
    BY <1>1, <1>6 DEF Shifted, Behind, ValueBehind, EntriesBehind, RoomsBehind
  <2>2. Touches(j) = Touches(i)
    BY <1>1, <2>1 DEF Touches
  <2>3. j.at # "refreshing" /\ j.op \notin Rewrites
    BY <1>1, <2>1 DEF Steps, Rewrites
  <2>4. Fits(i) => Fits(j)
    <3>. SUFFICES ASSUME Fits(i) PROVE Fits(j)
      OBVIOUS
    <3>1. Named(j) /\ RowIs(j)
      BY <2>3 DEF Named, RowIs, Rewrites
    <3>2. ChangeOK(j) /\ SyncOK(j) /\ ImportOK(j) /\ RoomsOK(j) /\ OpenOK(j)
      BY <2>3 DEF ChangeOK, SyncOK, ImportOK, RoomsOK, OpenOK, Rewrites
    <3>3. CreateOK(j)
      BY <1>6 DEF Fits, PlaceOK, CreateOK, Shifted
    <3>4. \A k \in Touches(j) \cap Kinds : Shows(j, k)
      BY <1>4, <2>1, <2>2 DEF Fits, Shows, Behind
    <3>. QED BY <3>1, <3>2, <3>3, <3>4 DEF Fits, PlaceOK
  <2>. QED BY <1>1, <1>2, <1>3, <1>6, <2>2, <2>4, StillShown DEF Shifted
<1>. QED BY <1>2, <1>5, <1>6

LEMMA MakingQuietShown ==
    ASSUME Inv, Inv', RecordInv, NEW p \in Requests, Quiet(p), job[p].op \in {"create", "bind", "course"}, Only({})
    PROVE  RecordInv'
BY MakingShown DEF Quiet, Apart

(* A request goes on with the row that it has read.                          *)
LEMMA AlikeShown ==
    ASSUME Inv, Inv', RecordInv, NEW p \in Requests, NEW i, i = job[p], NEW j, Becomes(p, j), Alike(i, j),
           Only({}), there' => there, ~InWork(j), j.at = "refreshing" => i.at = "refreshing",
           ValueBehind(i) => ValueBehind(j), EntriesBehind(i) => EntriesBehind(j), RoomsBehind(i) => RoomsBehind(j),
           i.at = "logging" => i.op \notin Rewrites, Fits(i) /\ there => PlaceOK(j)
    PROVE  RecordInv'
<1>1. Touches(j) = Touches(i) /\ Row(j) = Row(i)
  BY DEF Alike, Touches, Row
<1>2. there /\ Fits(i) => Fits(j)
  <2>. SUFFICES ASSUME there, Fits(i) PROVE Fits(j)
    OBVIOUS
  <2>1. Named(j)
    BY <1>1 DEF Fits, Named, Alike
  <2>2. RowIs(j)
    <3>. SUFFICES ASSUME j.op \in Rewrites, NEW k \in Touches(j) \cap Kinds, Certain(j, k) \/ Counts(j, k)
                  PROVE  j.rows[k] = rows[k]
      BY DEF RowIs
    <3>. QED BY <1>1 DEF Fits, RowIs, Alike, Certain, Counts
  <2>3. \A k \in Touches(j) \cap Kinds : Shows(j, k)
    BY <1>1 DEF Fits, Shows
  <2>. QED BY <2>1, <2>2, <2>3 DEF Fits
<1>. QED BY <1>1, <1>2, StillShown DEF Alike

-----------------------------------------------------------------------------
(* What a call puts into a session.                                          *)
Fields == {"value", "entries", "rooms", "there", "bound"}

LEMMA PutIs ==
    ASSUME World, NEW s, NEW f \in Fields, NEW v, Put(s, f, v)
    PROVE  /\ DOMAIN sessions' = DOMAIN sessions
           /\ \A t \in DOMAIN sessions :
                /\ sessions'[t].kind = sessions[t].kind
                /\ t # s \/ f = "bound" => AsBefore(t)
                /\ f # "value" => sessions'[t].value = sessions[t].value
                /\ f # "there" => sessions'[t].there = sessions[t].there
                /\ f # "entries" => sessions'[t].entries = sessions[t].entries
                /\ f # "rooms" => sessions'[t].rooms = sessions[t].rooms
                /\ f = "value" /\ t = s => sessions'[t].value = v
                /\ f = "entries" /\ t = s => sessions'[t].entries = v
                /\ f = "rooms" /\ t = s => sessions'[t].rooms = v
<1>1. DOMAIN sessions' = DOMAIN sessions
  BY DEF Put, World, Listed
<1>2. \A t \in DOMAIN sessions : sessions'[t] = IF t = s THEN [sessions[t] EXCEPT ![f] = v] ELSE sessions[t]
  BY DEF Put
<1>3. ASSUME NEW t \in DOMAIN sessions
      PROVE  /\ sessions'[t].kind = sessions[t].kind
             /\ t # s \/ f = "bound" => AsBefore(t)
             /\ f # "value" => sessions'[t].value = sessions[t].value
             /\ f # "there" => sessions'[t].there = sessions[t].there
             /\ f # "entries" => sessions'[t].entries = sessions[t].entries
             /\ f # "rooms" => sessions'[t].rooms = sessions[t].rooms
             /\ f = "value" /\ t = s => sessions'[t].value = v
             /\ f = "entries" /\ t = s => sessions'[t].entries = v
             /\ f = "rooms" /\ t = s => sessions'[t].rooms = v
  <2>1. PICK x : x = sessions[t] /\ IsSession(x)
    BY DEF World
  <2>2. PICK y : y = [x EXCEPT ![f] = v]
    OBVIOUS
  <2>3. /\ y.kind = x.kind
        /\ f # "value" => y.value = x.value
        /\ f # "there" => y.there = x.there
        /\ f # "entries" => y.entries = x.entries
        /\ f # "rooms" => y.rooms = x.rooms
        /\ f = "value" => y.value = v
        /\ f = "entries" => y.entries = v
        /\ f = "rooms" => y.rooms = v
    BY <2>1, <2>2 DEF IsSession, Fields
  <2>4. sessions'[t] = IF t = s THEN y ELSE x
    BY <1>2, <2>1, <2>2
  <2>. QED BY <2>1, <2>3, <2>4 DEF AsBefore
<1>. QED BY <1>1, <1>3

(* Calls about courses and bindings.                                         *)
LEMMA CallMaking ==
    ASSUME Inv, Inv', RecordInv, NEW p \in Requests, Call(p), job[p].at \in {"creating", "binding", "renaming"}
    PROVE  RecordInv'
<1>1. job[p].op \in {"create", "bind", "course"}
  BY JobIs, OpAt
<1>2. UNCHANGED <<rows, unsure, uncounted>>
  BY DEF Call, task
<1>3. Only({})
  <2>1. UNCHANGED sessions \/ \E v : Put(job[p].of, "bound", v)
    BY DEF Call, CarriedOut, At
  <2>2. ASSUME NEW v, Put(job[p].of, "bound", v) PROVE \A s \in DOMAIN sessions : AsBefore(s)
    BY <2>2, PutIs DEF Inv, Fields
  <2>. QED BY <1>2, <2>1, <2>2 DEF Only, AsBefore
<1>. QED BY <1>1, <1>3, CallQuiet, MakingQuietShown

(* The session a creation has made is as a session is to begin with.         *)
LEMMA CallPostingShown ==
    ASSUME Inv, Inv', RecordInv, NEW p \in Requests, Call(p), At(p, "posting")
    PROVE  RecordInv'
<1>1. PICK i : i = job[p] /\ Shaped(i) /\ i.at = "posting" /\ i.op = "create"
  BY JobIs, OpAt DEF At
<1>2. Posted(i.kind) /\ i.kind \in Kinds
  BY <1>1, PostingIs DEF Inv, Call, Shaped
<1>3. PICK j : j = [i EXCEPT !.at = "configuring", !.id = Len(sessions) + 1] /\ Becomes(p, j)
  BY <1>1 DEF Call, Onwards
<1>4. UNCHANGED <<rows, unsure, uncounted, there>>
  BY DEF Call, task
<1>5. \A T : Only(T)
  BY <1>2, <1>4 DEF Posted, Only, AsBefore
<1>6. j.op = "create" /\ j.kind = i.kind /\ j.at = "configuring" /\ j.id = Len(sessions) + 1 /\ j.alone = i.alone
  BY <1>1, <1>3 DEF Shaped, Formed
<1>7. Touches(j) = Touches(i)
  BY <1>1, <1>6 DEF Touches
<1>8. ASSUME there' PROVE Fits(j)'
  <2>1. Fits(i)
    BY <1>1, <1>4, <1>8 DEF RecordInv, AllFit
  <2>2. Named(j)' /\ RowIs(j)'
    BY <1>6 DEF Named, RowIs, Rewrites
  <2>3. ChangeOK(j)' /\ SyncOK(j)' /\ ImportOK(j)' /\ RoomsOK(j)' /\ OpenOK(j)'
    BY <1>6 DEF ChangeOK, SyncOK, ImportOK, RoomsOK, OpenOK
  <2>4. CreateOK(j)'
    BY <1>2, <1>6 DEF CreateOK, Posted, Session
  <2>5. ASSUME NEW k \in Touches(j)' \cap Kinds PROVE Shows(j, k)'
    <3>1. Shows(j, k)
      BY <1>1, <1>6, <1>7, <2>1, <2>5 DEF Fits, Shows, ValueBehind, EntriesBehind, RoomsBehind, Touches
    <3>. QED BY <1>5, <3>1, ShowsKept DEF Inv
  <2>. QED BY <2>2, <2>3, <2>4, <2>5 DEF Fits, PlaceOK
<1>. QED BY <1>1, <1>3, <1>4, <1>5, <1>6, <1>7, <1>8, StepShown

LEMMA RecordShown == ASSUME Inv, Inv', RecordInv, NEW p \in Requests, Record(p) PROVE RecordInv'
<1>1. PICK i : i = job[p] /\ Shaped(i) /\ i.at = "recording" /\ i.op = "create" /\ InWork(i)
  <2>1. PICK i : i = job[p] /\ Shaped(i) /\ i.at = "recording"
    BY JobIs DEF Record, At
  <2>. QED BY <2>1, OpAt DEF InWork
<1>2. i.kind \in Kinds /\ Touches(i) \cap Kinds = Kinds /\ UNCHANGED <<sessions, unsure, uncounted, there>>
  BY <1>1, KindsOf DEF Shaped, Record, platform, ghosts
<1>3. PICK k, r : k = i.kind /\ r = [NoRow EXCEPT !.id = i.id] /\ rows' = [rows EXCEPT ![k] = r]
  BY <1>1 DEF Record, RowOf
<1>4. rows'[k] = r /\ \A m \in Kinds : m # k => rows'[m] = rows[m]
  BY <1>2, <1>3 DEF Inv, World, AreRows
<1>5. Only({k}) /\ Only(Touches(i))
  BY <1>2, <1>3, <1>4 DEF Only, AsBefore
<1>6. PICK j : j = [i EXCEPT !.at = "made"] /\ Becomes(p, j)
  BY <1>1 DEF Record, Goes
<1>7. j.op = "create" /\ j.at = "made" /\ j.alone = i.alone
  BY <1>1, <1>6 DEF Shaped, Formed
<1>8. Touches(j) = Touches(i)
  BY <1>1, <1>7 DEF Touches
<1>9. ASSUME there' PROVE Fits(j)'
  <2>1. Fits(i)
    BY <1>1, <1>2, <1>9 DEF RecordInv, AllFit
  <2>2. Named(j)' /\ RowIs(j)'
    BY <1>7 DEF Named, RowIs, Rewrites
  <2>3. PlaceOK(j)'
    BY <1>7 DEF PlaceOK, ChangeOK, SyncOK, ImportOK, RoomsOK, OpenOK, CreateOK, InWork
  <2>4. ASSUME NEW m \in Kinds, m # k PROVE Shows(j, m)'
    <3>1. Shows(j, m)
      BY <1>1, <1>2, <1>7, <2>1 DEF Fits, Shows, ValueBehind, EntriesBehind, RoomsBehind
    <3>. QED BY <1>5, <2>4, <3>1, ShowsKept DEF Inv
  <2>5. Shows(j, k)'
    <3>1. r.id = i.id /\ r.value = First /\ r.entries = 0 /\ r.rooms = 0
      BY <1>3 DEF NoRow
    <3>2. CreateOK(i)
      BY <2>1 DEF Fits, PlaceOK
    <3>3. k \notin unsure => ShowsValue(k)'
      BY <1>1, <1>2, <1>3, <1>4, <3>1, <3>2 DEF CreateOK, ShowsValue
    <3>4. k \notin uncounted => ShowsEntries(k)' /\ ShowsRooms(k)'
      BY <1>1, <1>2, <1>3, <1>4, <3>1, <3>2 DEF CreateOK, ShowsEntries, ShowsRooms
    <3>. QED BY <1>2, <3>3, <3>4 DEF Shows
  <2>. QED BY <2>2, <2>3, <2>4, <2>5 DEF Fits
<1>. QED BY <1>1, <1>2, <1>5, <1>6, <1>7, <1>8, <1>9, StepShown

(* A deletion leaves numbers alone, until it drops the task.                 *)
LEMMA CallDeletingShown ==
    ASSUME Inv, Inv', RecordInv, NEW p \in Requests, Call(p), At(p, "deleting")
    PROVE  RecordInv'
<1>1. PICK i : i = job[p] /\ Shaped(i) /\ i.at = "deleting" /\ i.op = "delete"
  BY JobIs, OpAt DEF At
<1>2. PICK s : Put(s, "there", FALSE)
  BY <1>1 DEF Call, CarriedOut, At
<1>3. PICK item, j : j = Done(i, item, "dropping") /\ Becomes(p, j)
  BY <1>1 DEF Call, Onwards
<1>4. UNCHANGED <<rows, unsure, uncounted, there>>
  BY DEF Call, task
<1>5. j.op = "delete" /\ j.at \in {"deleting", "dropping"} /\ j.alone = i.alone
  BY <1>1, <1>3 DEF Shaped, Formed, Done
<1>6. Touches(j) = Touches(i) /\ Kinds \subseteq Touches(i)
  <2>1. Touches(j) = Touches(i)
    BY <1>1, <1>5 DEF Touches
  <2>. QED BY <1>1, <2>1, KindsOf DEF Shaped
<1>7. Only(Touches(i))
  BY <1>4, <1>6 DEF Only, Inv, World, IsSession
<1>8. ASSUME there' PROVE Fits(j)'
  <2>1. Fits(i)
    BY <1>1, <1>4, <1>8 DEF RecordInv, AllFit
  <2>2. Named(j)' /\ RowIs(j)'
    BY <1>5 DEF Named, RowIs, Rewrites
  <2>3. PlaceOK(j)'
    BY <1>5 DEF PlaceOK, ChangeOK, SyncOK, ImportOK, RoomsOK, OpenOK, CreateOK, InWork
  <2>4. ASSUME NEW k \in Kinds PROVE Shows(j, k)'
    <3>1. Shows(i, k)
      BY <1>6, <2>1 DEF Fits
    <3>2. \A t \in DOMAIN sessions : sessions'[t].entries = sessions[t].entries /\ sessions'[t].rooms = sessions[t].rooms
      BY <1>2, PutIs DEF Inv, Fields
    <3>3. Recorded(k) => rows[k].id \in DOMAIN sessions
      BY DEF Inv, World, RowsOf, IsOf, Recorded
    <3>4. (ShowsEntries(k) => ShowsEntries(k)') /\ (ShowsRooms(k) => ShowsRooms(k)')
      BY <1>4, <3>2, <3>3 DEF ShowsEntries, ShowsRooms, Recorded
    <3>. QED BY <1>1, <1>4, <1>5, <3>1, <3>4 DEF Shows, ValueBehind, EntriesBehind, RoomsBehind
  <2>. QED BY <2>2, <2>3, <2>4 DEF Fits
<1>. QED BY <1>1, <1>3, <1>4, <1>5, <1>6, <1>7, <1>8, StepShown

LEMMA DropShown == ASSUME Inv, Inv', RecordInv, NEW p \in Requests, Drop(p) PROVE RecordInv'
<1>1. PICK i : i = job[p] /\ Shaped(i) /\ i.at = "dropping" /\ i.op = "delete"
  BY JobIs, OpAt DEF Drop, At
<1>2. UNCHANGED <<sessions, unsure, uncounted>> /\ ~there' /\ Becomes(p, NoJob)
  BY DEF Drop, Ends, platform, ghosts
<1>3. Kinds \subseteq Touches(i) /\ Touches(NoJob) = {}
  BY <1>1, KindsOf, IdleIs DEF Shaped
<1>4. Only(Touches(i))
  BY <1>2, <1>3 DEF Only, AsBefore
<1>. QED BY <1>1, <1>2, <1>3, <1>4, StepShown

-----------------------------------------------------------------------------
(* Steps that work on no session.                                            *)

LEMMA CreationShown ==
    ASSUME Inv, Inv', RecordInv, NEW p \in Requests,
           \/ PinRead(p) \/ PinWrite(p) \/ Mark(p) \/ Configure(p) \/ Made(p) \/ Known(p) \/ Persist(p) \/ CoursesDone(p)
           \/ List(p) \/ ListFails(p) \/ NumbersRunOut(p) \/ BindMark(p) \/ BindDone(p) \/ BindRefused(p)
           \/ Snapshots(p) \/ RenameStore(p)
    PROVE  RecordInv'
<1>1. Quiet(p)
  BY CreationQuiet, ListQuiet, EndingQuiet, BindQuiet, CourseQuiet
<1>2. Only({})
  <2>1. CASE NumbersRunOut(p)
    BY <2>1 DEF NumbersRunOut, StepFails, platform, Only, AsBefore, Kinds
  <2>2. CASE ~NumbersRunOut(p)
    <3>1. UNCHANGED <<sessions, rows, unsure, uncounted>>
      BY <2>2 DEF PinRead, PinWrite, Mark, Configure, Made, Known, Persist, CoursesDone, List, ListFails, BindMark, BindDone,
                  BindRefused, Snapshots, RenameStore, Planned, StepFails, platform, task, ghosts
    <3>. QED BY <3>1, NothingOnly
  <2>. QED BY <2>1, <2>2
<1>3. job[p].at \in {"pinning", "pinned", "marking", "configuring", "made", "known", "persisting", "created", "listing",
                     "creating", "toBind", "bound", "binding", "snapshots", "storing"}
  BY DEF PinRead, PinWrite, Mark, Configure, Made, Known, Persist, CoursesDone, List, ListFails, NumbersRunOut, BindMark,
         BindDone, BindRefused, Snapshots, RenameStore, Write, At
<1>4. job[p].op \in {"create", "bind", "course"}
  BY <1>3, JobIs, OpAt
<1>. QED BY <1>1, <1>2, <1>4, MakingQuietShown

LEMMA RenameMarkShown == ASSUME Inv, Inv', RecordInv, NEW p \in Requests, RenameMark(p) PROVE RecordInv'
<1>1. PICK k : k = job[p] /\ Shaped(k) /\ k.at = "toRename" /\ k.op = "course"
  <2>1. PICK k : k = job[p] /\ Shaped(k) /\ k.at = "toRename"
    BY JobIs DEF RenameMark, Write, At
  <2>. QED BY <2>1, OpAt
<1>2. PICK j : j = [k EXCEPT !.at = "renaming"] /\ Becomes(p, j)
  BY <1>1 DEF RenameMark, Goes
<1>3. UNCHANGED <<sessions, rows, unsure, uncounted, there>>
  BY DEF RenameMark, platform, ghosts
<1>4. Alike(k, j) /\ j.at = "renaming" /\ IsRow(j.seen)
  BY <1>1, <1>2 DEF Shaped, Formed, Alike
<1>5. j.at \in Steps[k.op] /\ ~InWork(j) /\ j.at # "logging"
  BY <1>1, <1>4 DEF InWork, Steps
<1>6. Shifted(k, j)
  BY <1>1, <1>4, <1>5, AlikeShifted
<1>. QED BY <1>1, <1>2, <1>3, <1>6, NothingOnly, MakingShown

(* Requests that end with what they have recorded.                           *)
LEMMA EndingShown ==
    ASSUME Inv, Inv', RecordInv, NEW p \in Requests, Refuse(p) \/ SyncRefused(p) \/ TaskGone(p) PROVE RecordInv'
<1>1. PICK i : i = job[p] /\ Shaped(i)
  BY JobIs
<1>2. UNCHANGED <<sessions, rows, unsure, uncounted, there>> /\ Becomes(p, NoJob)
  BY DEF Refuse, SyncRefused, TaskGone, Ends, platform, task, ghosts
<1>3. ~there \/ i.at \in {"refusing", "looking", "syncing"}
  BY <1>1 DEF Refuse, SyncRefused, TaskGone, Write, At
<1>4. there => ~Behind(i)
  BY <1>1, <1>3, OpAt DEF Behind, ValueBehind, EntriesBehind, RoomsBehind
<1>. QED BY <1>1, <1>2, <1>4, NothingOnly, EndsShown

(* A synchronisation nothing disturbed leaves the values as they are.        *)
LEMMA LogShown == ASSUME Inv, Inv', RecordInv, NEW p \in Requests, Log(p) PROVE RecordInv'
<1>1. PICK i : i = job[p] /\ Shaped(i) /\ i.at = "logging" /\ there
  BY JobIs DEF Log, Write, At
<1>2. UNCHANGED <<sessions, rows, uncounted, there>> /\ Becomes(p, NoJob)
  BY DEF Log, Ends, platform
<1>3. unsure' = IF i.op = "sync" /\ i.alone THEN unsure \ {i.kind} ELSE unsure
  BY <1>1 DEF Log
<1>4. ~Behind(i)
  BY <1>1, OpAt DEF Behind, ValueBehind, EntriesBehind, RoomsBehind
<1>5. CASE ~(i.op = "sync" /\ i.alone)
  BY <1>1, <1>2, <1>3, <1>4, <1>5, NothingOnly, EndsShown
<1>6. CASE i.op = "sync" /\ i.alone
  <2>1. PICK k : k = i.kind /\ k \in Kinds /\ Touches(i) \cap Kinds = {k}
    BY <1>1, <1>6, KindsOf DEF Shaped
  <2>2. Only(Touches(i))
    BY <1>2, <1>3, <1>6, <2>1 DEF Only, AsBefore
  <2>3. Fits(i)
    BY <1>1 DEF RecordInv, AllFit
  <2>4. ShowsValue(k)
    BY <1>1, <1>6, <2>1, <2>3 DEF Fits, PlaceOK, SyncOK, Certain
  <2>5. (k \in uncounted \/ ShowsEntries(k)) /\ (k \in uncounted \/ ShowsRooms(k))
    BY <1>4, <2>1, <2>3 DEF Fits, Shows, Behind
  <2>6. ShowsValue(k)' /\ (k \in uncounted' \/ ShowsEntries(k)') /\ (k \in uncounted' \/ ShowsRooms(k)')
    BY <1>2, <2>4, <2>5 DEF ShowsValue, ShowsEntries, ShowsRooms, Recorded
  <2>7. Shows(NoJob, k)'
    BY <2>6 DEF Shows
  <2>. QED BY <1>1, <1>2, <1>3, <1>6, <2>1, <2>2, <2>7, IdleIs, NoneFits, StepShown
<1>. QED BY <1>5, <1>6

(* A change that looks what the platform has, or finds no session there.     *)
LEMMA ChangeShown ==
    ASSUME Inv, Inv', RecordInv, NEW p \in Requests, ChangeLook(p) \/ ChangeRefused(p) PROVE RecordInv'
<1>1. PICK i : i = job[p] /\ Shaped(i) /\ i.op = "change" /\ i.at \in {"looking", "putting"}
  <2>1. PICK i : i = job[p] /\ Shaped(i) /\ i.at \in {"looking", "putting"} /\ (i.at = "looking" => i.op = "change")
    BY JobIs DEF ChangeLook, ChangeRefused, At, Doing
  <2>. QED BY <2>1, OpAt
<1>2. UNCHANGED <<sessions, rows, unsure, uncounted, there>>
  BY DEF ChangeLook, ChangeRefused, platform, task, ghosts
<1>3. \/ Becomes(p, NoJob)
      \/ \E place \in {"putting", "refusing"} : Goes(p, place)
  BY DEF ChangeLook, ChangeRefused, Looked, Ends
<1>4. ~Behind(i) /\ Only({})
  BY <1>1, <1>2, NothingOnly DEF Behind, ValueBehind, EntriesBehind, RoomsBehind
<1>5. CASE Becomes(p, NoJob)
  BY <1>1, <1>2, <1>4, <1>5, EndsShown
<1>6. ASSUME NEW place \in {"putting", "refusing"}, Goes(p, place) PROVE RecordInv'
  <2>1. PICK j : j = [i EXCEPT !.at = place] /\ Becomes(p, j)
    BY <1>1, <1>6 DEF Goes
  <2>2. Alike(i, j) /\ j.at = place /\ j.op = "change"
    BY <1>1, <2>1 DEF Shaped, Formed, Alike
  <2>3. ~InWork(j) /\ PlaceOK(j)
    BY <2>2 DEF InWork, PlaceOK, ChangeOK, SyncOK, ImportOK, RoomsOK, OpenOK, CreateOK
  <2>. QED BY <1>1, <1>2, <1>4, <2>1, <2>2, <2>3, AlikeShown DEF Behind
<1>. QED BY <1>3, <1>5, <1>6

-----------------------------------------------------------------------------
(* Calls on a session, and what is read of it.                               *)

(* What a row shows of a session stays but for the field that is put.        *)
LEMMA ShowsPut ==
    ASSUME World, NEW s, NEW f \in Fields \ {"there"}, NEW v, Put(s, f, v), UNCHANGED rows, NEW k \in Kinds
    PROVE  /\ f # "value" /\ ShowsValue(k) => ShowsValue(k)'
           /\ f # "entries" /\ ShowsEntries(k) => ShowsEntries(k)'
           /\ f # "rooms" /\ ShowsRooms(k) => ShowsRooms(k)'
<1>1. Recorded(k) => rows[k].id \in DOMAIN sessions
  BY DEF World, RowsOf, IsOf, Recorded
<1>2. \A t \in DOMAIN sessions : /\ sessions'[t].there = sessions[t].there
                                 /\ f # "value" => sessions'[t].value = sessions[t].value
                                 /\ f # "entries" => sessions'[t].entries = sessions[t].entries
                                 /\ f # "rooms" => sessions'[t].rooms = sessions[t].rooms
  BY PutIs
<1>. QED BY <1>1, <1>2 DEF ShowsValue, ShowsEntries, ShowsRooms, Recorded

LEMMA PutValue ==
    ASSUME World, NEW s, NEW v, Put(s, "value", v)
    PROVE  \A t \in DOMAIN sessions : /\ sessions'[t].there = sessions[t].there
                                      /\ sessions'[t].value = IF t = s THEN v ELSE sessions[t].value
<1>1. ASSUME NEW t \in DOMAIN sessions
      PROVE  /\ sessions'[t].there = sessions[t].there
             /\ sessions'[t].value = IF t = s THEN v ELSE sessions[t].value
  <2>1. PICK x : x = sessions[t] /\ IsSession(x)
    BY DEF World
  <2>2. PICK y : y = [x EXCEPT !["value"] = v]
    OBVIOUS
  <2>3. y.there = x.there /\ y.value = v
    BY <2>1, <2>2 DEF IsSession
  <2>4. sessions'[t] = IF t = s THEN y ELSE x
    BY <2>1, <2>2 DEF Put
  <2>. QED BY <2>1, <2>3, <2>4
<1>. QED BY <1>1

(* The call of a request for one session, which has read its row.            *)
LEMMA CallShown ==
    ASSUME Inv, Inv', RecordInv, NEW p \in Requests, NEW i, i = job[p], Shaped(i), i.op \in {"change", "import", "rooms"},
           i.at \notin {"saving", "logging"},
           NEW f \in {"value", "entries", "rooms"}, NEW v, Put(Row(i).id, f, v), Row(i).id \in DOMAIN sessions,
           NEW j, Alike(i, j), Becomes(p, j), ~InWork(j), j.at # "logging", UNCHANGED <<rows, unsure, uncounted, there>>,
           there /\ Fits(i) => PlaceOK(j)',
           there /\ Fits(i) /\ Shows(i, i.kind) => Shows(j, i.kind)'
    PROVE  RecordInv'
<1>1. PICK k : k = i.kind /\ k \in Kinds /\ Touches(i) \cap Kinds = {k}
  BY KindsOf DEF Shaped
<1>2. i.rows[k].id # NoSession => IsOf(i.rows[k].id, k)
  BY <1>1, JobIs DEF JobOK, RowsOf
<1>3. PICK s : s = Row(i).id /\ s \in DOMAIN sessions /\ sessions[s].kind = k
  <2>1. Row(i).id # NoSession
    BY DEF Inv, World, Listed, NoSession
  <2>. QED BY <1>1, <1>2, <2>1 DEF Row, IsOf
<1>4. \A t \in DOMAIN sessions : t # s => AsBefore(t)
  BY <1>3, PutIs DEF Inv, Fields
<1>5. Only({k}) /\ Only(Touches(i))
  BY <1>1, <1>3, <1>4 DEF Only, AsBefore
<1>6. Touches(j) = Touches(i) /\ Touches(j)' = Touches(i) /\ Row(j) = Row(i)
  BY DEF Alike, Touches, Row
<1>7. ASSUME there PROVE Fits(j)'
  <2>1. Fits(i)
    BY <1>7 DEF RecordInv, AllFit
  <2>2. Named(j)'
    <3>1. Row(j)' = Row(i)
      BY <1>6 DEF Row
    <3>. QED BY <1>3, <3>1 DEF Named, Inv, World, Listed, NoSession
  <2>3. RowIs(j)'
    <3>. SUFFICES ASSUME NEW m \in Touches(j)' \cap Kinds, Certain(j, m)' \/ Counts(j, m)', j.op \in Rewrites
                  PROVE  j.rows[m] = rows'[m]
      BY DEF RowIs
    <3>. QED BY <1>6, <2>1 DEF Fits, RowIs, Alike, Certain, Counts
  <2>4. \A m \in Touches(j)' \cap Kinds : Shows(j, m)'
    BY <1>1, <1>6, <1>7, <2>1 DEF Fits
  <2>. QED BY <1>7, <2>1, <2>2, <2>3, <2>4 DEF Fits
<1>. QED BY <1>5, <1>6, <1>7, StepShown DEF Alike

LEMMA CallOnSessionShown ==
    ASSUME Inv, Inv', RecordInv, NEW p \in Requests, Call(p), job[p].at \in OnSession
    PROVE  RecordInv'
<1>1. PICK i : i = job[p] /\ Shaped(i) /\ i.at \in OnSession
  BY JobIs
<1>2. i.op \in {"change", "import", "rooms"} /\ i.kind \in Kinds /\ i.at \notin {"saving", "logging", "reading"}
  BY <1>1, OpAt DEF OnSession, Shaped
<1>3. PICK s : s = Row(i).id /\ s \in DOMAIN sessions /\ sessions[s].there
  BY <1>1 DEF Call, Reached, SessionThere, Target, OnSession, At
<1>4. PICK j : j = Onwards(p) /\ Becomes(p, j)
  BY DEF Call
<1>5. Alike(i, j) /\ ~InWork(j) /\ j.at # "logging"
  BY <1>1, <1>4, OnwardsIs DEF Calling, OnSession
<1>6. UNCHANGED <<rows, unsure, uncounted, there>>
  BY DEF Call, task
<1>7. j.op = i.op /\ j.kind = i.kind /\ j.to = i.to /\ Row(j) = Row(i) /\ Row(j)' = Row(i)
  BY <1>5 DEF Alike, Row
<1>8. PICK k : k = i.kind /\ k \in Kinds
  BY <1>2
<1>9. CASE i.at = "putting"
  <2>1. Put(s, "value", i.to) /\ i.op = "change"
    BY <1>1, <1>3, <1>9, OpAt DEF Call, CarriedOut, At, Target
  <2>2. j.at = "saving"
    BY <1>1, <1>4, <1>9 DEF Onwards, Shaped, Formed
  <2>3. sessions'[s].there /\ sessions'[s].value = i.to
    BY <1>3, <2>1, PutValue DEF Inv
  <2>4. PlaceOK(j)'
    BY <1>3, <1>7, <2>1, <2>2, <2>3 DEF PlaceOK, ChangeOK, SyncOK, ImportOK, RoomsOK, OpenOK, CreateOK, InWork
  <2>5. Shows(i, k) => Shows(j, k)'
    <3>1. (ShowsEntries(k) => ShowsEntries(k)') /\ (ShowsRooms(k) => ShowsRooms(k)')
      BY <1>6, <1>8, <2>1, ShowsPut DEF Inv, Fields
    <3>. QED BY <1>6, <1>7, <2>1, <2>2, <3>1 DEF Shows, ValueBehind, EntriesBehind, RoomsBehind
  <2>. QED BY <1>1, <1>2, <1>3, <1>4, <1>5, <1>6, <1>8, <2>1, <2>4, <2>5, CallShown
<1>10. CASE i.at = "personal"
  <2>1. Put(s, "value", i.seen.value) /\ i.op = "import"
    BY <1>1, <1>3, <1>10, OpAt DEF Call, CarriedOut, At, Target
  <2>2. j.at = "entering"
    BY <1>1, <1>4, <1>10 DEF Onwards, Shaped, Formed
  <2>3. PlaceOK(j)'
    BY <1>7, <2>1, <2>2 DEF PlaceOK, ChangeOK, SyncOK, ImportOK, RoomsOK, OpenOK, CreateOK, InWork
  <2>4. Fits(i) /\ Shows(i, k) => Shows(j, k)'
    <3>. SUFFICES ASSUME Fits(i), Shows(i, k) PROVE Shows(j, k)'
      OBVIOUS
    <3>1. (ShowsEntries(k) => ShowsEntries(k)') /\ (ShowsRooms(k) => ShowsRooms(k)')
      BY <1>6, <1>8, <2>1, ShowsPut DEF Inv, Fields
    <3>2. ASSUME k \notin unsure PROVE ShowsValue(k)'
      <4>1. ShowsValue(k)
        BY <1>10, <2>1, <3>2 DEF Shows, ValueBehind
      <4>2. sessions[s].value = i.seen.value
        BY <1>3, <1>8, <1>10, <2>1, <3>2 DEF Fits, PlaceOK, ImportOK
      <4>3. \A t \in DOMAIN sessions : sessions'[t].value = sessions[t].value /\ sessions'[t].there = sessions[t].there
        BY <2>1, <4>2, PutValue DEF Inv
      <4>4. Recorded(k) => rows[k].id \in DOMAIN sessions
        BY <1>8 DEF Inv, World, RowsOf, IsOf, Recorded
      <4>. QED BY <1>6, <4>1, <4>3, <4>4 DEF ShowsValue, Recorded
    <3>. QED BY <1>6, <1>7, <1>10, <2>1, <2>2, <3>1, <3>2 DEF Shows, ValueBehind, EntriesBehind, RoomsBehind
  <2>. QED BY <1>1, <1>2, <1>3, <1>4, <1>5, <1>6, <1>8, <2>1, <2>3, <2>4, CallShown
<1>11. CASE i.at = "entering"
  <2>1. Put(s, "entries", 1) /\ i.op = "import"
    BY <1>1, <1>3, <1>11, OpAt DEF Call, CarriedOut, At, Target
  <2>2. j.at = "reading"
    BY <1>1, <1>4, <1>11 DEF Onwards, Shaped, Formed
  <2>3. PlaceOK(j)'
    BY <1>7, <2>1, <2>2 DEF PlaceOK, ChangeOK, SyncOK, ImportOK, RoomsOK, OpenOK, CreateOK, InWork
  <2>4. Shows(i, k) => Shows(j, k)'
    <3>1. (ShowsValue(k) => ShowsValue(k)') /\ (ShowsRooms(k) => ShowsRooms(k)')
      BY <1>6, <1>8, <2>1, ShowsPut DEF Inv, Fields
    <3>. QED BY <1>6, <1>7, <2>1, <2>2, <3>1 DEF Shows, ValueBehind, EntriesBehind, RoomsBehind
  <2>. QED BY <1>1, <1>2, <1>3, <1>4, <1>5, <1>6, <1>8, <2>1, <2>3, <2>4, CallShown
<1>12. CASE i.at \in {"clearing", "arranging"}
  <2>1. PICK n : Put(s, "rooms", n) /\ (i.at = "arranging" => n = i.to) /\ i.op = "rooms"
    BY <1>1, <1>3, <1>12, OpAt DEF Call, CarriedOut, At, Target
  <2>2. j.at = (IF i.at = "clearing" THEN "arranging" ELSE "saving") /\ j.seen = i.seen
    BY <1>1, <1>4, <1>12 DEF Onwards, Shaped, Formed
  <2>3. /\ sessions'[s].there /\ sessions'[s].entries = sessions[s].entries /\ sessions'[s].rooms = n
    BY <1>3, <2>1, PutIs DEF Inv, Fields
  <2>4. Fits(i) => PlaceOK(j)'
    <3>1. Fits(i) => RoomsOK(j)'
      BY <1>3, <1>6, <1>7, <1>12, <2>1, <2>2, <2>3 DEF Fits, PlaceOK, RoomsOK
    <3>. QED BY <1>7, <2>1, <2>2, <3>1 DEF PlaceOK, ChangeOK, SyncOK, ImportOK, OpenOK, CreateOK, InWork
  <2>5. Shows(i, k) => Shows(j, k)'
    <3>1. (ShowsValue(k) => ShowsValue(k)') /\ (ShowsEntries(k) => ShowsEntries(k)')
      BY <1>6, <1>8, <2>1, ShowsPut DEF Inv, Fields
    <3>. QED BY <1>6, <1>7, <2>1, <2>2, <3>1 DEF Shows, ValueBehind, EntriesBehind, RoomsBehind
  <2>. QED BY <1>1, <1>2, <1>3, <1>4, <1>5, <1>6, <1>8, <2>1, <2>4, <2>5, CallShown
<1>. QED BY <1>1, <1>9, <1>10, <1>11, <1>12 DEF OnSession

LEMMA AnyCallShown == ASSUME Inv, Inv', RecordInv, NEW p \in Requests, Call(p) PROVE RecordInv'
BY CallOnSessionShown, CallMaking, CallPostingShown, CallDeletingShown DEF Call, Calling, At

(* The session is gone before its rooms are arranged anew: that was seen.    *)
LEMMA NotFoundShown == ASSUME Inv, Inv', RecordInv, NEW p \in Requests, NotFound(p) PROVE RecordInv'
<1>1. PICK i : i = job[p] /\ Shaped(i) /\ i.at \in {"personal", "entering", "clearing", "arranging", "detail", "counting"}
  BY JobIs DEF NotFound
<1>2. UNCHANGED <<sessions, rows, unsure, uncounted, there>> /\ Becomes(p, NoJob) /\ ~SessionThere(Row(i).id)
  BY <1>1 DEF NotFound, Ends, platform, task, ghosts, Target
<1>3. i.op \in {"import", "rooms"} /\ i.kind \in Kinds
  BY <1>1, OpAt DEF Shaped
<1>4. CASE ~Behind(i)
  BY <1>1, <1>2, <1>4, NothingOnly, EndsShown
<1>5. CASE Behind(i)
  <2>1. i.op = "rooms" /\ i.at = "arranging"
    BY <1>1, <1>3, <1>5 DEF Behind, ValueBehind, EntriesBehind, RoomsBehind
  <2>2. PICK k : k = i.kind /\ k \in Kinds /\ Touches(i) \cap Kinds = {k}
    BY <1>1, <2>1, KindsOf DEF Shaped
  <2>3. Row(i).id # NoSession => Row(i).id \in DOMAIN sessions
    BY <1>1, <1>3, JobIs DEF JobOK, RowsOf, IsOf, Row
  <2>4. there /\ Fits(i) => Shows(NoJob, k)
    <3>. SUFFICES ASSUME Fits(i) PROVE Shows(NoJob, k)
      OBVIOUS
    <3>1. k \in uncounted
      BY <1>2, <2>1, <2>2, <2>3 DEF Fits, Named, PlaceOK, RoomsOK, SessionThere
    <3>. QED BY <2>1, <2>2, <3>1 DEF Fits, Shows, ValueBehind
  <2>. QED BY <1>1, <1>2, <2>2, <2>4, NothingOnly, EndsShown
<1>. QED BY <1>4, <1>5

(* What an import or the arranging of rooms reads first.                     *)
LEMMA ReadingShown ==
    ASSUME Inv, Inv', RecordInv, NEW p \in Requests, Detail(p) \/ ImportCount(p) \/ RoomsCount(p) PROVE RecordInv'
<1>1. PICK i : i = job[p] /\ Shaped(i) /\ i.at \in {"detail", "reading", "counting"}
  BY JobIs DEF Detail, ImportCount, RoomsCount, At
<1>2. i.op \in {"import", "rooms"} /\ (i.at = "counting" <=> i.op = "rooms")
  BY <1>1, OpAt
<1>3. UNCHANGED <<sessions, rows, unsure, uncounted, there>> /\ Only({})
  BY NothingOnly DEF Detail, ImportCount, RoomsCount, platform, task, ghosts
<1>4. PICK s : s = Row(i).id /\ sessions[s].there
  BY <1>1 DEF Detail, ImportCount, RoomsCount, SessionThere, Target
<1>5. CASE Becomes(p, NoJob) /\ i.at = "counting"
  <2>1. ~Behind(i)
    BY <1>1, <1>2, <1>5 DEF Behind, ValueBehind, EntriesBehind, RoomsBehind
  <2>. QED BY <1>1, <1>3, <1>5, <2>1, EndsShown
<1>6. CASE i.at = "detail"
  <2>1. PICK j : j = [i EXCEPT !.at = "personal", !.seen.value = sessions[s].value] /\ Becomes(p, j)
    BY <1>1, <1>4, <1>6 DEF Detail, ImportCount, RoomsCount, At, Target
  <2>2. Alike(i, j) /\ j.at = "personal" /\ j.seen.value = sessions[s].value
    BY <1>1, <2>1 DEF Shaped, Formed, Alike, IsRow
  <2>3. j.op = "import" /\ Row(j).id = s
    BY <1>2, <1>4, <1>6, <2>2 DEF Alike, Row
  <2>4. PlaceOK(j)
    BY <2>2, <2>3 DEF PlaceOK, ChangeOK, SyncOK, ImportOK, RoomsOK, OpenOK, CreateOK, InWork
  <2>. QED BY <1>1, <1>2, <1>3, <1>6, <2>1, <2>2, <2>4, AlikeShown DEF InWork, ValueBehind, EntriesBehind, RoomsBehind
<1>7. CASE i.at = "reading"
  <2>1. PICK x, j : /\ x = [NoRow EXCEPT !.entries = sessions[s].entries, !.rooms = sessions[s].rooms]
                    /\ j = [[i EXCEPT !.seen = x] EXCEPT !.at = "saving"] /\ Becomes(p, j)
    BY <1>1, <1>4, <1>7 DEF Detail, ImportCount, RoomsCount, At, Target, Counted
  <2>2. Alike(i, j) /\ j.at = "saving" /\ j.seen.entries = sessions[s].entries /\ j.seen.rooms = sessions[s].rooms
    BY <1>1, <2>1 DEF Shaped, Formed, Alike, NoRow
  <2>3. j.op = "import" /\ Row(j).id = s
    BY <1>2, <1>4, <1>7, <2>2 DEF Alike, Row
  <2>4. PlaceOK(j)
    BY <2>2, <2>3 DEF PlaceOK, ChangeOK, SyncOK, ImportOK, RoomsOK, OpenOK, CreateOK, InWork
  <2>. QED BY <1>1, <1>2, <1>3, <1>7, <2>1, <2>2, <2>3, <2>4, AlikeShown DEF InWork, ValueBehind, EntriesBehind, RoomsBehind
<1>8. CASE i.at = "counting" /\ ~Becomes(p, NoJob)
  <2>1. PICK at, x, j : /\ x = [NoRow EXCEPT !.entries = sessions[s].entries, !.rooms = sessions[s].rooms]
                        /\ at \in {"clearing", "arranging"}
                        /\ j = [[i EXCEPT !.seen = x] EXCEPT !.at = at] /\ Becomes(p, j)
    BY <1>1, <1>4, <1>8 DEF Detail, ImportCount, RoomsCount, At, Target, Counted, Ends
  <2>2. Alike(i, j) /\ j.at = at /\ j.seen.entries = sessions[s].entries
    BY <1>1, <2>1 DEF Shaped, Formed, Alike, NoRow
  <2>3. j.op = "rooms" /\ Row(j).id = s
    BY <1>2, <1>4, <1>8, <2>2 DEF Alike, Row
  <2>4. PlaceOK(j)
    BY <1>4, <2>1, <2>2, <2>3 DEF PlaceOK, ChangeOK, SyncOK, ImportOK, RoomsOK, OpenOK, CreateOK, InWork
  <2>. QED BY <1>1, <1>2, <1>3, <1>8, <2>1, <2>2, <2>4, AlikeShown DEF InWork, ValueBehind, EntriesBehind, RoomsBehind
<1>. QED BY <1>1, <1>5, <1>6, <1>7, <1>8

-----------------------------------------------------------------------------
(* Writes of a row.                                                          *)

(* A request writes a row, and goes on in a place where it holds none.       *)
LEMMA WriteShown ==
    ASSUME Inv, Inv', RecordInv, NEW p \in Requests, NEW i, i = job[p], Shaped(i),
           i.op \in {"change", "sync", "import", "rooms"}, NEW r, rows' = [rows EXCEPT ![i.kind] = r],
           NEW j, Becomes(p, j), UNCHANGED <<sessions, unsure, uncounted, there>>,
           \/ j = NoJob
           \/ /\ Formed(j) /\ j.op = i.op /\ j.op \in {"change", "sync"} /\ j.at = "logging" /\ j.kind = i.kind
              /\ j.rows = i.rows /\ j.alone = i.alone,
           there /\ Fits(i) => SyncOK(j)',
           there /\ Fits(i) /\ Shows(i, i.kind) /\ (rows'[i.kind] = r) => Shows(NoJob, i.kind)'
    PROVE  RecordInv'
<1>1. PICK k : k = i.kind /\ k \in Kinds /\ Touches(i) \cap Kinds = {k} /\ k \in Touches(i)
  BY KindsOf, TouchesIs DEF Shaped
<1>2. rows'[k] = r /\ \A m \in Kinds : m # k => rows'[m] = rows[m]
  BY <1>1 DEF Inv, World, AreRows
<1>3. Only(Touches(i))
  BY <1>1, <1>2 DEF Only, AsBefore
<1>4. there => Fits(i) /\ Shows(i, k)
  BY <1>1 DEF RecordInv, AllFit, Fits
<1>5. there => Shows(NoJob, k)'
  BY <1>1, <1>2, <1>4
<1>6. CASE j = NoJob
  BY <1>1, <1>3, <1>5, <1>6, IdleIs, NoneFits, StepShown
<1>7. CASE j # NoJob
  <2>1. Touches(j) = Touches(i) /\ Touches(j)' = Touches(i) /\ j.op = i.op /\ j.kind = k /\ j.at = "logging"
        /\ j.op \in {"change", "sync"} /\ j.rows = i.rows /\ j.alone = i.alone
    BY <1>1, <1>7 DEF Touches
  <2>2. ASSUME there PROVE Fits(j)'
    <3>1. Row(j)' = Row(i)
      BY <1>1, <2>1 DEF Row
    <3>2. Named(j)' /\ RowIs(j)'
      BY <1>4, <2>1, <2>2, <3>1 DEF Fits, Named, RowIs
    <3>3. ChangeOK(j)' /\ ImportOK(j)' /\ RoomsOK(j)' /\ OpenOK(j)' /\ CreateOK(j)'
      BY <2>1 DEF ChangeOK, ImportOK, RoomsOK, OpenOK, CreateOK, InWork
    <3>4. Shows(j, k)'
      BY <1>5, <2>2 DEF Shows, NoJob, ValueBehind, EntriesBehind, RoomsBehind
    <3>. QED BY <1>1, <1>4, <2>1, <2>2, <3>2, <3>3, <3>4 DEF Fits, PlaceOK
  <2>. QED BY <1>3, <2>1, <2>2, StepShown
<1>. QED BY <1>6, <1>7

LEMMA SaveShown == ASSUME Inv, Inv', RecordInv, NEW p \in Requests, Save(p) PROVE RecordInv'
<1>1. PICK i : i = job[p] /\ Shaped(i) /\ i.at = "saving" /\ i.op \in {"change", "import", "rooms"}
  <2>1. PICK i : i = job[p] /\ Shaped(i) /\ i.at = "saving"
    BY JobIs DEF Save, At
  <2>. QED BY <2>1, OpAt
<1>2. PICK k : k = i.kind /\ k \in Kinds /\ Touches(i) \cap Kinds = {k}
  BY <1>1, KindsOf DEF Shaped
<1>3. UNCHANGED <<sessions, unsure, uncounted, there>>
  BY DEF Save, platform, ghosts
<1>4. PICK o, s : o = Row(i) /\ IsRow(o) /\ s = o.id
  BY <1>1, <1>2 DEF Shaped, AreRows, Row
<1>5. PICK r : r = Saved(i) /\ rows' = [rows EXCEPT ![k] = r]
  BY <1>1, <1>2 DEF Save
(* What was read is what is recorded, where nothing disturbed it.            *)
<1>6. Fits(i) => (k \notin unsure \/ k \notin uncounted => o = rows[k]) /\ s # NoSession
  BY <1>1, <1>2, <1>4 DEF Fits, RowIs, Rewrites, Certain, Counts, Row, Named
<1>7. CASE i.op = "change"
  <2>1. r = [o EXCEPT !.value = i.to]
    BY <1>4, <1>5, <1>7 DEF Saved
  <2>2. r.id = s /\ r.value = i.to /\ r.entries = o.entries /\ r.rooms = o.rooms
    BY <1>4, <2>1 DEF IsRow
  <2>3. ASSUME there, Fits(i), Shows(i, k), rows'[k] = r PROVE Shows(NoJob, k)'
    <3>1. k \notin unsure => ShowsValue(k)'
      BY <1>1, <1>2, <1>3, <1>4, <1>7, <2>2, <2>3 DEF Fits, PlaceOK, ChangeOK, ShowsValue
    <3>2. k \notin uncounted => ShowsEntries(k) /\ ShowsRooms(k) /\ Recorded(k) /\ o = rows[k]
      BY <1>4, <1>6, <1>7, <2>3 DEF Shows, EntriesBehind, RoomsBehind, Recorded
    <3>3. k \notin uncounted => ShowsEntries(k)' /\ ShowsRooms(k)'
      BY <1>3, <1>4, <2>2, <2>3, <3>2 DEF ShowsEntries, ShowsRooms
    <3>. QED BY <1>3, <3>1, <3>3 DEF Shows
  <2>4. PICK log, j : Becomes(p, j) /\ j = [i EXCEPT !.at = "logging", !.log = log]
    BY <1>1, <1>7 DEF Save
  <2>5. /\ Formed(j) /\ j.op = i.op /\ j.op \in {"change", "sync"} /\ j.at = "logging" /\ j.kind = i.kind
        /\ j.rows = i.rows /\ j.alone = i.alone
    BY <1>1, <1>7, <2>4 DEF Shaped, Formed
  <2>6. SyncOK(j)'
    BY <1>7, <2>5 DEF SyncOK
  <2>7. Becomes(p, j) /\ (there /\ Fits(i) /\ Shows(i, i.kind) /\ (rows'[i.kind] = r) => Shows(NoJob, i.kind)')
    BY <1>2, <2>3, <2>4
  <2>8. i.op \in {"change", "sync", "import", "rooms"} /\ rows' = [rows EXCEPT ![i.kind] = r]
    BY <1>2, <1>5, <1>7
  <2>. QED BY <1>1, <1>3, <2>5, <2>6, <2>7, <2>8, WriteShown
<1>8. CASE i.op = "rooms"
  <2>1. r = [o EXCEPT !.entries = i.seen.entries, !.rooms = i.to]
    BY <1>4, <1>5, <1>8 DEF Saved
  <2>2. r.id = s /\ r.value = o.value /\ r.entries = i.seen.entries /\ r.rooms = i.to
    BY <1>4, <2>1 DEF IsRow
  <2>3. ASSUME there, Fits(i), Shows(i, k), rows'[k] = r PROVE Shows(NoJob, k)'
    <3>1. k \notin unsure => ShowsValue(k) /\ Recorded(k) /\ o = rows[k]
      BY <1>4, <1>6, <1>8, <2>3 DEF Shows, ValueBehind, Recorded
    <3>2. k \notin unsure => ShowsValue(k)'
      BY <1>3, <1>4, <2>2, <2>3, <3>1 DEF ShowsValue
    <3>3. k \notin uncounted => sessions[s].entries = i.seen.entries /\ sessions[s].rooms = i.to
      BY <1>1, <1>2, <1>4, <1>8, <2>3 DEF Fits, PlaceOK, RoomsOK
    <3>4. k \notin uncounted => ShowsEntries(k)' /\ ShowsRooms(k)'
      BY <1>3, <2>2, <2>3, <3>3 DEF ShowsEntries, ShowsRooms
    <3>. QED BY <1>3, <3>2, <3>4 DEF Shows
  <2>4. Becomes(p, NoJob)
    BY <1>1, <1>8 DEF Save, Ends
  <2>5. SyncOK(NoJob)'
    BY NoneFits DEF Fits, PlaceOK
  <2>. QED BY <1>1, <1>2, <1>3, <1>5, <1>8, <2>3, <2>4, <2>5, WriteShown
<1>9. CASE i.op = "import"
  <2>1. PICK n : n = IF i.seen.rooms # 0 THEN i.seen.rooms ELSE o.rooms
    OBVIOUS
  <2>2. r = [o EXCEPT !.entries = i.seen.entries, !.rooms = n]
    BY <1>4, <1>5, <1>9, <2>1 DEF Saved, IsRow
  <2>3. r.id = s /\ r.value = o.value /\ r.entries = i.seen.entries /\ r.rooms = n
    BY <1>4, <2>2 DEF IsRow
  <2>4. ASSUME there, Fits(i), Shows(i, k), rows'[k] = r PROVE Shows(NoJob, k)'
    <3>1. k \notin unsure => ShowsValue(k) /\ Recorded(k) /\ o = rows[k]
      BY <1>4, <1>6, <1>9, <2>4 DEF Shows, ValueBehind, Recorded
    <3>2. k \notin unsure => ShowsValue(k)'
      BY <1>3, <1>4, <2>3, <2>4, <3>1 DEF ShowsValue
    <3>3. k \notin uncounted => sessions[s].entries = i.seen.entries /\ sessions[s].rooms = i.seen.rooms
      BY <1>1, <1>2, <1>4, <1>9, <2>4 DEF Fits, PlaceOK, ImportOK
    <3>4. k \notin uncounted => ShowsRooms(k) /\ Recorded(k) /\ o = rows[k]
      BY <1>4, <1>6, <1>9, <2>4 DEF Shows, RoomsBehind, Recorded
    <3>5. k \notin uncounted => ShowsEntries(k)' /\ ShowsRooms(k)'
      BY <1>3, <1>4, <2>1, <2>3, <2>4, <3>3, <3>4 DEF ShowsEntries, ShowsRooms
    <3>. QED BY <1>3, <3>2, <3>5 DEF Shows
  <2>5. Becomes(p, NoJob)
    BY <1>1, <1>9 DEF Save, Ends
  <2>6. SyncOK(NoJob)'
    BY NoneFits DEF Fits, PlaceOK
  <2>. QED BY <1>1, <1>2, <1>3, <1>5, <1>9, <2>4, <2>5, <2>6, WriteShown
<1>. QED BY <1>1, <1>7, <1>8, <1>9

LEMMA SyncWriteShown == ASSUME Inv, Inv', RecordInv, NEW p \in Requests, SyncWrite(p) PROVE RecordInv'
<1>1. PICK i : i = job[p] /\ Shaped(i) /\ i.at = "syncing" /\ i.op = "sync" /\ there
  <2>1. PICK i : i = job[p] /\ Shaped(i) /\ i.at = "syncing" /\ there
    BY JobIs DEF SyncWrite, Write, At
  <2>. QED BY <2>1, OpAt
<1>2. PICK k : k = i.kind /\ k \in Kinds /\ Touches(i) \cap Kinds = {k}
  BY <1>1, KindsOf DEF Shaped
<1>3. UNCHANGED <<sessions, unsure, uncounted, there>>
  BY DEF SyncWrite, platform, ghosts
<1>4. PICK o, r : o = rows[k] /\ IsRow(o) /\ r = [o EXCEPT !.value = i.seen.value] /\ rows' = [rows EXCEPT ![k] = r]
  BY <1>1, <1>2 DEF SyncWrite, Inv, World, AreRows
<1>5. r.id = o.id /\ r.value = i.seen.value /\ r.entries = o.entries /\ r.rooms = o.rooms /\ o.id = Row(i).id
  BY <1>1, <1>2, <1>4 DEF IsRow, SyncWrite, Target
<1>6. PICK j : j = [i EXCEPT !.at = "logging", !.courses = {}, !.log = history] /\ Becomes(p, j)
  BY <1>1 DEF SyncWrite
<1>7. Formed(j) /\ j.op = "sync" /\ j.at = "logging" /\ j.kind = i.kind /\ j.rows = i.rows /\ j.alone = i.alone
  BY <1>1, <1>6 DEF Shaped, Formed
<1>8. rows'[k] = r
  BY <1>2, <1>4 DEF Inv, World, AreRows
<1>9. ASSUME Fits(i), Certain(i, k) PROVE ShowsValue(k)'
  BY <1>1, <1>2, <1>3, <1>5, <1>8, <1>9 DEF Fits, PlaceOK, SyncOK, ShowsValue
<1>10. Fits(i) => SyncOK(j)'
  BY <1>2, <1>3, <1>7, <1>9 DEF SyncOK, Certain
<1>11. ASSUME Fits(i), Shows(i, k) PROVE Shows(NoJob, k)'
  <2>1. k \notin uncounted => ShowsEntries(k) /\ ShowsRooms(k)
    BY <1>1, <1>11 DEF Shows, EntriesBehind, RoomsBehind
  <2>2. k \notin uncounted => ShowsEntries(k)' /\ ShowsRooms(k)'
    BY <1>3, <1>4, <1>5, <1>8, <2>1 DEF ShowsEntries, ShowsRooms, Recorded
  <2>. QED BY <1>3, <1>9, <1>11, <2>2 DEF Shows, Certain
<1>. QED BY <1>1, <1>2, <1>3, <1>4, <1>6, <1>7, <1>10, <1>11, WriteShown

(* A synchronisation that finds what is recorded, alone, makes it sure.      *)
LEMMA ComparedShown ==
    ASSUME Inv, Inv', RecordInv, NEW p \in Requests, NEW found, Compared(p, found) PROVE RecordInv'
<1>1. PICK i : i = job[p] /\ Shaped(i) /\ i.op = "sync" /\ i.at = "looking"
  BY JobIs DEF Compared, Doing, At
<1>2. UNCHANGED <<sessions, rows, uncounted, there>>
  BY DEF Compared, platform, task
<1>3. PICK k : k = i.kind /\ k \in Kinds /\ Touches(i) \cap Kinds = {k}
  BY <1>1, KindsOf DEF Shaped
<1>4. PICK s : s = Row(i).id /\ sessions[s].there
  BY <1>1 DEF Compared, SessionThere, Target
<1>5. ~Behind(i)
  BY <1>1 DEF Behind, ValueBehind, EntriesBehind, RoomsBehind
<1>6. CASE Becomes(p, NoJob) /\ unsure' = unsure
  BY <1>1, <1>2, <1>5, <1>6, NothingOnly, EndsShown
<1>7. CASE Becomes(p, NoJob) /\ i.alone /\ unsure' = unsure \ {k} /\ sessions[s].value = Row(i).value
  <2>1. Only(Touches(i))
    BY <1>2, <1>3, <1>7 DEF Only, AsBefore
  <2>2. ASSUME there PROVE Shows(NoJob, k)'
    <3>1. Fits(i)
      BY <1>1, <2>2 DEF RecordInv, AllFit
    <3>2. Row(i) = rows[k]
      BY <1>1, <1>3, <1>7, <3>1 DEF Fits, RowIs, Rewrites, Certain, Row
    <3>3. ShowsValue(k)
      BY <1>4, <1>7, <3>2 DEF ShowsValue
    <3>4. (k \in uncounted \/ ShowsEntries(k)) /\ (k \in uncounted \/ ShowsRooms(k))
      BY <1>3, <1>5, <3>1 DEF Fits, Shows, Behind
    <3>5. ShowsValue(k)' /\ (k \in uncounted' \/ ShowsEntries(k)') /\ (k \in uncounted' \/ ShowsRooms(k)')
      BY <1>2, <3>3, <3>4 DEF ShowsValue, ShowsEntries, ShowsRooms, Recorded
    <3>. QED BY <3>5 DEF Shows
  <2>. QED BY <1>1, <1>2, <1>3, <1>7, <2>1, <2>2, IdleIs, NoneFits, StepShown
<1>8. CASE ~Becomes(p, NoJob)
  <2>1. PICK cs, j : /\ Becomes(p, j) /\ unsure' = unsure
                     /\ j = [i EXCEPT !.at = "syncing", !.seen.value = sessions[s].value, !.held = {}, !.courses = cs]
    BY <1>1, <1>4, <1>8 DEF Compared, Ends, Target
  <2>2. Alike(i, j) /\ j.at = "syncing" /\ j.seen.value = sessions[s].value
    BY <1>1, <2>1 DEF Shaped, Formed, Alike, IsRow
  <2>3. j.op = "sync" /\ Row(j).id = s
    BY <1>1, <1>4, <2>2 DEF Alike, Row
  <2>4. ~InWork(j) /\ PlaceOK(j)
    BY <1>4, <2>2, <2>3 DEF PlaceOK, ChangeOK, SyncOK, ImportOK, RoomsOK, OpenOK, CreateOK, InWork
  <2>. QED BY <1>1, <1>2, <1>5, <2>1, <2>2, <2>4, NothingOnly, AlikeShown DEF Behind
<1>9. Becomes(p, NoJob) => \/ unsure' = unsure
                           \/ i.alone /\ unsure' = unsure \ {k} /\ sessions[s].value = Row(i).value
  BY <1>1, <1>3, <1>4 DEF Compared, Ends, Target
<1>. QED BY <1>6, <1>7, <1>8, <1>9

-----------------------------------------------------------------------------
(* The opening of the task's page.                                           *)

LEMMA VisitedIs ==
    ASSUME NEW i, Formed(i), NEW j, j = Visited(i)
    PROVE  j.op = i.op /\ j.at = "visiting" /\ j.rows = i.rows /\ j.alone = i.alone
BY DEF Visited, Formed

LEMMA ShownIs ==
    ASSUME NEW i, Formed(i), NEW x, IsRow(x), NEW j, j = Shown(i, x) \/ j = Roomless(i, x)
    PROVE  /\ j.op = i.op /\ j.at = "refreshing" /\ j.rows = i.rows /\ j.alone = i.alone /\ j.kind = i.kind
           /\ j = Shown(i, x) => j.seen = x
BY DEF Shown, Roomless, Formed, IsRow

(* It visits the next session: it holds nothing of the one before.           *)
LEMMA VisitingFits ==
    ASSUME NEW j, j.op = "open", j.at = "visiting", \A k \in Kinds : Shows(NoJob, k)',
           \A k \in Kinds : j.alone \/ k \notin unsure' \/ k \notin uncounted' => j.rows[k] = rows'[k]
    PROVE  Fits(j)'
<1>1. Named(j)' /\ RowIs(j)'
  BY DEF Named, RowIs, Certain, Counts
<1>2. PlaceOK(j)'
  BY DEF PlaceOK, ChangeOK, SyncOK, ImportOK, RoomsOK, OpenOK, CreateOK, InWork
<1>3. \A k \in Kinds : Shows(j, k)'
  BY DEF Shows, NoJob, ValueBehind, EntriesBehind, RoomsBehind
<1>. QED BY <1>1, <1>2, <1>3 DEF Fits

LEMMA VisitShown == ASSUME Inv, Inv', RecordInv, NEW p \in Requests, Visit(p) PROVE RecordInv'
<1>1. PICK i : i = job[p] /\ Shaped(i) /\ i.at = "visiting" /\ i.op = "open"
  BY JobIs, OpAt DEF Visit, At
<1>2. UNCHANGED <<sessions, rows, unsure, there>>
  BY DEF Visit, platform, task
<1>3. PICK v : v = Visiting(i)
  OBVIOUS
<1>4. Formed(v) /\ v.op = "open" /\ v.rows = i.rows /\ v.kind \in Kinds /\ v.alone = i.alone
  <2>1. v.alone = i.alone
    BY <1>1, <1>3 DEF Shaped, Formed, Visiting
  <2>. QED BY <1>1, <1>3, <2>1, VisitingIs
<1>5. PICK s, o, x : /\ s = Row(v).id /\ o = Row(v) /\ IsRow(o)
                     /\ x = [NoRow EXCEPT !.entries = sessions[s].entries, !.rooms = sessions[s].rooms]
  BY <1>1, <1>4 DEF Row, Shaped, AreRows
<1>6. IsRow(x) /\ x.entries = sessions[s].entries /\ x.rooms = sessions[s].rooms
  BY <1>5 DEF IsRow, NoRow
<1>7. ~Behind(i) /\ Touches(i) \cap Kinds = Kinds
  BY <1>1, KindsOf DEF Behind, ValueBehind, EntriesBehind, RoomsBehind, Shaped
<1>8. there => Fits(i) /\ \A k \in Kinds : Shows(NoJob, k)
  <2>1. there => Fits(i)
    BY <1>1 DEF RecordInv, AllFit
  <2>2. Fits(i) => \A k \in Kinds : Shows(NoJob, k)
    BY <1>7 DEF Fits, Shows, Behind
  <2>. QED BY <2>1, <2>2
<1>9. \/ Becomes(p, NoJob) /\ uncounted' = uncounted
      \/ Becomes(p, Shown(v, x)) /\ uncounted' = uncounted /\ SessionThere(s)
      \/ Becomes(p, Visited(v)) /\ uncounted' = uncounted
      \/ /\ Becomes(p, Visited(v)) /\ uncounted' = uncounted \ {v.kind} /\ v.alone
         /\ [o EXCEPT !.entries = sessions[s].entries, !.rooms = sessions[s].rooms] = o
  BY <1>1, <1>3, <1>5 DEF Visit, Ends, Counted, Shown
<1>10. CASE Becomes(p, NoJob) /\ uncounted' = uncounted
  BY <1>1, <1>2, <1>7, <1>10, NothingOnly, EndsShown
<1>11. CASE Becomes(p, Shown(v, x)) /\ uncounted' = uncounted /\ SessionThere(s)
  <2>1. PICK j : j = Shown(v, x) /\ Becomes(p, j)
    BY <1>11
  <2>2. j.op = "open" /\ j.at = "refreshing" /\ j.rows = i.rows /\ j.alone = i.alone /\ j.kind = v.kind /\ j.seen = x
    BY <1>4, <1>6, <2>1, ShownIs
  <2>3. Touches(j) = Touches(i) /\ ~InWork(j) /\ Row(j) = o
    BY <1>1, <1>4, <1>5, <2>2 DEF Touches, InWork, Row
  <2>4. ASSUME there, Fits(i) PROVE Fits(j)
    <3>1. Named(j)
      BY <1>5, <1>11, <2>3 DEF Named, SessionThere, Inv, World, Listed, NoSession
    <3>2. RowIs(j)
      BY <1>1, <2>2, <2>3, <2>4 DEF Fits, RowIs, Certain, Counts
    <3>3. PlaceOK(j)
      BY <1>5, <1>6, <2>2, <2>3 DEF PlaceOK, ChangeOK, SyncOK, ImportOK, RoomsOK, OpenOK, CreateOK, InWork
    <3>4. \A k \in Kinds : Shows(j, k)
      BY <1>8, <2>2, <2>4 DEF Shows, NoJob, ValueBehind, EntriesBehind, RoomsBehind
    <3>. QED BY <3>1, <3>2, <3>3, <3>4 DEF Fits
  <2>. QED BY <1>1, <1>2, <1>11, <2>1, <2>2, <2>3, <2>4, NothingOnly, StillShown
<1>12. CASE Becomes(p, Visited(v)) /\ (\/ uncounted' = uncounted
                                       \/ /\ uncounted' = uncounted \ {v.kind} /\ v.alone
                                          /\ [o EXCEPT !.entries = sessions[s].entries, !.rooms = sessions[s].rooms] = o)
  <2>1. PICK j : j = Visited(v) /\ Becomes(p, j)
    BY <1>12
  <2>2. j.op = "open" /\ j.at = "visiting" /\ j.rows = i.rows /\ j.alone = i.alone
    BY <1>4, <2>1, VisitedIs
  <2>3. Touches(j) = Touches(i)
    BY <1>1, <2>2 DEF Touches
  <2>4. Only(Touches(i)) /\ \A k \in Kinds : (k \in uncounted /\ k \notin uncounted') => i.alone
    BY <1>2, <1>4, <1>7, <1>12 DEF Only, AsBefore
  <2>5. ASSUME there PROVE Fits(j)'
    <3>1. \A k \in Kinds : i.alone \/ k \notin unsure' \/ k \notin uncounted' => j.rows[k] = rows'[k]
      BY <1>1, <1>2, <1>7, <1>8, <2>2, <2>4, <2>5 DEF Fits, RowIs, Rewrites, Certain, Counts
    <3>2. ASSUME NEW k \in Kinds PROVE Shows(NoJob, k)'
      <4>1. Shows(NoJob, k)
        BY <1>8, <2>5
      <4>2. CASE k \in uncounted \/ k \notin uncounted'
        <5>1. k \in uncounted => (ShowsEntries(k) /\ ShowsRooms(k)) \/ k \in uncounted'
          <6>. SUFFICES ASSUME k \in uncounted, k \notin uncounted' PROVE ShowsEntries(k) /\ ShowsRooms(k)
            OBVIOUS
          <6>1. k = v.kind /\ v.alone /\ [o EXCEPT !.entries = sessions[s].entries, !.rooms = sessions[s].rooms] = o
            BY <1>12
          <6>2. o.entries = sessions[s].entries /\ o.rooms = sessions[s].rooms
            BY <1>5, <6>1 DEF IsRow
          <6>3. o = rows[k]
            BY <1>2, <1>4, <1>5, <2>2, <3>1, <6>1 DEF Row
          <6>. QED BY <1>5, <6>2, <6>3 DEF ShowsEntries, ShowsRooms
        <5>2. k \in unsure \/ ShowsValue(k)
          BY <4>1 DEF Shows, NoJob, ValueBehind
        <5>3. (ShowsValue(k) => ShowsValue(k)') /\ (ShowsEntries(k) => ShowsEntries(k)') /\ (ShowsRooms(k) => ShowsRooms(k)')
          BY <1>2 DEF ShowsValue, ShowsEntries, ShowsRooms, Recorded
        <5>4. k \in uncounted \/ (ShowsEntries(k) /\ ShowsRooms(k))
          BY <4>1 DEF Shows, NoJob, EntriesBehind, RoomsBehind
        <5>. QED BY <1>2, <5>1, <5>2, <5>3, <5>4 DEF Shows
      <4>3. CASE ~(k \in uncounted \/ k \notin uncounted')
        BY <1>12, <4>3
      <4>. QED BY <4>2, <4>3
    <3>. QED BY <2>2, <3>1, <3>2, VisitingFits
  <2>. QED BY <1>1, <1>2, <2>1, <2>2, <2>3, <2>4, <2>5, StepShown
<1>. QED BY <1>9, <1>10, <1>11, <1>12

LEMMA RefreshShown == ASSUME Inv, Inv', RecordInv, NEW p \in Requests, Refresh(p) PROVE RecordInv'
<1>1. PICK i : i = job[p] /\ Shaped(i) /\ i.at = "refreshing" /\ i.op = "open"
  <2>1. PICK i : i = job[p] /\ Shaped(i) /\ i.at = "refreshing"
    BY JobIs DEF Refresh, At
  <2>. QED BY <2>1, OpAt
<1>2. PICK k, o, s : k = i.kind /\ k \in Kinds /\ o = Row(i) /\ IsRow(o) /\ s = o.id
  BY <1>1 DEF Shaped, AreRows, Row
<1>3. PICK r : r = [o EXCEPT !.entries = i.seen.entries, !.rooms = i.seen.rooms] /\ rows' = [rows EXCEPT ![k] = r]
  BY <1>1, <1>2 DEF Refresh
<1>4. r.id = s /\ r.value = o.value /\ r.entries = i.seen.entries /\ r.rooms = i.seen.rooms
  BY <1>2, <1>3 DEF IsRow
<1>5. rows'[k] = r /\ \A m \in Kinds : m # k => rows'[m] = rows[m]
  BY <1>2, <1>3 DEF Inv, World, AreRows
<1>6. UNCHANGED <<sessions, there, unsure>> /\ uncounted' = IF i.alone THEN uncounted \ {k} ELSE uncounted
  BY <1>1, <1>2 DEF Refresh, platform
<1>7. PICK v : v = Visited(i)
  OBVIOUS
<1>8. Formed(v) /\ v.op = "open" /\ v.at = "visiting" /\ v.rows = i.rows /\ v.alone = i.alone
  <2>1. Formed(v)
    BY <1>1, <1>7 DEF Visited, Shaped, Formed
  <2>. QED BY <1>1, <1>7, <2>1, VisitedIs DEF Shaped
<1>9. PICK rs, j : rs = (IF there THEN rows' ELSE i.rows) /\ j = [v EXCEPT !.rows = rs] /\ Becomes(p, j)
  BY <1>1, <1>7, <1>8 DEF Refresh
<1>10. j.op = "open" /\ j.at = "visiting" /\ j.rows = rs /\ j.alone = i.alone
  BY <1>8, <1>9 DEF Formed
<1>11. Touches(j) = Touches(i) /\ Touches(i) \cap Kinds = Kinds
  <2>1. Touches(j) = Touches(i)
    BY <1>1, <1>10 DEF Touches
  <2>. QED BY <1>1, <2>1, KindsOf DEF Shaped
<1>12. Only({k}) /\ Only(Touches(i))
  BY <1>2, <1>5, <1>6, <1>11 DEF Only, AsBefore
<1>13. ASSUME there PROVE Fits(j)'
  <2>1. Fits(i)
    BY <1>1, <1>13 DEF RecordInv, AllFit
  <2>2. \A m \in Kinds : Shows(NoJob, m)
    BY <1>1, <1>11, <2>1 DEF Fits, Shows, ValueBehind, EntriesBehind, RoomsBehind
  <2>3. ASSUME NEW m \in Kinds PROVE Shows(NoJob, m)'
    <3>1. CASE m # k
      BY <1>12, <2>2, <3>1, ShowsKept DEF Inv
    <3>2. CASE m = k
      <4>1. k \notin unsure => ShowsValue(k)'
        <5>. SUFFICES ASSUME k \notin unsure PROVE ShowsValue(k)'
          OBVIOUS
        <5>1. o = rows[k]
          BY <1>1, <1>2, <1>11, <2>1 DEF Fits, RowIs, Rewrites, Certain, Row
        <5>2. ShowsValue(k)
          BY <1>2, <2>2 DEF Shows, NoJob, ValueBehind
        <5>. QED BY <1>2, <1>4, <1>5, <1>6, <5>1, <5>2 DEF ShowsValue, Recorded
      <4>2. k \notin uncounted' => sessions[s].entries = i.seen.entries /\ sessions[s].rooms = i.seen.rooms
        BY <1>1, <1>2, <1>6, <2>1 DEF Fits, PlaceOK, OpenOK, Counts
      <4>3. k \notin uncounted' => ShowsEntries(k)' /\ ShowsRooms(k)'
        BY <1>4, <1>5, <1>6, <4>2 DEF ShowsEntries, ShowsRooms
      <4>. QED BY <1>6, <3>2, <4>1, <4>3 DEF Shows
    <3>. QED BY <3>1, <3>2
  <2>. QED BY <1>9, <1>10, <1>13, <2>3, VisitingFits
<1>. QED BY <1>1, <1>2, <1>6, <1>9, <1>10, <1>11, <1>12, <1>13, StepShown

-----------------------------------------------------------------------------
(* Mishaps.                                                                  *)

(* What an interrupted request worked on is unsure and uncounted.            *)
LEMMA DisturbedShown ==
    ASSUME Inv, Inv', RecordInv, NEW p \in Requests, NEW i, i = job[p], Shaped(i), NEW j, Becomes(p, j),
           Unsettled({p}), UNCHANGED <<rows, there>>, \A s \in DOMAIN sessions : sessions[s].kind \in Touches(i) \/ AsBefore(s),
           \/ j = NoJob
           \/ /\ j.op = i.op /\ j.op \in {"change", "import", "open", "course"} /\ j.kind \in Kinds /\ ~InWork(j)
              /\ j.rows = i.rows /\ (j.alone => i.alone /\ j.op # "open") /\ Touches(j) = Touches(i)
              /\ ~(i.op = "change" /\ i.at = "logging")
              /\ there /\ Fits(i) => Named(j)
    PROVE  RecordInv'
<1>1. unsure' = unsure \cup Touches(i) /\ uncounted' = uncounted \cup (Touches(i) \cap Kinds)
  BY DEF Unsettled
<1>2. Only(Touches(i))
  BY <1>1 DEF Only
<1>3. \A k \in Touches(i) \cap Kinds : Shows(NoJob, k)'
  BY <1>1 DEF Shows
<1>4. CASE j = NoJob
  BY <1>1, <1>2, <1>3, <1>4, IdleIs, NoneFits, StepShown
<1>5. CASE j # NoJob
  <2>1. Touches(j)' = Touches(i)
    BY <1>5 DEF Touches
  <2>2. ASSUME there PROVE Fits(j)'
    <3>1. Fits(i)
      BY <2>2 DEF RecordInv, AllFit
    <3>2. Row(j)' = Row(j) /\ Named(j)
      BY <1>5, <2>2, <3>1 DEF Row
    <3>3. Named(j)'
      BY <3>2 DEF Named
    <3>4. RowIs(j)'
      <4>. SUFFICES ASSUME j.op \in Rewrites, NEW m \in Touches(i) \cap Kinds, Certain(j, m)' \/ Counts(j, m)'
                    PROVE  j.rows[m] = rows'[m]
        BY <2>1 DEF RowIs
      <4>1. i.alone /\ i.op \in Rewrites
        BY <1>1, <1>5 DEF Certain, Counts
      <4>. QED BY <1>5, <3>1, <4>1 DEF Fits, RowIs, Certain
    <3>5. j.op \in {"change", "import", "open"} => j.kind \in unsure' /\ j.kind \in uncounted'
      <4>1. j.op \in {"change", "import", "open"} => j.kind \in Touches(j)
        BY <1>5 DEF Touches
      <4>. QED BY <1>1, <1>5, <4>1
    <3>6. ChangeOK(j)' /\ SyncOK(j)' /\ ImportOK(j)' /\ RoomsOK(j)'
      BY <1>5, <3>5 DEF ChangeOK, SyncOK, ImportOK, RoomsOK
    <3>7. OpenOK(j)' /\ CreateOK(j)'
      BY <1>5, <3>5 DEF OpenOK, CreateOK, Counts, InWork
    <3>8. \A m \in Touches(j)' \cap Kinds : Shows(j, m)'
      BY <1>1, <2>1 DEF Shows
    <3>. QED BY <3>3, <3>4, <3>6, <3>7, <3>8 DEF Fits, PlaceOK
  <2>. QED BY <1>1, <1>2, <1>5, <2>2, StepShown
<1>. QED BY <1>4, <1>5

(* A call changes sessions that its request works on.                        *)
LEMMA CarriedWithin ==
    ASSUME Inv, NEW p \in Requests, NEW i, i = job[p], Shaped(i), i.at \in Calling, CarriedOut(p),
           NEW s \in DOMAIN sessions
    PROVE  sessions[s].kind \in Touches(i) \/ AsBefore(s)
<1>1. CASE i.at \in {"creating", "renaming"}
  BY <1>1 DEF CarriedOut, At, AsBefore
<1>2. CASE i.at = "posting"
  <2>1. Posted(i.kind)
    BY <1>2, PostingIs DEF Inv, At, Shaped
  <2>. QED BY <2>1 DEF Posted, AsBefore
<1>3. CASE i.at = "binding"
  <2>1. \E v : Put(i.of, "bound", v)
    BY <1>3 DEF CarriedOut, At
  <2>. QED BY <2>1, PutIs DEF Inv, Fields
<1>4. CASE i.at = "deleting"
  <2>1. Touches(i) \cap Kinds = Kinds
    BY <1>4, OpAt, KindsOf DEF Shaped
  <2>. QED BY <2>1 DEF Inv, World, IsSession
<1>5. CASE i.at \in OnSession
  <2>1. i.op \in {"change", "import", "rooms"} /\ i.kind \in Kinds
    BY <1>5, OpAt DEF OnSession, Shaped
  <2>2. PICK t, f, v : t = Row(i).id /\ f \in {"value", "entries", "rooms"} /\ Put(t, f, v)
    BY <1>5 DEF CarriedOut, At, OnSession, Target
  <2>3. s # t => AsBefore(s)
    BY <2>2, PutIs DEF Inv, Fields
  <2>4. s = t => sessions[s].kind = i.kind
    BY <2>1, <2>2, JobIs DEF JobOK, RowsOf, IsOf, Row, Inv, World, Listed, NoSession
  <2>5. i.kind \in Touches(i)
    BY <2>1, TouchesIs DEF Shaped
  <2>. QED BY <2>3, <2>4, <2>5
<1>. QED BY <1>1, <1>2, <1>3, <1>4, <1>5 DEF Calling

LEMMA CallFailsShown == ASSUME Inv, Inv', RecordInv, NEW p \in Requests, CallFails(p) PROVE RecordInv'
<1>1. PICK i : i = job[p] /\ Shaped(i)
  BY JobIs
<1>2. UNCHANGED <<rows, there>> /\ Unsettled({p})
  BY DEF CallFails, Broken, StepFails, task
<1>3. \/ Becomes(p, NoJob)
      \/ Goes(p, "refusing") /\ (At(p, "putting") \/ Doing(p, "course"))
  BY DEF CallFails, Broken, StepFails, Ends
<1>4. \A s \in DOMAIN sessions : sessions[s].kind \in Touches(i) \/ AsBefore(s)
  <2>1. UNCHANGED sessions => \A s \in DOMAIN sessions : AsBefore(s)
    BY DEF AsBefore
  <2>. QED BY <1>1, <2>1, CarriedWithin DEF CallFails, platform
<1>5. CASE Becomes(p, NoJob)
  BY <1>1, <1>2, <1>4, <1>5, DisturbedShown
<1>6. CASE Goes(p, "refusing") /\ (At(p, "putting") \/ Doing(p, "course"))
  <2>1. PICK j : j = [i EXCEPT !.at = "refusing"] /\ Becomes(p, j)
    BY <1>1, <1>6 DEF Goes
  <2>2. Alike(i, j) /\ j.at = "refusing" /\ i.op \in {"change", "course"} /\ (i.op = "change" => i.at = "putting")
    <3>1. Alike(i, j) /\ j.at = "refusing"
      BY <1>1, <2>1 DEF Shaped, Formed, Alike
    <3>. QED BY <1>1, <1>6, <3>1, OpAt DEF At, Doing
  <2>3. Touches(j) = Touches(i) /\ Row(j) = Row(i) /\ ~InWork(j) /\ j.kind \in Kinds /\ j.op = i.op
    BY <1>1, <2>2 DEF Alike, Touches, Row, InWork, Shaped
  <2>4. Fits(i) => Named(j)
    BY <2>2, <2>3 DEF Fits, Named
  <2>. QED BY <1>1, <1>2, <1>4, <2>1, <2>2, <2>3, <2>4, DisturbedShown DEF Alike
<1>. QED BY <1>3, <1>5, <1>6

LEMMA ReadFailsShown == ASSUME Inv, Inv', RecordInv, NEW p \in Requests, ReadFails(p) PROVE RecordInv'
<1>1. PICK i : i = job[p] /\ Shaped(i)
  BY JobIs
<1>2. UNCHANGED <<sessions, rows, there>> /\ Unsettled({p})
  BY DEF ReadFails, platform, task
<1>3. PICK v : v = [Visiting(i) EXCEPT !.alone = FALSE]
  OBVIOUS
<1>4. PICK x : x = [NoRow EXCEPT !.entries = sessions[Row(v).id].entries, !.rooms = sessions[Row(v).id].rooms]
  OBVIOUS
<1>5. \/ /\ i.at = "looking" /\ i.op = "change" /\ (Becomes(p, NoJob) \/ Goes(p, "putting"))
      \/ i.at = "reading" /\ Goes(p, "saving")
      \/ /\ i.at = "visiting" /\ SessionThere(Row(v).id)
         /\ \/ Becomes(p, Visited(v))
            \/ Becomes(p, Roomless(v, x))
  BY <1>1, <1>3, <1>4 DEF ReadFails, Looked, Ends, At, Doing, Counted, Roomless
<1>6. \A s \in DOMAIN sessions : AsBefore(s)
  BY <1>2 DEF AsBefore
<1>7. CASE Becomes(p, NoJob)
  BY <1>1, <1>2, <1>6, <1>7, DisturbedShown
<1>8. CASE \/ i.at = "looking" /\ i.op = "change" /\ Goes(p, "putting")
           \/ i.at = "reading" /\ Goes(p, "saving")
  <2>1. PICK place, j : place \in {"putting", "saving"} /\ j = [i EXCEPT !.at = place] /\ Becomes(p, j)
    BY <1>1, <1>8 DEF Goes
  <2>2. Alike(i, j) /\ j.at = place
    BY <1>1, <2>1 DEF Shaped, Formed, Alike
  <2>3. i.op \in {"change", "import"} /\ i.at # "logging"
    BY <1>1, <1>8, OpAt
  <2>4. Touches(j) = Touches(i) /\ Row(j) = Row(i) /\ ~InWork(j) /\ j.kind \in Kinds /\ j.op = i.op
    BY <1>1, <2>1, <2>2 DEF Alike, Touches, Row, InWork, Shaped
  <2>5. Fits(i) => Named(j)
    BY <2>3, <2>4 DEF Fits, Named
  <2>. QED BY <1>1, <1>2, <1>6, <2>1, <2>2, <2>3, <2>4, <2>5, DisturbedShown DEF Alike
<1>9. CASE i.at = "visiting" /\ SessionThere(Row(v).id) /\ (Becomes(p, Visited(v)) \/ Becomes(p, Roomless(v, x)))
  <2>1. i.op = "open" /\ IsRow(x)
    BY <1>1, <1>4, <1>9, OpAt DEF IsRow, NoRow
  <2>2. Formed(v) /\ v.op = "open" /\ v.rows = i.rows /\ v.kind \in Kinds /\ ~v.alone
    <3>1. v.alone = FALSE
      BY <1>1, <1>3 DEF Shaped, Formed, Visiting
    <3>. QED BY <1>1, <1>3, <2>1, <3>1, VisitingIs
  <2>3. PICK j : Becomes(p, j) /\ (j = Visited(v) \/ j = Roomless(v, x))
    BY <1>9
  <2>4. /\ j.op = "open" /\ j.rows = i.rows /\ ~j.alone /\ j.at \in {"visiting", "refreshing"} /\ j.kind \in Kinds
        /\ j.at = "refreshing" => j.kind = v.kind
    <3>1. CASE j = Visited(v)
      <4>1. j.kind = "trial"
        BY <2>2, <3>1 DEF Visited, Formed
      <4>. QED BY <2>2, <3>1, <4>1, VisitedIs DEF Kinds
    <3>2. CASE j = Roomless(v, x)
      BY <2>1, <2>2, <3>2, ShownIs
    <3>. QED BY <2>3, <3>1, <3>2
  <2>5. Touches(j) = Touches(i) /\ ~InWork(j)
    BY <2>1, <2>4 DEF Touches, InWork
  <2>6. Named(j)
    <3>1. Row(v).id # NoSession
      BY <1>9 DEF SessionThere, Inv, World, Listed, NoSession
    <3>. QED BY <2>2, <2>4, <3>1 DEF Named, Row
  <2>. QED BY <1>1, <1>2, <1>6, <2>1, <2>3, <2>4, <2>5, <2>6, DisturbedShown
<1>. QED BY <1>5, <1>7, <1>8, <1>9

-----------------------------------------------------------------------------
(* Requests that begin, and what befalls them all.                           *)

(* Less is sure than before, and nobody is alone where a value changed.      *)
Milder(b) ==
    /\ UNCHANGED rows /\ unsure \subseteq unsure' /\ uncounted \subseteq uncounted'
    /\ \A s \in DOMAIN sessions :
         /\ sessions'[s].there = sessions[s].there
         /\ sessions'[s].entries = sessions[s].entries /\ sessions'[s].rooms = sessions[s].rooms
         /\ sessions'[s].value = sessions[s].value \/ (sessions[s].kind \in unsure' /\ ~b)

LEMMA MilderShows ==
    ASSUME World, NEW b, Milder(b), NEW k \in Kinds
    PROVE  /\ ShowsValue(k) => ShowsValue(k)' \/ (k \in unsure' /\ ~b)
           /\ \A j : Shows(j, k) => Shows(j, k)'
<1>1. rows'[k] = rows[k] /\ (Recorded(k) => rows[k].id \in DOMAIN sessions /\ sessions[rows[k].id].kind = k)
  BY DEF World, RowsOf, IsOf, Recorded, Milder
<1>2. ShowsValue(k) => ShowsValue(k)' \/ (k \in unsure' /\ ~b)
  BY <1>1 DEF ShowsValue, Recorded, Milder
<1>3. (ShowsEntries(k) => ShowsEntries(k)') /\ (ShowsRooms(k) => ShowsRooms(k)')
  BY <1>1 DEF ShowsEntries, ShowsRooms, Recorded, Milder
<1>4. (k \in unsure => k \in unsure') /\ (k \in uncounted => k \in uncounted')
  BY DEF Milder
<1>. QED BY <1>2, <1>3, <1>4 DEF Shows, ValueBehind, EntriesBehind, RoomsBehind

LEMMA FitsMilder ==
    ASSUME World, NEW i, Shaped(i), RowsOf(i.rows), InWork(i) => IsOf(i.id, i.kind), Fits(i),
           NEW b, b => i.alone, Milder(b), NEW o, o = [i EXCEPT !.alone = b]
    PROVE  Fits(o)'
<1>1. /\ o.op = i.op /\ o.at = i.at /\ o.kind = i.kind /\ o.id = i.id /\ o.rows = i.rows /\ o.seen = i.seen /\ o.to = i.to
      /\ o.alone = b /\ o.kind \in Kinds /\ o.op \in DOMAIN Steps
  BY DEF Shaped, Formed
<1>2. Touches(o)' = Touches(i) /\ Touches(o) = Touches(i) /\ Row(o) = Row(i) /\ Row(o)' = Row(i)
  BY <1>1 DEF Touches, Row
<1>3. PICK k, s : k = i.kind /\ k \in Kinds /\ s = Row(i).id
  BY <1>1
<1>4. s # NoSession => s \in DOMAIN sessions /\ sessions[s].kind = k
  BY <1>3 DEF RowsOf, IsOf, Row
<1>5. (k \in unsure => k \in unsure') /\ (k \in uncounted => k \in uncounted') /\ rows' = rows
  BY DEF Milder
<1>6. Named(o)'
  BY <1>1, <1>2 DEF Fits, Named
<1>7. RowIs(o)'
  <2>1. \A m : (Certain(o, m)' => Certain(i, m)) /\ (Counts(o, m)' => Counts(i, m))
    BY <1>1 DEF Certain, Counts, Milder
  <2>. QED BY <1>1, <1>2, <1>5, <2>1 DEF Fits, RowIs
<1>8. \A m \in Touches(o)' \cap Kinds : Shows(o, m)'
  <2>1. \A m \in Touches(i) \cap Kinds : Shows(i, m)'
    BY MilderShows DEF Fits
  <2>. QED BY <1>1, <1>2, <2>1 DEF Shows, ValueBehind, EntriesBehind, RoomsBehind
<1>9. s # NoSession => /\ sessions'[s].there = sessions[s].there
                       /\ sessions'[s].entries = sessions[s].entries /\ sessions'[s].rooms = sessions[s].rooms
                       /\ sessions'[s].value = sessions[s].value \/ (k \in unsure' /\ ~b)
  BY <1>4 DEF Milder
<1>10. s # NoSession \/ ~(i.op \in {"change", "sync", "import", "rooms"} \/ i.at = "refreshing")
  BY <1>3 DEF Fits, Named
<1>11. ChangeOK(o)' /\ ImportOK(o)' /\ RoomsOK(o)'
  BY <1>1, <1>2, <1>3, <1>5, <1>9, <1>10 DEF Fits, PlaceOK, ChangeOK, ImportOK, RoomsOK
<1>12. OpenOK(o)'
  BY <1>1, <1>2, <1>3, <1>5, <1>9, <1>10 DEF Fits, PlaceOK, OpenOK, Counts
<1>13. SyncOK(o)'
  <2>. SUFFICES ASSUME i.op = "sync", Certain(o, k)' PROVE SyncOK(o)'
    BY <1>1, <1>3 DEF SyncOK
  <2>1. Certain(i, k) /\ ~(k \in unsure' /\ ~b)
    BY <1>1, <1>5 DEF Certain
  <2>2. ShowsValue(k) => ShowsValue(k)'
    BY <1>3, <2>1, MilderShows
  <2>. QED BY <1>1, <1>2, <1>3, <1>9, <1>10, <2>1, <2>2 DEF Fits, PlaceOK, SyncOK
<1>14. CreateOK(o)'
  <2>. SUFFICES ASSUME InWork(i) PROVE CreateOK(o)'
    BY <1>1 DEF CreateOK, InWork
  <2>1. /\ sessions'[i.id].there = sessions[i.id].there
        /\ sessions'[i.id].entries = sessions[i.id].entries /\ sessions'[i.id].rooms = sessions[i.id].rooms
        /\ sessions'[i.id].value = sessions[i.id].value \/ k \in unsure'
    BY <1>3 DEF IsOf, Milder
  <2>. QED BY <1>1, <1>3, <1>5, <2>1 DEF Fits, PlaceOK, CreateOK
<1>. QED BY <1>6, <1>7, <1>8, <1>11, <1>12, <1>13, <1>14 DEF Fits, PlaceOK

(* A request that begins: those that work on the same kinds meet it.         *)
LEMMA BeginsShown ==
    ASSUME Inv, Inv', RecordInv, NEW p \in Requests, NEW j, Fresh(j), Starting(j), Begins(p, j)
    PROVE  RecordInv'
<1>1. there /\ job[p].at = "idle" /\ UNCHANGED <<sessions, rows, there>>
  BY DEF Begins, platform, task, At
<1>2. \A q \in Requests \ {p} :
        /\ job'[q] = [job[q] EXCEPT !.alone = @ /\ Touches(job[q]) \cap Touches(j) = {}]
        /\ Touches(job[q]) \cap Touches(j) \subseteq unsure'
        /\ Touches(job[q]) \cap Touches(j) \cap Kinds \subseteq uncounted'
  BY DEF Begins
<1>3. unsure \subseteq unsure' /\ uncounted \subseteq uncounted'
  BY DEF Begins
<1>4. \A b : Milder(b)
  BY <1>1, <1>3 DEF Milder
<1>5. PICK b, n, i : /\ i = [j EXCEPT !.alone = b, !.number = n] /\ job'[p] = i
                     /\ b => \A q \in Requests \ {p} : Touches(job[q]) \cap Touches(j) = {}
  BY DEF Begins
<1>6. /\ i.op = j.op /\ i.at = j.at /\ i.kind = j.kind /\ i.rows = j.rows /\ i.alone = b
      /\ i.op \in DOMAIN Steps /\ i.at \in Steps[i.op] /\ i.kind \in Kinds /\ ~InWork(i)
  BY <1>5 DEF Fresh, Shaped, Formed, InWork
<1>7. Touches(i) = Touches(j) /\ Touches(i)' = Touches(j) /\ Row(i)' = j.rows[j.kind]
  BY <1>6 DEF Touches, Row
<1>8. ASSUME NEW q \in Requests, q # p
      PROVE  /\ Fits(job[q])' /\ Touches(job'[q]) = Touches(job[q])
             /\ job'[q].alone => job[q].alone /\ Touches(job[q]) \cap Touches(j) = {}
  <2>1. PICK k, a, o : /\ k = job[q] /\ JobOK(k) /\ Shaped(k) /\ a = (k.alone /\ Touches(k) \cap Touches(j) = {})
                       /\ o = [k EXCEPT !.alone = a]
    BY JobIs
  <2>2. job'[q] = o
    <3>1. [k EXCEPT !.alone = @ /\ Touches(k) \cap Touches(j) = {}] = o
      BY <2>1 DEF Shaped, Formed
    <3>. QED BY <1>2, <1>8, <2>1, <3>1
  <2>3. Fits(k)
    BY <1>1, <2>1 DEF RecordInv, AllFit
  <2>4. Fits(o)'
    BY <1>4, <2>1, <2>3, FitsMilder DEF Inv, JobOK, HandOK
  <2>5. Touches(o) = Touches(k) /\ o.alone = a
    BY <2>1, AloneIs DEF Shaped, Formed
  <2>. QED BY <2>1, <2>2, <2>4, <2>5, FitsAt
<1>9. Meet'
  <2>. SUFFICES ASSUME NEW q \in Requests, NEW r \in Requests, q # r,
                       NEW k \in Touches(job'[q]) \cap Touches(job'[r]) \cap Kinds
                PROVE  ~job'[q].alone /\ k \in unsure' /\ k \in uncounted'
    BY DEF Meet, Touches
  <2>1. CASE q = p
    BY <1>2, <1>5, <1>6, <1>7, <1>8, <2>1
  <2>2. CASE r = p
    BY <1>2, <1>5, <1>7, <1>8, <2>2
  <2>3. CASE q # p /\ r # p
    <3>1. ~job[q].alone /\ k \in unsure /\ k \in uncounted
      BY <1>8, <2>3 DEF RecordInv, Meet
    <3>. QED BY <1>3, <1>8, <2>3, <3>1
  <2>. QED BY <2>1, <2>2, <2>3
<1>10. ASSUME NEW k \in Kinds, \A q \in Requests \ {p} : k \notin Touches(job[q]) PROVE Shows(NoJob, k)'
  <2>1. job[p].op = "none" /\ Touches(job[p]) = {}
    <3>1. job[p].op = "none" /\ Shaped(job[p])
      BY <1>1, JobIs, OpAt
    <3>. QED BY <3>1, TouchesIs DEF Shaped
  <2>2. Idle({k})
    BY <1>10, <2>1 DEF Idle
  <2>3. Shows(NoJob, k)
    BY <1>1, <2>2 DEF RecordInv, AllFit
  <2>. QED BY <1>4, <2>3, MilderShows DEF Inv
<1>11. Fits(i)'
  <2>1. Named(i)'
    BY <1>1, <1>6, <1>7, TouchesIs, KindsOf DEF Starting, Starts, Named, Rewrites, Recorded
  <2>2. RowIs(i)'
    BY <1>1, <1>6, <1>7 DEF Starting, RowIs
  <2>3. PlaceOK(i)'
    BY <1>6 DEF Starting, Starts, PlaceOK, ChangeOK, SyncOK, ImportOK, RoomsOK, OpenOK, CreateOK
  <2>4. ASSUME NEW k \in Touches(i)' \cap Kinds PROVE Shows(i, k)'
    <3>1. CASE \E q \in Requests \ {p} : k \in Touches(job[q])
      BY <1>2, <1>7, <3>1 DEF Shows
    <3>2. CASE \A q \in Requests \ {p} : k \notin Touches(job[q])
      BY <1>10, <3>2 DEF Shows, NoJob, ValueBehind, EntriesBehind, RoomsBehind
    <3>. QED BY <3>1, <3>2
  <2>. QED BY <2>1, <2>2, <2>3, <2>4 DEF Fits
<1>12. ASSUME NEW k \in Kinds, Idle({k})' PROVE Shows(NoJob, k)'
  <2>1. \A q \in Requests : k \notin Touches(job'[q])
    BY <1>12 DEF Idle, Touches
  <2>. QED BY <1>8, <1>10, <2>1
<1>13. \A q \in Requests : Fits(job[q])'
  <2>1. Fits(job[p])'
    BY <1>5, <1>11, FitsAt
  <2>. QED BY <1>8, <2>1
<1>. QED BY <1>9, <1>12, <1>13 DEF RecordInv, AllFit

(* A change by hand leaves the value of a session unsure, and nobody alone.  *)
LEMMA HandEditShown == ASSUME Inv, Inv', RecordInv, NEW s, NEW v, HandEdit(s, v) PROVE RecordInv'
<1>1. /\ UNCHANGED <<rows, there, uncounted>> /\ unsure' = unsure \cup {sessions[s].kind} /\ Put(s, "value", v)
      /\ job' = [q \in Requests |-> [job[q] EXCEPT !.alone = FALSE]]
  BY DEF HandEdit, task
<1>2. Milder(FALSE)
  <2>1. "value" \in Fields
    BY DEF Fields
  <2>2. \A t \in DOMAIN sessions : /\ t # s => AsBefore(t)
                                   /\ sessions'[t].there = sessions[t].there
                                   /\ sessions'[t].entries = sessions[t].entries
                                   /\ sessions'[t].rooms = sessions[t].rooms
    <3>1. PICK f \in Fields : f = "value"
      BY <2>1
    <3>2. Put(s, f, v)
      BY <1>1, <3>1
    <3>3. \A t \in DOMAIN sessions : t # s => AsBefore(t)
      BY <3>2, PutIs DEF Inv
    <3>4. \A t \in DOMAIN sessions : f # "there" => sessions'[t].there = sessions[t].there
      BY <3>2, PutIs DEF Inv
    <3>5. \A t \in DOMAIN sessions : f # "entries" => sessions'[t].entries = sessions[t].entries
      BY <3>2, PutIs DEF Inv
    <3>6. \A t \in DOMAIN sessions : f # "rooms" => sessions'[t].rooms = sessions[t].rooms
      BY <3>2, PutIs DEF Inv
    <3>. QED BY <3>1, <3>3, <3>4, <3>5, <3>6
  <2>. QED BY <1>1, <2>2 DEF Milder, AsBefore
<1>3. ASSUME NEW q \in Requests
      PROVE  /\ there => Fits(job[q])'
             /\ Touches(job'[q]) = Touches(job[q]) /\ ~job'[q].alone
  <2>1. PICK k, o : k = job[q] /\ JobOK(k) /\ Shaped(k) /\ o = [k EXCEPT !.alone = FALSE] /\ job'[q] = o
    BY <1>1, JobIs
  <2>2. there => Fits(k)
    BY <2>1 DEF RecordInv, AllFit
  <2>3. there => Fits(o)'
    BY <1>2, <2>1, <2>2, FitsMilder DEF Inv, JobOK, HandOK
  <2>4. Touches(o) = Touches(k) /\ o.alone = FALSE
    BY <2>1, AloneIs DEF Shaped, Formed
  <2>. QED BY <2>1, <2>3, <2>4, FitsAt
<1>4. Meet'
  <2>. SUFFICES ASSUME NEW q \in Requests, NEW r \in Requests, q # r,
                       NEW k \in Touches(job'[q]) \cap Touches(job'[r]) \cap Kinds
                PROVE  ~job'[q].alone /\ k \in unsure' /\ k \in uncounted'
    BY DEF Meet, Touches
  <2>1. k \in Touches(job[q]) \cap Touches(job[r]) \cap Kinds /\ ~job'[q].alone
    BY <1>3
  <2>2. k \in unsure /\ k \in uncounted
    BY <2>1 DEF RecordInv, Meet
  <2>. QED BY <1>1, <2>1, <2>2
<1>5. ASSUME there, NEW k \in Kinds, Idle({k})' PROVE Shows(NoJob, k)'
  <2>1. Idle({k})
    BY <1>3, <1>5 DEF Idle, Touches
  <2>2. Shows(NoJob, k)
    BY <1>5, <2>1 DEF RecordInv, AllFit
  <2>. QED BY <1>2, <2>2, MilderShows DEF Inv
<1>. QED BY <1>1, <1>3, <1>4, <1>5 DEF RecordInv, AllFit

LEMMA RestartShown == ASSUME Inv, Inv', RecordInv, Restart PROVE RecordInv'
<1>1. /\ UNCHANGED <<sessions, rows, there>> /\ \A q \in Requests : job'[q] = NoJob
      /\ unsure \subseteq unsure' /\ uncounted \subseteq uncounted'
      /\ \A q \in Requests : /\ Touches(job[q]) \subseteq unsure'
                            /\ Touches(job[q]) \cap Kinds \subseteq uncounted'
  <2>1. UNCHANGED <<sessions, rows, there>> /\ job' = [q \in Requests |-> NoJob]
    BY DEF Restart, platform, task
  <2>2. \A q \in Requests : job'[q] = NoJob
    BY <2>1
  <2>3. PICK met : /\ met = UNION {Touches(job[p]) : p \in Requests}
                   /\ unsure' = unsure \cup met /\ uncounted' = uncounted \cup (met \cap Kinds)
    BY DEF Restart, Unsettled
  <2>4. \A q \in Requests : Touches(job[q]) \subseteq met
    BY <2>3
  <2>. QED BY <2>1, <2>2, <2>3, <2>4
<1>2. Milder(FALSE)
  BY <1>1 DEF Milder
<1>3. Meet'
  BY <1>1, IdleIs DEF Meet, Touches
<1>4. \A q \in Requests : Fits(job[q])'
  BY <1>1, NoneFits, FitsAt
<1>5. ASSUME there, NEW k \in Kinds PROVE Shows(NoJob, k)'
  <2>1. CASE Idle({k})
    <3>1. Shows(NoJob, k)
      BY <1>5, <2>1 DEF RecordInv, AllFit
    <3>. QED BY <1>2, <3>1, MilderShows DEF Inv
  <2>2. CASE ~Idle({k})
    <3>1. PICK q \in Requests : k \in Touches(job[q])
      BY <2>2 DEF Idle
    <3>. QED BY <1>1, <3>1 DEF Shows
  <2>. QED BY <2>1, <2>2
<1>. QED BY <1>1, <1>3, <1>4, <1>5 DEF RecordInv, AllFit

LEMMA SameShown == ASSUME Inv, RecordInv, UNCHANGED <<sessions, rows, unsure, uncounted, there, job>> PROVE RecordInv'
<1>1. Meet'
  BY DEF RecordInv, Meet, Touches
<1>2. ASSUME there, NEW q \in Requests PROVE Fits(job[q])'
  <2>1. PICK k : k = job[q] /\ JobOK(k) /\ Fits(k)
    BY <1>2 DEF Inv, RecordInv, AllFit
  <2>2. Only({})
    BY NothingOnly
  <2>3. Fits(k)'
    BY <2>1, <2>2, FitsKept DEF Inv, JobOK, HandOK
  <2>. QED BY <2>1, <2>3, FitsAt
<1>3. ASSUME there, NEW k \in Kinds, Idle({k})' PROVE Shows(NoJob, k)'
  <2>1. Idle({k})
    BY <1>3 DEF Idle, Touches
  <2>2. Shows(NoJob, k) /\ Only({})
    BY <1>3, <2>1, NothingOnly DEF RecordInv, AllFit
  <2>. QED BY <2>2, ShowsKept DEF Inv
<1>. QED BY <1>1, <1>2, <1>3 DEF RecordInv, AllFit

-----------------------------------------------------------------------------
(* The specification.                                                        *)

LEMMA InitRecordInv == ASSUME Init PROVE RecordInv
<1>1. job = [p \in Requests |-> NoJob] /\ there
  BY DEF Init
<1>2. \A p \in Requests : job[p] = NoJob /\ Touches(job[p]) = {}
  BY <1>1, IdleIs
<1>3. Meet
  BY <1>2 DEF Meet
<1>4. \A k \in Kinds : ShowsValue(k) /\ ShowsEntries(k) /\ ShowsRooms(k)
  <2>1. CASE rows = NoRows
    BY <2>1 DEF ShowsValue, ShowsEntries, ShowsRooms, Recorded, NoRows, NoRow
  <2>2. CASE rows = MadeRows /\ \E b : sessions = <<[Session("formal") EXCEPT !.bound = b], Session("trial")>>
    <3>1. PICK x, y : /\ sessions = <<x, y>>
                      /\ x.there /\ x.value = First /\ x.entries = 0 /\ x.rooms = 0
                      /\ y.there /\ y.value = First /\ y.entries = 0 /\ y.rooms = 0
      <4>1. PICK b, x : sessions = <<x, Session("trial")>> /\ x = [Session("formal") EXCEPT !.bound = b]
        BY <2>2
      <4>2. x.there /\ x.value = First /\ x.entries = 0 /\ x.rooms = 0
        BY <4>1 DEF Session
      <4>3. PICK y : y = Session("trial")
        OBVIOUS
      <4>4. y.there /\ y.value = First /\ y.entries = 0 /\ y.rooms = 0
        BY <4>3 DEF Session
      <4>. QED BY <4>1, <4>2, <4>3, <4>4
    <3>2. sessions[1] = x /\ sessions[2] = y
      BY <3>1
    <3>3. \A k \in Kinds : /\ rows[k].id = IF k = "formal" THEN 1 ELSE 2
                           /\ rows[k].value = First /\ rows[k].entries = 0 /\ rows[k].rooms = 0
      BY <2>2 DEF MadeRows, NoRow
    <3>. QED BY <3>1, <3>2, <3>3 DEF ShowsValue, ShowsEntries, ShowsRooms
  <2>. QED BY <2>1, <2>2 DEF Init
<1>5. \A p \in Requests : Fits(job[p])
  BY <1>2, NoneFits
<1>. QED BY <1>3, <1>4, <1>5 DEF RecordInv, AllFit, Shows

LEMMA BeginningShown ==
    ASSUME Inv, Inv', RecordInv, NEW p \in Requests,
           \/ Create(p) \/ Bind(p) \/ Open(p) \/ Delete(p)
           \/ \E k \in Kinds : Sync(p, k) \/ Import(p, k) \/ (\E v : Change(p, k, v)) \/ (\E n : Rooms(p, k, n))
           \/ \E names : Rename(p, names)
    PROVE  RecordInv'
<1>1. PICK j : Begins(p, j) /\ Fresh(j) /\ Starting(j)
  BY BeginningIs
<1>. QED BY <1>1, BeginsShown

LEMMA RecordStep == ASSUME Inv, Inv', RecordInv, [Next]_vars PROVE RecordInv'
<1>1. ASSUME NEW p \in Requests, Creation(p) PROVE RecordInv'
  BY <1>1, BeginningShown, CreationShown, RecordShown DEF Creation
<1>2. ASSUME NEW p \in Requests, Changing(p) PROVE RecordInv'
  BY <1>2, BeginningShown, ChangeShown, EndingShown, SaveShown, LogShown, ComparedShown, SyncWriteShown, CreationShown,
     RenameMarkShown DEF Changing, SyncLook, InventoryFails
<1>3. ASSUME NEW p \in Requests, Keeping(p) PROVE RecordInv'
  BY <1>3, BeginningShown, ReadingShown, VisitShown, RefreshShown, DropShown DEF Keeping
<1>4. ASSUME NEW p \in Requests, Call(p) \/ NotFound(p) \/ TaskGone(p) \/ CallFails(p) \/ ReadFails(p) PROVE RecordInv'
  BY <1>4, AnyCallShown, NotFoundShown, EndingShown, CallFailsShown, ReadFailsShown
<1>5. Erase \/ (\E code : OtherCourse(code)) \/ UNCHANGED vars => RecordInv'
  BY SameShown DEF Erase, OtherCourse, vars, platform, task, ghosts
<1>. QED BY <1>1, <1>2, <1>3, <1>4, <1>5, RestartShown, HandEditShown DEF Next

(* Whenever no request is at work on a recorded session, the task shows what *)
(* the platform has: name and times, candidates and rooms.  Only where two   *)
(* requests met, a call failed or people changed the session by hand is that *)
(* not so, until a synchronisation or a visit that nothing disturbed.        *)
THEOREM RowShowsSessionHolds == Spec => []RowShowsSession
<1>1. Inv /\ RecordInv => RowShowsSession
  <2>. SUFFICES ASSUME RecordInv, NEW k \in Kinds, there, Recorded(k), Idle({k})
                PROVE  /\ k \notin unsure => /\ sessions[rows[k].id].there
                                             /\ rows[k].value = sessions[rows[k].id].value
                       /\ k \notin uncounted => /\ rows[k].entries = sessions[rows[k].id].entries
                                                /\ rows[k].rooms = sessions[rows[k].id].rooms
    BY DEF RowShowsSession
  <2>1. Shows(NoJob, k)
    BY DEF RecordInv, AllFit
  <2>2. ~ValueBehind(NoJob) /\ ~EntriesBehind(NoJob) /\ ~RoomsBehind(NoJob)
    BY DEF NoJob, ValueBehind, EntriesBehind, RoomsBehind
  <2>. QED BY <2>1, <2>2 DEF Shows, ShowsValue, ShowsEntries, ShowsRooms
<1>2. Init => Inv /\ RecordInv
  BY InitInv, InitRecordInv
<1>3. Inv /\ RecordInv /\ [Next]_vars => (Inv /\ RecordInv)'
  BY InvStep, RecordStep
<1>. QED BY <1>1, <1>2, <1>3, PTL DEF Spec

-----------------------------------------------------------------------------
(* What is bound.  Where no two requests met on the formal session or on the *)
(* courses, a request that is to change courses, or what they are bound to,  *)
(* finds them as it has read or written them.                                *)
Clear == {"formal", "courses"} \cap crossed = {}
Codes(cs) == {c.code : c \in cs}
Numbered == {NoSession} \cup DOMAIN sessions
Numbers(j) == j.op \in {"create", "bind"} => j.id \in Numbered /\ j.of \in Numbered

BoundOK == paperBind = "success" /\ rows["formal"].id = boundFor => Codes(Stored) \subseteq BoundTo(boundFor)

(* A creation that has recorded its formal session displaced the bound one.  *)
Displaced(j) == j.kind = "trial" \/ j.at = "made"
CreationOK(j) ==
    j.op = "create" =>
        /\ InWork(j) /\ j.kind = "formal" => j.id # boundFor
        /\ Displaced(j) => rows["formal"].id # boundFor
        /\ j.at \in Coursing \cup {"toBind", "binding", "bound"} => j.kind = "trial"
        /\ j.at = "pinned" => j.held = courses
        /\ j.at = "created" => j.courses = courses

BindingOK(j) ==
    j.op \in {"create", "bind"} =>
        /\ j.at \in {"toBind", "binding", "bound"} => Codes(Stored) \subseteq Codes(j.courses)
        /\ j.at = "binding" => Codes(j.courses) \subseteq j.todo \cup BoundTo(j.of)
        /\ j.at = "bound" => Codes(j.courses) \subseteq BoundTo(j.of)

(* What is taken over is known or bound to the session.                      *)
TakingOK(j) ==
    j.op = "sync" /\ j.kind = "formal" =>
        /\ j.at = "looking" => j.held = courses
        /\ j.at = "syncing" => /\ Codes(Coded(j.courses)) \subseteq Codes(Coded(courses)) \cup BoundTo(Row(j).id)
                               /\ Coded(courses) # {} => Coded(j.courses) # {}

RenamingOK(j) ==
    j.op = "course" /\ j.at \in {"snapshots", "toRename", "renaming", "storing"} =>
        /\ j.courses # {} /\ Coded(j.courses) = j.courses
        /\ Codes(j.courses) \subseteq Codes(Stored)

BindOK(j) == CreationOK(j) /\ BindingOK(j) /\ TakingOK(j) /\ RenamingOK(j)
BindInv ==
    /\ boundFor \in Numbered /\ \A p \in Requests : Numbers(job[p])
    /\ there /\ Clear => BoundOK /\ \A p \in Requests : BindOK(job[p])

(* A request these say nothing of.                                           *)
Aside(j) ==
    /\ j.op \notin {"create", "bind"} /\ (j.op = "sync" => j.kind # "formal" \/ j.at = "logging")
    /\ j.op = "course" => j.at \notin {"snapshots", "toRename", "renaming", "storing"}

LEMMA AsideOK == ASSUME NEW j, Aside(j) PROVE BindOK(j) /\ BindOK(j)' /\ Numbers(j) /\ Numbers(j)'
BY DEF Aside, BindOK, CreationOK, BindingOK, TakingOK, RenamingOK, Numbers

LEMMA AsideIs == ASSUME NEW j, Shaped(j), "courses" \notin Touches(j) PROVE Aside(j)
<1>1. j.op # "create"
  BY TouchesIs DEF Things, Shaped
<1>2. j.op \notin {"bind", "course"}
  <2>1. j.op \in {"bind", "course"} => Touches(j) = {"courses"}
    BY DEF Touches
  <2>. QED BY <2>1
<1>3. j.op = "sync" => j.kind # "formal"
  <2>1. j.op = "sync" /\ j.kind = "formal" => Touches(j) = {"formal", "courses"}
    BY DEF Touches
  <2>. QED BY <2>1
<1>. QED BY <1>1, <1>2, <1>3 DEF Aside

LEMMA NoneAside == Aside(NoJob)
BY DEF Aside, NoJob

(* What is bound to a session stays bound.                                   *)
Grown ==
    /\ DOMAIN sessions \subseteq DOMAIN sessions'
    /\ \A s \in DOMAIN sessions : sessions[s].bound \subseteq sessions'[s].bound

LEMMA GrownTo == ASSUME Grown, NEW s \in Numbered PROVE s \in Numbered' /\ BoundTo(s) \subseteq BoundTo(s)'
BY DEF Grown, Numbered, BoundTo

LEMMA StoredSame == ASSUME UNCHANGED <<courses, stepCourses>> PROVE Stored' = Stored
BY DEF Stored, Coded

LEMMA BoundKept ==
    ASSUME BoundOK, Grown, boundFor \in Numbered, boundFor' = boundFor, rows'["formal"].id = rows["formal"].id,
           paperBind' = "success" => paperBind = "success", Codes(Stored') \subseteq Codes(Stored)
    PROVE  BoundOK'
<1>1. BoundTo(boundFor) \subseteq BoundTo(boundFor)'
  BY GrownTo DEF BoundTo
<1>. QED BY <1>1 DEF BoundOK, Codes

LEMMA OtherBind ==
    ASSUME NEW k, Shaped(k), RowsOf(k.rows), Numbers(k), BindOK(k), Grown, UNCHANGED <<courses, stepCourses, boundFor>>,
           rows'["formal"].id = rows["formal"].id
    PROVE  BindOK(k)'
<1>1. Stored' = Stored
  BY StoredSame
<1>2. CreationOK(k)'
  BY DEF BindOK, CreationOK, InWork, Displaced
<1>3. BindingOK(k)'
  <2>1. k.op \in {"create", "bind"} => BoundTo(k.of) \subseteq BoundTo(k.of)'
    BY GrownTo DEF Numbers
  <2>. QED BY <1>1, <2>1 DEF BindOK, BindingOK, Codes
<1>4. TakingOK(k)'
  <2>1. PICK s : s = Row(k).id
    OBVIOUS
  <2>2. s \in Numbered
    BY <2>1 DEF Row, RowsOf, IsOf, Numbered, Shaped
  <2>3. BoundTo(s) \subseteq BoundTo(s)' /\ Row(k)' = Row(k)
    BY <2>2, GrownTo DEF Row
  <2>4. BoundTo(Row(k).id)' = BoundTo(s)' /\ BoundTo(Row(k).id) = BoundTo(s)
    BY <2>1 DEF BoundTo, Row
  <2>. QED BY <2>3, <2>4 DEF BindOK, TakingOK, Codes, Coded
<1>5. RenamingOK(k)'
  BY <1>1 DEF BindOK, RenamingOK, Codes, Coded
<1>. QED BY <1>2, <1>3, <1>4, <1>5 DEF BindOK

LEMMA BindAt == ASSUME NEW q, NEW o, o = job'[q] PROVE (Numbers(o)' => Numbers(job[q])') /\ (BindOK(o)' => BindOK(job[q])')
BY DEF Numbers, Numbered, BindOK, CreationOK, BindingOK, TakingOK, RenamingOK, InWork, Displaced, BoundTo, Codes, Coded, Row, Stored

(* A step of one request: what it may change of the courses and of what they *)
(* are bound to, it works on.                                                *)
LEMMA BindStep ==
    ASSUME Inv, BindInv, NEW p \in Requests, NEW i, i = job[p], NEW j, Becomes(p, j),
           there' => there, crossed \subseteq crossed', Grown, boundFor' \in Numbered', Numbers(j)',
           there' /\ Clear' => BoundOK' /\ BindOK(j)',
           \/ "courses" \in Touches(i)
           \/ /\ UNCHANGED <<courses, stepCourses, boundFor>>
              /\ there' /\ Clear' => rows'["formal"].id = rows["formal"].id
    PROVE  BindInv'
<1>1. job'[p] = j /\ \A q \in Requests : q # p => job'[q] = job[q]
  BY DEF Inv, World, Becomes
<1>2. Clear' => Clear
  BY DEF Clear
<1>3. ASSUME NEW q \in Requests PROVE Numbers(job[q])'
  <2>1. CASE q = p
    BY <1>1, <2>1, BindAt
  <2>2. CASE q # p
    <3>1. PICK o : o = job[q] /\ o = job'[q]
      BY <1>1, <2>2
    <3>2. Numbers(o) /\ Numbered \subseteq Numbered'
      BY <3>1, GrownTo DEF BindInv
    <3>3. Numbers(o)'
      BY <3>2 DEF Numbers
    <3>. QED BY <3>1, <3>3, BindAt
  <2>. QED BY <2>1, <2>2
<1>4. ASSUME there', Clear', NEW q \in Requests PROVE BindOK(job[q])'
  <2>1. CASE q = p
    BY <1>1, <1>4, <2>1, BindAt
  <2>2. CASE q # p
    <3>1. PICK o : o = job[q] /\ o = job'[q] /\ Shaped(o) /\ JobOK(o)
      BY <1>1, <2>2, JobIs
    <3>2. CASE "courses" \in Touches(i)
      <4>1. "courses" \notin Touches(o)
        BY <1>2, <1>4, <2>2, <3>1, <3>2 DEF Inv, Sole, Clear
      <4>2. BindOK(o)'
        BY <3>1, <4>1, AsideIs, AsideOK
      <4>. QED BY <3>1, <4>2, BindAt
    <3>3. CASE "courses" \notin Touches(i)
      <4>1. Numbers(o) /\ BindOK(o)
        BY <1>2, <1>4, <3>1 DEF BindInv
      <4>2. BindOK(o)'
        BY <1>4, <3>1, <3>3, <4>1, OtherBind DEF JobOK
      <4>. QED BY <3>1, <4>2, BindAt
    <3>. QED BY <3>2, <3>3
  <2>. QED BY <2>1, <2>2
<1>. QED BY <1>3, <1>4 DEF BindInv

-----------------------------------------------------------------------------
(* Steps that leave alone what is bound and recorded.                        *)

LEMMA SameGrown == ASSUME UNCHANGED sessions PROVE Grown
BY DEF Grown

LEMMA PutGrown ==
    ASSUME World, NEW s, NEW f \in Fields, NEW v, Put(s, f, v),
           f = "bound" /\ s \in DOMAIN sessions => sessions[s].bound \subseteq v
    PROVE  Grown
<1>1. DOMAIN sessions' = DOMAIN sessions
  BY PutIs
<1>2. \A t \in DOMAIN sessions : sessions'[t] = IF t = s THEN [sessions[t] EXCEPT ![f] = v] ELSE sessions[t]
  BY DEF Put
<1>3. ASSUME NEW t \in DOMAIN sessions PROVE sessions[t].bound \subseteq sessions'[t].bound
  <2>1. PICK x : x = sessions[t] /\ IsSession(x)
    BY DEF World
  <2>2. PICK y : y = [x EXCEPT ![f] = v]
    OBVIOUS
  <2>3. y.bound = IF f = "bound" THEN v ELSE x.bound
    BY <2>1, <2>2 DEF IsSession, Fields
  <2>. QED BY <1>2, <2>1, <2>2, <2>3
<1>. QED BY <1>1, <1>3 DEF Grown

LEMMA CarriedGrown == ASSUME World, NEW p, job[p].kind \in Kinds, CarriedOut(p) PROVE Grown
<1>1. CASE UNCHANGED sessions
  BY <1>1, SameGrown
<1>2. CASE At(p, "posting")
  <2>1. Posted(job[p].kind)
    BY <1>2, PostingIs
  <2>. QED BY <2>1 DEF Posted, Grown
<1>3. CASE ~UNCHANGED sessions /\ ~At(p, "posting")
  <2>1. \/ \E c : Put(job[p].of, "bound", sessions[job[p].of].bound \cup {c})
        \/ \E f \in {"value", "entries", "rooms"} : \E v : Put(Target(p), f, v)
        \/ Put(FirstOf(job[p].todo), "there", FALSE)
    BY <1>3 DEF CarriedOut
  <2>2. ASSUME NEW s, NEW c, Put(s, "bound", sessions[s].bound \cup {c}) PROVE Grown
    <3>1. PICK f, v : f = "bound" /\ v = sessions[s].bound \cup {c} /\ Put(s, f, v)
      BY <2>2
    <3>. QED BY <3>1, PutGrown DEF Fields
  <2>3. ASSUME NEW s, NEW v, NEW f \in {"value", "entries", "rooms"}, Put(s, f, v) PROVE Grown
    BY <2>3, PutGrown DEF Fields
  <2>4. ASSUME NEW s, Put(s, "there", FALSE) PROVE Grown
    <3>1. PICK f, v : f = "there" /\ Put(s, f, v)
      BY <2>4
    <3>. QED BY <3>1, PutGrown DEF Fields
  <2>. QED BY <2>1, <2>2, <2>3, <2>4
<1>. QED BY <1>1, <1>2, <1>3

(* A request ends, or goes on with what does not concern courses.            *)
LEMMA AsideStep ==
    ASSUME Inv, BindInv, NEW p \in Requests, NEW j, Aside(j), Becomes(p, j), there' => there, crossed \subseteq crossed',
           Grown, UNCHANGED <<courses, boundFor>>,
           stepCourses' = stepCourses \/ (stepCourses' = {} /\ "courses" \in Touches(job[p])),
           there' /\ Clear' => rows'["formal"].id = rows["formal"].id,
           paperBind' = "success" => paperBind = "success"
    PROVE  BindInv'
<1>1. PICK i : i = job[p]
  OBVIOUS
<1>2. BindOK(j)' /\ Numbers(j)'
  BY AsideOK
<1>3. boundFor' \in Numbered'
  BY GrownTo DEF BindInv
<1>4. Codes(Stored') \subseteq Codes(Stored)
  <2>1. CASE stepCourses' = stepCourses
    BY <2>1, StoredSame
  <2>2. CASE stepCourses' = {}
    <3>1. Coded(courses)' = Coded(courses) /\ Coded(stepCourses)' = {}
      BY <2>2 DEF Coded
    <3>. QED BY <3>1 DEF Stored, Codes
  <2>. QED BY <2>1, <2>2
<1>5. there' /\ Clear' => BoundOK'
  <2>. SUFFICES ASSUME there', Clear' PROVE BoundOK'
    OBVIOUS
  <2>1. BoundOK /\ boundFor \in Numbered
    BY DEF BindInv, Clear
  <2>. QED BY <1>4, <2>1, BoundKept
<1>. QED BY <1>1, <1>2, <1>3, <1>5, BindStep

LEMMA QuietAside ==
    ASSUME Inv, BindInv, NEW p \in Requests, Quiet(p), job[p].op \in {"change", "import", "rooms", "open"},
           Grown, UNCHANGED <<courses, stepCourses, boundFor, paperBind>>
    PROVE  BindInv'
<1>1. PICK j : Becomes(p, j) /\ (j.op = job[p].op \/ j = NoJob) /\ UNCHANGED Apart
  BY DEF Quiet, Shifted
<1>2. Aside(j)
  BY <1>1, NoneAside DEF Aside
<1>. QED BY <1>1, <1>2, AsideStep DEF Apart

LEMMA OnCourses == ASSUME NEW i, Shaped(i), i.op \in {"create", "delete", "bind", "course"} PROVE "courses" \in Touches(i)
<1>1. i.op \in {"create", "delete"} => Touches(i) = Things
  BY TouchesIs DEF Shaped
<1>2. i.op \in {"bind", "course"} => Touches(i) = {"courses"}
  BY DEF Touches
<1>. QED BY <1>1, <1>2 DEF Things

LEMMA StepFailsBind ==
    ASSUME Inv, BindInv, NEW p \in Requests, StepFails(p), Grown, crossed \subseteq crossed', boundFor' = boundFor
    PROVE  BindInv'
<1>1. PICK i : i = job[p] /\ Shaped(i)
  BY JobIs
<1>2. Becomes(p, NoJob) /\ UNCHANGED <<there, rows, courses>>
  BY DEF StepFails, Ends
<1>3. stepCourses' = stepCourses \/ (stepCourses' = {} /\ "courses" \in Touches(i))
  <2>1. i.at \in Coursing => i.op = "create"
    BY <1>1, OpAt DEF Coursing
  <2>. QED BY <1>1, <2>1, OnCourses DEF StepFails
<1>4. paperBind' = "success" => paperBind = "success"
  BY DEF StepFails
<1>. QED BY <1>1, <1>2, <1>3, <1>4, NoneAside, AsideStep

LEMMA FailingBind ==
    ASSUME Inv, BindInv, NEW p \in Requests, NumbersRunOut(p) \/ BindRefused(p)
    PROVE  BindInv'
<1>1. StepFails(p) /\ UNCHANGED <<sessions, crossed, boundFor>>
  BY DEF NumbersRunOut, BindRefused, platform, ghosts
<1>. QED BY <1>1, StepFailsBind, SameGrown

LEMMA EndingBind ==
    ASSUME Inv, BindInv, NEW p \in Requests, Refuse(p) \/ Log(p) \/ SyncRefused(p) \/ TaskGone(p) \/ NotFound(p)
    PROVE  BindInv'
<1>1. Becomes(p, NoJob) /\ UNCHANGED <<sessions, there, crossed, rows, courses, stepCourses, boundFor, paperBind>>
  BY DEF Refuse, Log, SyncRefused, TaskGone, NotFound, Ends, platform, task, ghosts
<1>. QED BY <1>1, NoneAside, AsideStep, SameGrown

LEMMA QuietlyBind ==
    ASSUME Inv, BindInv, NEW p \in Requests,
           \/ ChangeLook(p) \/ ChangeRefused(p) \/ Detail(p) \/ ImportCount(p) \/ RoomsCount(p) \/ Visit(p) \/ ReadFails(p)
    PROVE  BindInv'
<1>1. Quiet(p)
  BY ChangeQuiet, ReadingQuiet, VisitQuiet, ReadFailsQuiet
<1>2. job[p].op \in {"change", "import", "rooms", "open"}
  <2>1. PICK i : i = job[p] /\ Shaped(i)
    BY JobIs
  <2>2. i.at \in {"putting", "detail", "reading", "counting", "visiting"} \/ (i.at = "looking" /\ i.op = "change")
    BY <2>1 DEF ChangeLook, ChangeRefused, Detail, ImportCount, RoomsCount, Visit, ReadFails, At, Doing
  <2>. QED BY <2>1, <2>2, OpAt
<1>3. UNCHANGED <<sessions, courses, stepCourses, boundFor, paperBind>>
  BY DEF ChangeLook, ChangeRefused, Detail, ImportCount, RoomsCount, Visit, ReadFails, Unsettled, platform, task, ghosts
<1>. QED BY <1>1, <1>2, <1>3, QuietAside, SameGrown

(* A row that was read is written with the session it was read with.         *)
LEMMA RewriteBind ==
    ASSUME Inv, BindInv, NEW p \in Requests, NEW i, i = job[p], i.op \in Rewrites, i.kind \in Touches(i),
           NEW j, Becomes(p, j), Aside(j), NEW r, r.id = Row(i).id, rows' = [rows EXCEPT ![i.kind] = r],
           UNCHANGED <<sessions, there, crossed, courses, stepCourses, boundFor, paperBind>>
    PROVE  BindInv'
<1>1. i.kind \in Kinds /\ JobOK(i)
  BY JobIs DEF Shaped
<1>2. rows'[i.kind] = r /\ \A k \in Kinds \ {i.kind} : rows'[k] = rows[k]
  BY <1>1 DEF Inv, World, AreRows
<1>3. i.kind \notin crossed => rows[i.kind].id = r.id
  BY <1>1 DEF JobOK, ReadOK, Row
<1>4. "formal" \in Kinds
  BY DEF Kinds
<1>5. Clear' => rows'["formal"].id = rows["formal"].id
  BY <1>2, <1>3, <1>4 DEF Clear
<1>. QED BY <1>5, SameGrown, AsideStep

LEMMA SaveBind == ASSUME Inv, BindInv, NEW p \in Requests, Save(p) PROVE BindInv'
<1>1. PICK i : i = job[p] /\ Shaped(i) /\ i.at = "saving" /\ i.op \in {"change", "import", "rooms"}
  <2>1. PICK i : i = job[p] /\ Shaped(i) /\ i.at = "saving"
    BY JobIs DEF Save, At
  <2>. QED BY <2>1, OpAt
<1>2. Saved(i).id = Row(i).id /\ rows' = [rows EXCEPT ![i.kind] = Saved(i)]
  BY <1>1, SavedIs DEF Save
<1>3. UNCHANGED <<sessions, there, crossed, courses, stepCourses, boundFor, paperBind>>
  BY DEF Save, platform, ghosts
<1>4. i.op \in Rewrites /\ i.kind \in Touches(i)
  BY <1>1, TouchesIs DEF Rewrites, Shaped
<1>5. PICK j : Becomes(p, j) /\ Aside(j)
  <2>1. CASE i.op # "change"
    BY <1>1, <2>1, NoneAside DEF Save, Ends
  <2>2. CASE i.op = "change"
    <3>1. PICK log, j : Becomes(p, j) /\ j = [i EXCEPT !.at = "logging", !.log = log]
      BY <1>1, <2>2 DEF Save
    <3>2. j.op = "change"
      BY <1>1, <2>2, <3>1 DEF Shaped, Formed
    <3>. QED BY <3>1, <3>2 DEF Aside
  <2>. QED BY <2>1, <2>2
<1>. QED BY <1>1, <1>2, <1>3, <1>4, <1>5, RewriteBind

LEMMA RefreshBind == ASSUME Inv, BindInv, NEW p \in Requests, Refresh(p) PROVE BindInv'
<1>1. PICK i : i = job[p] /\ Shaped(i) /\ i.at = "refreshing" /\ i.op = "open"
  <2>1. PICK i : i = job[p] /\ Shaped(i) /\ i.at = "refreshing"
    BY JobIs DEF Refresh, At
  <2>. QED BY <2>1, OpAt
<1>2. PICK r : r = [Row(i) EXCEPT !.entries = i.seen.entries, !.rooms = i.seen.rooms] /\ rows' = [rows EXCEPT ![i.kind] = r]
  BY <1>1 DEF Refresh
<1>3. r.id = Row(i).id
  BY <1>1, <1>2 DEF Shaped, AreRows, Row, IsRow
<1>4. UNCHANGED <<sessions, there, crossed, courses, stepCourses, boundFor, paperBind>>
  BY DEF Refresh, platform
<1>5. i.op \in Rewrites /\ i.kind \in Touches(i)
  BY <1>1, TouchesIs DEF Rewrites, Shaped
<1>6. PICK v : v = Visited(i)
  OBVIOUS
<1>7. v.op = "open" /\ Formed(v)
  BY <1>1, <1>6 DEF Visited, Shaped, Formed
<1>8. PICK rs, j : Becomes(p, j) /\ j = [v EXCEPT !.rows = rs]
  BY <1>1, <1>6 DEF Refresh
<1>9. Aside(j)
  BY <1>7, <1>8 DEF Formed, Aside
<1>. QED BY <1>1, <1>2, <1>3, <1>4, <1>5, <1>8, <1>9, RewriteBind

LEMMA CallFailsBind == ASSUME Inv, BindInv, NEW p \in Requests, CallFails(p) PROVE BindInv'
<1>1. PICK i : i = job[p] /\ Shaped(i)
  BY JobIs
<1>2. UNCHANGED <<crossed, boundFor>>
  BY DEF CallFails, Unsettled
<1>3. Grown
  BY <1>1, SameGrown, CarriedGrown DEF CallFails, platform, Inv, Shaped
<1>4. CASE StepFails(p)
  BY <1>2, <1>3, <1>4, StepFailsBind
<1>5. CASE UNCHANGED task /\ (Becomes(p, NoJob) \/ Goes(p, "refusing"))
  <2>1. PICK j : Becomes(p, j) /\ Aside(j)
    <3>1. CASE Becomes(p, NoJob)
      BY <3>1, NoneAside
    <3>2. CASE Goes(p, "refusing") /\ i.op \in {"change", "course"}
      <4>1. PICK j : Becomes(p, j) /\ j = [i EXCEPT !.at = "refusing"]
        BY <1>1, <3>2 DEF Goes
      <4>2. j.at = "refusing" /\ j.op \in {"change", "course"}
        BY <1>1, <3>2, <4>1 DEF Shaped, Formed
      <4>. QED BY <4>1, <4>2 DEF Aside
    <3>. QED BY <1>1, <1>5, <3>1, <3>2, OpAt DEF CallFails, Broken, At, Doing, StepFails, Ends
  <2>. QED BY <1>2, <1>3, <1>5, <2>1, AsideStep DEF task
<1>. QED BY <1>4, <1>5 DEF CallFails, Broken, Ends

-----------------------------------------------------------------------------
(* Creation and binding.                                                     *)

LEMMA BindsNow ==
    ASSUME BindInv, NEW p \in Requests, NEW i, i = job[p]
    PROVE  Numbers(i) /\ boundFor \in Numbered /\ (there /\ Clear => BoundOK /\ BindOK(i))
BY DEF BindInv

LEMMA MakingBind ==
    ASSUME Inv, BindInv, NEW p \in Requests, Shaped(job[p]), job[p].op \in {"create", "bind"},
           NEW j, Becomes(p, j), j.op \in {"create", "bind"}, Grown, UNCHANGED <<there, crossed, boundFor>>, Numbers(j)',
           there /\ Clear => BoundOK' /\ CreationOK(j)' /\ BindingOK(j)'
    PROVE  BindInv'
<1>1. PICK i : i = job[p] /\ "courses" \in Touches(i)
  BY OnCourses
<1>2. boundFor' \in Numbered'
  BY GrownTo DEF BindInv
<1>3. (TakingOK(j) /\ RenamingOK(j))' /\ Clear' = Clear
  BY DEF TakingOK, RenamingOK, Clear
<1>. QED BY <1>1, <1>2, <1>3, BindStep DEF BindOK

(* Nothing but the place of a creation changes.                              *)
LEMMA PlacesBind ==
    ASSUME Inv, BindInv, NEW p \in Requests, PinRead(p) \/ Mark(p) \/ Configure(p) \/ Made(p)
    PROVE  BindInv'
<1>1. PICK i : i = job[p] /\ Shaped(i) /\ i.op = "create"
  BY JobIs, OpAt DEF PinRead, Mark, Configure, Made, Write, At
<1>2. UNCHANGED <<sessions, there, rows, courses, stepCourses, crossed, boundFor, paperBind>>
  BY DEF PinRead, Mark, Configure, Made, platform, task, ghosts
<1>3. Numbers(i) /\ boundFor \in Numbered /\ (there /\ Clear => BoundOK /\ BindOK(i))
  BY <1>1, BindsNow
<1>4. there /\ Clear => BoundOK'
  BY <1>2, <1>3, StoredSame DEF BoundOK, BoundTo, Codes
<1>5. PICK j : /\ Becomes(p, j) /\ j.op = "create" /\ j.id \in {i.id, NoSession} /\ j.of \in {i.of, i.id}
               /\ j.at \in {"pinned", "marking", "posting", "recording", "known"}
               /\ Displaced(j) => Displaced(i)
               /\ j.at = "pinned" => j.held = courses
               /\ j.at = "recording" => InWork(i) /\ j.kind = i.kind /\ j.id = i.id
               /\ j.at = "known" => j.kind = "trial"
  <2>1. CASE PinRead(p)
    <3>1. PICK j : Becomes(p, j) /\ j = [i EXCEPT !.at = "pinned", !.held = courses]
      BY <1>1, <2>1 DEF PinRead
    <3>2. j.op = "create" /\ j.id = i.id /\ j.of = i.of /\ j.kind = i.kind /\ j.at = "pinned" /\ j.held = courses
      BY <1>1, <3>1 DEF Shaped, Formed
    <3>. QED BY <3>1, <3>2 DEF Displaced
  <2>2. CASE Mark(p)
    <3>1. PICK j : Becomes(p, j) /\ j = [i EXCEPT !.at = "posting"]
      BY <1>1, <2>2 DEF Mark, Goes
    <3>2. j.op = "create" /\ j.id = i.id /\ j.of = i.of /\ j.kind = i.kind /\ j.at = "posting"
      BY <1>1, <3>1 DEF Shaped, Formed
    <3>. QED BY <3>1, <3>2 DEF Displaced
  <2>3. CASE Configure(p)
    <3>1. PICK j : Becomes(p, j) /\ j = [i EXCEPT !.at = "recording"] /\ i.at = "configuring"
      BY <1>1, <2>3 DEF Configure, Goes, At
    <3>2. j.op = "create" /\ j.id = i.id /\ j.of = i.of /\ j.kind = i.kind /\ j.at = "recording"
      BY <1>1, <3>1 DEF Shaped, Formed
    <3>. QED BY <3>1, <3>2 DEF Displaced, InWork
  <2>4. CASE Made(p)
    <3>1. PICK j : /\ Becomes(p, j) /\ i.at = "made"
                   /\ j = IF i.kind = "formal"
                          THEN [i EXCEPT !.at = "marking", !.kind = "trial", !.of = i.id, !.id = NoSession]
                          ELSE [i EXCEPT !.at = "known", !.id = NoSession]
      BY <1>1, <2>4 DEF Made, Write, At
    <3>2. /\ j.op = "create" /\ j.id = NoSession /\ j.of \in {i.of, i.id} /\ j.kind = "trial"
          /\ j.at \in {"marking", "known"}
      BY <1>1, <3>1 DEF Shaped, Formed, Kinds
    <3>. QED BY <3>1, <3>2 DEF Displaced
  <2>. QED BY <2>1, <2>2, <2>3, <2>4
<1>6. Numbers(j)'
  BY <1>1, <1>2, <1>3, <1>5 DEF Numbers, Numbered
<1>7. there /\ Clear => CreationOK(j)' /\ BindingOK(j)'
  <2>. SUFFICES ASSUME there, Clear PROVE CreationOK(j)' /\ BindingOK(j)'
    OBVIOUS
  <2>1. CreationOK(j)'
    BY <1>1, <1>2, <1>3, <1>5 DEF BindOK, CreationOK, InWork, Displaced, Coursing
  <2>2. BindingOK(j)'
    BY <1>5 DEF BindingOK
  <2>. QED BY <2>1, <2>2
<1>. QED BY <1>1, <1>2, <1>4, <1>5, <1>6, <1>7, MakingBind, SameGrown

LEMMA PinWriteBind == ASSUME Inv, BindInv, NEW p \in Requests, PinWrite(p) PROVE BindInv'
<1>1. PICK i : i = job[p] /\ Shaped(i) /\ i.at = "pinned" /\ i.op = "create"
  <2>1. PICK i : i = job[p] /\ Shaped(i) /\ i.at = "pinned"
    BY JobIs DEF PinWrite, Write, At
  <2>. QED BY <2>1, OpAt
<1>2. UNCHANGED <<sessions, there, rows, stepCourses, crossed, boundFor, paperBind>> /\ courses' = i.held
  BY <1>1 DEF PinWrite, platform, ghosts
<1>3. Numbers(i) /\ boundFor \in Numbered /\ (there /\ Clear => BoundOK /\ BindOK(i))
  BY <1>1, BindsNow
<1>4. there /\ Clear => BoundOK'
  <2>. SUFFICES ASSUME there, Clear PROVE BoundOK'
    OBVIOUS
  <2>1. courses' = courses
    BY <1>1, <1>2, <1>3 DEF BindOK, CreationOK
  <2>. QED BY <1>2, <1>3, <2>1, StoredSame DEF BoundOK, BoundTo, Codes
<1>5. PICK j : Becomes(p, j) /\ j = [i EXCEPT !.at = "marking", !.held = {}]
  BY <1>1 DEF PinWrite
<1>6. j.op = "create" /\ j.id = i.id /\ j.of = i.of /\ j.kind = i.kind /\ j.at = "marking"
  BY <1>1, <1>5 DEF Shaped, Formed
<1>7. Numbers(j)'
  BY <1>1, <1>2, <1>3, <1>6 DEF Numbers, Numbered
<1>8. there /\ Clear => CreationOK(j)' /\ BindingOK(j)'
  BY <1>1, <1>2, <1>3, <1>6 DEF BindOK, CreationOK, BindingOK, InWork, Displaced, Coursing
<1>. QED BY <1>1, <1>2, <1>4, <1>5, <1>6, <1>7, <1>8, MakingBind, SameGrown

LEMMA RecordBind == ASSUME Inv, BindInv, NEW p \in Requests, Record(p) PROVE BindInv'
<1>1. PICK i : i = job[p] /\ Shaped(i) /\ i.at = "recording" /\ i.op = "create" /\ InWork(i)
  <2>1. PICK i : i = job[p] /\ Shaped(i) /\ i.at = "recording"
    BY JobIs DEF Record, At
  <2>. QED BY <2>1, OpAt DEF InWork
<1>2. UNCHANGED <<sessions, there, courses, stepCourses, crossed, boundFor, paperBind>>
  BY DEF Record, platform, ghosts
<1>3. Numbers(i) /\ boundFor \in Numbered /\ (there /\ Clear => BoundOK /\ BindOK(i))
  BY <1>1, BindsNow
<1>4. PICK r : r = [NoRow EXCEPT !.id = i.id] /\ rows' = [rows EXCEPT ![i.kind] = r]
  BY <1>1 DEF Record, RowOf
<1>5. r.id = i.id
  BY <1>4 DEF NoRow
<1>6. rows'["formal"].id = IF i.kind = "formal" THEN i.id ELSE rows["formal"].id
  BY <1>1, <1>4, <1>5 DEF Inv, World, AreRows, Kinds
<1>7. there /\ Clear => rows'["formal"].id # boundFor
  BY <1>1, <1>3, <1>6 DEF BindOK, CreationOK, Displaced, Shaped, Kinds
<1>8. there /\ Clear => BoundOK'
  BY <1>2, <1>7 DEF BoundOK
<1>9. PICK j : Becomes(p, j) /\ j = [i EXCEPT !.at = "made"]
  BY <1>1 DEF Record, Goes
<1>10. j.op = "create" /\ j.id = i.id /\ j.of = i.of /\ j.kind = i.kind /\ j.at = "made"
  BY <1>1, <1>9 DEF Shaped, Formed
<1>11. Numbers(j)'
  BY <1>1, <1>2, <1>3, <1>10 DEF Numbers, Numbered
<1>12. there /\ Clear => CreationOK(j)' /\ BindingOK(j)'
  BY <1>2, <1>7, <1>10 DEF CreationOK, BindingOK, InWork, Coursing
<1>. QED BY <1>1, <1>2, <1>8, <1>9, <1>10, <1>11, <1>12, MakingBind, SameGrown

(* From the step of the courses on, a creation has made its formal session.  *)
LEMMA CoursingBind ==
    ASSUME Inv, BindInv, NEW p \in Requests, NEW i, i = job[p], Shaped(i), i.op = "create", i.at \in Coursing,
           NEW j, Becomes(p, j), j.op = "create", j.at \in Coursing,
           j.kind = i.kind, j.id = i.id, j.of = i.of,
           UNCHANGED <<sessions, there, rows, crossed, boundFor>>, j.at = "created" => j.courses = courses'
    PROVE  BindInv'
<1>1. Numbers(i) /\ boundFor \in Numbered /\ (there /\ Clear => BoundOK /\ BindOK(i))
  BY BindsNow
<1>2. there /\ Clear => i.kind = "trial" /\ rows["formal"].id # boundFor
  BY <1>1 DEF BindOK, CreationOK, Displaced
<1>3. there /\ Clear => BoundOK'
  BY <1>2 DEF BoundOK
<1>4. Numbers(j)'
  BY <1>1 DEF Numbers, Numbered
<1>5. there /\ Clear => CreationOK(j)' /\ BindingOK(j)'
  BY <1>2 DEF CreationOK, BindingOK, InWork, Displaced, Coursing
<1>. QED BY <1>3, <1>4, <1>5, MakingBind, SameGrown

LEMMA KnownBind == ASSUME Inv, BindInv, NEW p \in Requests, Known(p) PROVE BindInv'
<1>1. PICK i : i = job[p] /\ Shaped(i) /\ i.at = "known" /\ i.op = "create"
  BY JobIs, OpAt DEF Known, Write, At
<1>2. UNCHANGED <<sessions, there, rows, crossed, boundFor>>
  BY DEF Known, platform, ghosts
<1>3. PICK h, j : Becomes(p, j) /\ j = [i EXCEPT !.at = "listing", !.held = h]
  BY <1>1 DEF Known
<1>4. j.op = "create" /\ j.id = i.id /\ j.of = i.of /\ j.kind = i.kind /\ j.at = "listing"
  BY <1>1, <1>3 DEF Shaped, Formed
<1>. QED BY <1>1, <1>2, <1>3, <1>4, CoursingBind DEF Coursing

LEMMA PlannedBind ==
    ASSUME Inv, BindInv, NEW p \in Requests, NEW listed, Planned(p, listed), job[p].at = "listing",
           UNCHANGED <<sessions, crossed, boundFor>>
    PROVE  BindInv'
<1>1. PICK i : i = job[p] /\ Shaped(i) /\ i.at = "listing" /\ i.op = "create"
  BY JobIs, OpAt
<1>2. CASE StepFails(p)
  BY <1>2, StepFailsBind, SameGrown
<1>3. CASE ~StepFails(p)
  <2>1. \E at \in {"persisting", "creating"} : \E cs, todo :
          Becomes(p, [i EXCEPT !.at = at, !.held = {}, !.todo = todo, !.courses = cs])
    BY <1>1, <1>3 DEF Planned
  <2>2. PICK at, cs, todo, j :
          at \in {"persisting", "creating"} /\ Becomes(p, j) /\ j = [i EXCEPT !.at = at, !.held = {}, !.todo = todo, !.courses = cs]
    BY <2>1
  <2>3. j.op = "create" /\ j.id = i.id /\ j.of = i.of /\ j.kind = i.kind /\ j.at = at
    BY <1>1, <2>2 DEF Shaped, Formed
  <2>4. UNCHANGED <<there, rows>>
    BY <1>3 DEF Planned, task
  <2>. QED BY <1>1, <2>2, <2>3, <2>4, CoursingBind DEF Coursing
<1>. QED BY <1>2, <1>3

LEMMA ListBind == ASSUME Inv, BindInv, NEW p \in Requests, List(p) \/ ListFails(p) PROVE BindInv'
BY PlannedBind DEF List, ListFails, At, platform, ghosts

LEMMA PersistBind == ASSUME Inv, BindInv, NEW p \in Requests, Persist(p) PROVE BindInv'
<1>1. PICK i : i = job[p] /\ Shaped(i) /\ i.at = "persisting" /\ i.op = "create"
  BY JobIs, OpAt DEF Persist, Write, At
<1>2. UNCHANGED <<sessions, there, rows, crossed, boundFor>> /\ courses' = i.courses
  BY <1>1 DEF Persist, platform, ghosts
<1>3. PICK j : Becomes(p, j) /\ j = [i EXCEPT !.at = "created"]
  BY <1>1 DEF Persist, Goes
<1>4. j.op = "create" /\ j.id = i.id /\ j.of = i.of /\ j.kind = i.kind /\ j.at = "created" /\ j.courses = i.courses
  BY <1>1, <1>3 DEF Shaped, Formed
<1>. QED BY <1>1, <1>2, <1>3, <1>4, CoursingBind DEF Coursing

LEMMA CoursesDoneBind == ASSUME Inv, BindInv, NEW p \in Requests, CoursesDone(p) PROVE BindInv'
<1>1. PICK i : i = job[p] /\ Shaped(i) /\ i.at = "created" /\ i.op = "create"
  BY JobIs, OpAt DEF CoursesDone, Write, At
<1>2. UNCHANGED <<sessions, there, rows, courses, crossed, boundFor>> /\ stepCourses' = i.courses
  BY <1>1 DEF CoursesDone, platform, ghosts
<1>3. PICK j : Becomes(p, j) /\ j = [i EXCEPT !.at = "toBind"]
  BY <1>1 DEF CoursesDone, Goes
<1>4. j.op = "create" /\ j.id = i.id /\ j.of = i.of /\ j.kind = i.kind /\ j.at = "toBind" /\ j.courses = i.courses
  BY <1>1, <1>3 DEF Shaped, Formed
<1>5. Numbers(i) /\ boundFor \in Numbered /\ (there /\ Clear => BoundOK /\ BindOK(i))
  BY <1>1, BindsNow
<1>6. there /\ Clear => rows["formal"].id # boundFor /\ i.courses = courses
  BY <1>1, <1>5 DEF BindOK, CreationOK, Displaced, Coursing
<1>7. there /\ Clear => Codes(Stored') \subseteq Codes(j.courses)
  BY <1>2, <1>4, <1>6 DEF Stored, Coded, Codes
<1>8. there /\ Clear => BoundOK'
  BY <1>2, <1>6 DEF BoundOK
<1>9. Numbers(j)'
  BY <1>1, <1>2, <1>4, <1>5 DEF Numbers, Numbered
<1>10. there /\ Clear => CreationOK(j)' /\ BindingOK(j)'
  BY <1>1, <1>2, <1>4, <1>5, <1>6, <1>7 DEF BindOK, CreationOK, BindingOK, InWork, Coursing
<1>. QED BY <1>1, <1>2, <1>3, <1>4, <1>8, <1>9, <1>10, MakingBind, SameGrown

LEMMA BindMarkBind == ASSUME Inv, BindInv, NEW p \in Requests, BindMark(p) PROVE BindInv'
<1>1. PICK i : i = job[p] /\ Shaped(i) /\ i.at = "toBind" /\ i.op \in {"create", "bind"}
  BY JobIs, OpAt DEF BindMark, Write, At
<1>2. UNCHANGED <<sessions, there, rows, courses, stepCourses, crossed, boundFor>> /\ paperBind' = "running"
  BY DEF BindMark, platform, ghosts
<1>3. PICK at, j : /\ Becomes(p, j) /\ j = [i EXCEPT !.at = at, !.todo = Codes(i.courses)]
                   /\ at = IF Codes(i.courses) = {} THEN "bound" ELSE "binding"
  BY <1>1 DEF BindMark, ToBind, Codes
<1>4. /\ j.op = i.op /\ j.id = i.id /\ j.of = i.of /\ j.kind = i.kind /\ j.at = at /\ j.courses = i.courses
      /\ j.todo = Codes(i.courses)
  BY <1>1, <1>3 DEF Shaped, Formed
<1>5. Numbers(i) /\ boundFor \in Numbered /\ (there /\ Clear => BoundOK /\ BindOK(i))
  BY <1>1, BindsNow
<1>6. Numbers(j)' /\ BoundOK'
  BY <1>1, <1>2, <1>4, <1>5 DEF Numbers, Numbered, BoundOK
<1>7. Stored' = Stored
  BY <1>2, StoredSame
<1>8. there /\ Clear => BindingOK(j)'
  BY <1>1, <1>3, <1>4, <1>5, <1>7 DEF BindOK, BindingOK
<1>9. there /\ Clear => CreationOK(j)'
  BY <1>1, <1>2, <1>3, <1>4, <1>5 DEF BindOK, CreationOK, InWork, Displaced
<1>. QED BY <1>1, <1>2, <1>3, <1>4, <1>6, <1>8, <1>9, MakingBind, SameGrown

LEMMA BindDoneBind == ASSUME Inv, BindInv, NEW p \in Requests, BindDone(p) PROVE BindInv'
<1>1. PICK i : i = job[p] /\ Shaped(i) /\ i.at = "bound" /\ i.op \in {"create", "bind"}
  BY JobIs, OpAt DEF BindDone, Write, At
<1>2. /\ UNCHANGED <<sessions, there, rows, courses, stepCourses, crossed>> /\ boundFor' = i.of
      /\ Becomes(p, NoJob)
  BY <1>1 DEF BindDone, Ends, platform
<1>3. Numbers(i) /\ boundFor \in Numbered /\ (there /\ Clear => BoundOK /\ BindOK(i))
  BY <1>1, BindsNow
<1>4. boundFor' \in Numbered'
  BY <1>1, <1>2, <1>3 DEF Numbers, Numbered
<1>5. Stored' = Stored /\ Clear' = Clear
  BY <1>2, StoredSame DEF Clear
<1>6. there /\ Clear => BoundOK'
  BY <1>1, <1>2, <1>3, <1>5 DEF BindOK, BindingOK, BoundOK, BoundTo
<1>7. "courses" \in Touches(i) /\ BindOK(NoJob)' /\ Numbers(NoJob)'
  BY <1>1, OnCourses, NoneAside, AsideOK
<1>. QED BY <1>1, <1>2, <1>4, <1>5, <1>6, <1>7, SameGrown, BindStep

-----------------------------------------------------------------------------
(* Calls of the platform.                                                    *)

LEMMA PostingBind == ASSUME Inv, BindInv, NEW p \in Requests, Call(p), At(p, "posting") PROVE BindInv'
<1>1. PICK i : i = job[p] /\ Shaped(i) /\ i.at = "posting" /\ i.op = "create"
  BY JobIs, OpAt DEF At
<1>2. Posted(i.kind)
  BY <1>1, PostingIs DEF Inv, Call, Shaped
<1>3. UNCHANGED <<there, rows, courses, stepCourses, paperBind, crossed, boundFor>>
  BY DEF Call, task
<1>4. PICK n \in Nat : n = Len(sessions) /\ DOMAIN sessions = 1..n
  BY DEF Inv, World, Listed
<1>5. Numbers(i) /\ boundFor \in Numbered /\ (there /\ Clear => BoundOK /\ BindOK(i))
  BY <1>1, BindsNow
<1>6. PICK j : Becomes(p, j) /\ j = [i EXCEPT !.at = "configuring", !.id = n + 1]
  BY <1>1, <1>4 DEF Call, Onwards
<1>7. j.op = "create" /\ j.id = n + 1 /\ j.of = i.of /\ j.kind = i.kind /\ j.at = "configuring"
  BY <1>1, <1>6 DEF Shaped, Formed
<1>8. Grown
  BY <1>2 DEF Posted, Grown
<1>9. Numbered \subseteq Numbered' /\ j.id \in Numbered'
  BY <1>2, <1>4, <1>7 DEF Numbered, Posted
<1>10. Numbers(j)'
  BY <1>1, <1>5, <1>7, <1>9 DEF Numbers
<1>11. boundFor # n + 1
  BY <1>4, <1>5 DEF Numbered, NoSession
<1>12. Codes(Stored') \subseteq Codes(Stored)
  BY <1>3, StoredSame
<1>13. there /\ Clear => BoundOK'
  BY <1>3, <1>5, <1>8, <1>12, BoundKept
<1>14. there /\ Clear => CreationOK(j)' /\ BindingOK(j)'
  BY <1>1, <1>3, <1>5, <1>7, <1>11 DEF BindOK, CreationOK, BindingOK, Displaced, Coursing
<1>. QED BY <1>1, <1>3, <1>6, <1>7, <1>8, <1>10, <1>13, <1>14, MakingBind

LEMMA CreatingBind == ASSUME Inv, BindInv, NEW p \in Requests, Call(p), At(p, "creating") PROVE BindInv'
<1>1. PICK i : i = job[p] /\ Shaped(i) /\ i.at = "creating" /\ i.op = "create"
  BY JobIs, OpAt DEF At
<1>2. UNCHANGED <<sessions, there, rows, crossed, boundFor>>
  BY <1>1 DEF Call, CarriedOut, At, task
<1>3. PICK item, cs, k, j : /\ Becomes(p, j) /\ j = [k EXCEPT !.courses = cs] /\ k = Done(i, item, "persisting")
  BY <1>1 DEF Call, Onwards
<1>4. PICK rest, at : k = [i EXCEPT !.todo = rest, !.at = at] /\ at \in {"creating", "persisting"}
  BY <1>1, <1>3 DEF Done
<1>5. Formed(k) /\ k.op = "create" /\ k.id = i.id /\ k.of = i.of /\ k.kind = i.kind /\ k.at = at
  BY <1>1, <1>4 DEF Shaped, Formed
<1>6. j.op = "create" /\ j.id = i.id /\ j.of = i.of /\ j.kind = i.kind /\ j.at = at
  BY <1>3, <1>5 DEF Formed
<1>7. Becomes(p, j) /\ i.at \in Coursing /\ j.at \in Coursing /\ j.at # "created"
  BY <1>1, <1>3, <1>4, <1>6 DEF Coursing
<1>. QED BY <1>1, <1>2, <1>6, <1>7, CoursingBind

LEMMA BindingBind == ASSUME Inv, BindInv, NEW p \in Requests, Call(p), At(p, "binding") PROVE BindInv'
<1>1. PICK i : i = job[p] /\ Shaped(i) /\ i.at = "binding" /\ i.op \in {"create", "bind"}
  BY JobIs, OpAt DEF At
<1>2. PICK s, c : /\ s = i.of /\ c = Earliest(i.todo) /\ s \in DOMAIN sessions
                  /\ Put(s, "bound", sessions[s].bound \cup {c})
  BY <1>1 DEF Call, Reached, SessionThere, CarriedOut, At, OnSession
<1>3. UNCHANGED <<there, rows, courses, stepCourses, paperBind, crossed, boundFor>>
  BY DEF Call, task
<1>4. PICK f, v : f = "bound" /\ v = sessions[s].bound \cup {c} /\ Put(s, f, v)
  BY <1>2
<1>5. Grown
  BY <1>4, PutGrown DEF Inv, Fields
<1>6. sessions'[s].bound = v
  <2>1. PICK x : x = sessions[s] /\ IsSession(x)
    BY <1>2 DEF Inv, World
  <2>2. sessions'[s] = [x EXCEPT !.bound = v]
    BY <1>2, <1>4, <2>1 DEF Put
  <2>. QED BY <2>1, <2>2 DEF IsSession
<1>7. s # NoSession
  BY <1>2 DEF Inv, World, Listed, NoSession
<1>8. BoundTo(s)' = BoundTo(s) \cup {c}
  BY <1>4, <1>6, <1>7 DEF BoundTo
<1>9. PICK j : Becomes(p, j) /\ j = Done(i, c, "bound")
  BY <1>1, <1>2 DEF Call, Onwards
<1>10. PICK rest, at : /\ j = [i EXCEPT !.todo = rest, !.at = at] /\ rest = i.todo \ {c}
                       /\ at = IF i.todo = {c} THEN "bound" ELSE "binding"
  BY <1>1, <1>9 DEF Done
<1>11. /\ j.op = i.op /\ j.id = i.id /\ j.of = s /\ j.kind = i.kind /\ j.at = at /\ j.todo = rest
       /\ j.courses = i.courses
  BY <1>1, <1>2, <1>10 DEF Shaped, Formed
<1>12. Numbers(i) /\ boundFor \in Numbered /\ (there /\ Clear => BoundOK /\ BindOK(i))
  BY <1>1, BindsNow
<1>13. Numbers(j)'
  <2>1. i.id \in Numbered' /\ s \in Numbered'
    BY <1>1, <1>2, <1>5, <1>12, GrownTo DEF Numbers
  <2>. QED BY <1>11, <2>1 DEF Numbers
<1>14. Stored' = Stored
  BY <1>3, StoredSame
<1>15. there /\ Clear => BoundOK'
  BY <1>3, <1>5, <1>12, <1>14, BoundKept
<1>16. there /\ Clear => CreationOK(j)'
  BY <1>1, <1>3, <1>10, <1>11, <1>12 DEF BindOK, CreationOK, InWork, Displaced, Coursing
<1>17. there /\ Clear => BindingOK(j)'
  <2>. SUFFICES ASSUME there, Clear PROVE BindingOK(j)'
    OBVIOUS
  <2>1. Codes(i.courses) \subseteq i.todo \cup BoundTo(s) /\ Codes(Stored) \subseteq Codes(i.courses)
    BY <1>1, <1>2, <1>12 DEF BindOK, BindingOK
  <2>2. Codes(j.courses) \subseteq rest \cup BoundTo(s)' /\ Codes(Stored)' \subseteq Codes(j.courses)
    BY <1>8, <1>10, <1>11, <1>14, <2>1
  <2>3. at = "bound" => rest = {}
    BY <1>10
  <2>. QED BY <1>10, <1>11, <2>2, <2>3 DEF BindingOK, BoundTo
<1>. QED BY <1>1, <1>3, <1>5, <1>9, <1>11, <1>13, <1>15, <1>16, <1>17, MakingBind

(* Courses that are to be renamed are those that are stored.                 *)
LEMMA RenamingBind ==
    ASSUME Inv, BindInv, NEW p \in Requests, NEW i, i = job[p], Shaped(i), i.op = "course",
           i.at \in {"snapshots", "toRename", "renaming"},
           NEW j, Becomes(p, j), j.op = "course", j.courses = i.courses, j.at \in {"toRename", "renaming", "storing"},
           UNCHANGED <<sessions, there, rows, courses, stepCourses, paperBind, crossed, boundFor>>
    PROVE  BindInv'
<1>1. Numbers(i) /\ boundFor \in Numbered /\ (there /\ Clear => BoundOK /\ BindOK(i))
  BY BindsNow
<1>2. "courses" \in Touches(i)
  BY OnCourses
<1>3. Stored' = Stored /\ Clear' = Clear /\ Grown
  BY StoredSame, SameGrown DEF Clear
<1>4. Numbers(j)' /\ boundFor' \in Numbered'
  BY <1>1 DEF Numbers, Numbered
<1>5. there /\ Clear => BoundOK'
  BY <1>1, <1>3, BoundKept
<1>6. there /\ Clear => BindOK(j)'
  BY <1>1, <1>3 DEF BindOK, CreationOK, BindingOK, TakingOK, RenamingOK
<1>. QED BY <1>2, <1>3, <1>4, <1>5, <1>6, BindStep

LEMMA RenamingCallBind == ASSUME Inv, BindInv, NEW p \in Requests, Call(p), At(p, "renaming") PROVE BindInv'
<1>1. PICK i : i = job[p] /\ Shaped(i) /\ i.at = "renaming" /\ i.op = "course"
  BY JobIs, OpAt DEF At
<1>2. UNCHANGED <<sessions, there, rows, courses, stepCourses, paperBind, crossed, boundFor>>
  BY <1>1 DEF Call, CarriedOut, At, task
<1>3. PICK item, j : Becomes(p, j) /\ j = Done(i, item, "storing")
  BY <1>1 DEF Call, Onwards
<1>4. PICK rest, at : j = [i EXCEPT !.todo = rest, !.at = at] /\ at \in {"renaming", "storing"}
  BY <1>1, <1>3 DEF Done
<1>5. j.op = "course" /\ j.courses = i.courses /\ j.at = at
  BY <1>1, <1>4 DEF Shaped, Formed
<1>. QED BY <1>1, <1>2, <1>3, <1>4, <1>5, RenamingBind

LEMMA AsideCallBind ==
    ASSUME Inv, BindInv, NEW p \in Requests, Call(p), job[p].at \in OnSession \cup {"deleting"}
    PROVE  BindInv'
<1>1. PICK i : i = job[p] /\ Shaped(i) /\ i.at \in OnSession \cup {"deleting"}
  BY JobIs
<1>2. Grown
  BY <1>1, CarriedGrown DEF Inv, Call, Shaped
<1>3. UNCHANGED <<there, rows, courses, stepCourses, paperBind, crossed, boundFor>>
  BY DEF Call, task
<1>4. PICK j : Becomes(p, j) /\ Aside(j)
  <2>1. CASE i.at = "deleting"
    <3>1. i.op = "delete"
      BY <1>1, <2>1, OpAt
    <3>2. PICK item, j : Becomes(p, j) /\ j = Done(i, item, "dropping")
      BY <1>1, <2>1 DEF Call, Onwards
    <3>3. j.op = "delete"
      BY <1>1, <3>1, <3>2 DEF Shaped, Formed, Done
    <3>. QED BY <3>2, <3>3 DEF Aside
  <2>2. CASE i.at \in OnSession
    <3>1. PICK j : Becomes(p, j) /\ j = Onwards(p)
      BY DEF Call
    <3>2. j.op = i.op
      BY <1>1, <2>2, <3>1, OnwardsIs DEF Calling, OnSession, Alike
    <3>3. i.op \in {"change", "import", "rooms"}
      BY <1>1, <2>2, OpAt DEF OnSession, Shaped, Steps
    <3>. QED BY <3>1, <3>2, <3>3 DEF Aside
  <2>. QED BY <1>1, <2>1, <2>2
<1>. QED BY <1>2, <1>3, <1>4, AsideStep

LEMMA AnyCallBind == ASSUME Inv, BindInv, NEW p \in Requests, Call(p) PROVE BindInv'
BY PostingBind, CreatingBind, BindingBind, RenamingCallBind, AsideCallBind DEF Call, Calling, At

-----------------------------------------------------------------------------
(* Synchronising and renaming.                                               *)

(* What is taken over is what was recorded, or bound to the session.         *)
LEMMA MergedIs ==
    ASSUME NEW cs, NEW found
    PROVE  /\ Codes(Coded(Merged(cs, found))) \subseteq Codes(Coded(cs)) \cup Codes(found)
           /\ Coded(cs) # {} => Coded(Merged(cs, found)) # {}
<1>1. Merged(cs, found) \subseteq cs \cup found
  BY DEF Merged
<1>2. Codes(Coded(Merged(cs, found))) \subseteq Codes(Coded(cs)) \cup Codes(found)
  BY <1>1 DEF Codes, Coded
<1>3. ASSUME NEW c \in Coded(cs) PROVE Coded(Merged(cs, found)) # {}
  <2>1. c \in cs /\ c.code # NoCode
    BY <1>3 DEF Coded
  <2>2. CASE \E f \in found : SameCourse(c, f)
    <3>1. PICK f \in found : c.code = f.code
      BY <2>1, <2>2 DEF SameCourse
    <3>2. f \in Coded(Merged(cs, found))
      BY <2>1, <3>1 DEF Coded, Merged
    <3>. QED BY <3>2
  <2>3. CASE ~\E f \in found : SameCourse(c, f)
    <3>1. c \in Coded(Merged(cs, found))
      BY <2>1, <2>3 DEF Coded, Merged
    <3>. QED BY <3>1
  <2>. QED BY <2>2, <2>3
<1>. QED BY <1>2, <1>3

LEMMA ComparedBind ==
    ASSUME Inv, BindInv, NEW p \in Requests, NEW found, Compared(p, found),
           Target(p) \in DOMAIN sessions => Codes(found) \subseteq sessions[Target(p)].bound
    PROVE  BindInv'
<1>1. PICK i : i = job[p] /\ Shaped(i) /\ i.at = "looking" /\ i.op = "sync"
  BY JobIs DEF Compared, At, Doing
<1>2. UNCHANGED <<sessions, there, rows, courses, stepCourses, paperBind, crossed, boundFor>>
  BY DEF Compared, platform, task
<1>3. Target(p) = Row(i).id /\ Row(i).id \in DOMAIN sessions
  BY <1>1 DEF Compared, SessionThere, Target
<1>4. CASE Becomes(p, NoJob)
  BY <1>2, <1>4, NoneAside, AsideStep, SameGrown
<1>5. CASE ~Becomes(p, NoJob)
  <2>1. PICK v, w, j : /\ Becomes(p, j) /\ w = [i EXCEPT !.at = "syncing", !.seen.value = v]
                       /\ j = [w EXCEPT !.held = {}, !.courses = Merged(i.held, found)]
    <3>1. PICK v, w : w = [i EXCEPT !.at = "syncing", !.seen.value = v] /\ v = sessions[Target(p)].value
      OBVIOUS
    <3>2. Becomes(p, [w EXCEPT !.held = {}, !.courses = Merged(i.held, found)])
      BY <1>1, <1>5, <3>1 DEF Compared, Ends
    <3>. QED BY <3>1, <3>2
  <2>2. Formed(w) /\ w.op = "sync" /\ w.kind = i.kind /\ w.rows = i.rows /\ w.at = "syncing"
    BY <1>1, <2>1 DEF Shaped, Formed
  <2>3. /\ j.op = "sync" /\ j.kind = i.kind /\ j.rows = i.rows /\ j.at = "syncing"
        /\ j.courses = Merged(i.held, found)
    BY <2>1, <2>2 DEF Formed
  <2>4. CASE i.kind # "formal"
    BY <1>2, <2>1, <2>3, <2>4, AsideStep, SameGrown DEF Aside
  <2>5. CASE i.kind = "formal"
    <3>1. Numbers(i) /\ boundFor \in Numbered /\ (there /\ Clear => BoundOK /\ BindOK(i))
      BY <1>1, BindsNow
    <3>2. "courses" \in Touches(i)
      BY <1>1, <2>5 DEF Touches
    <3>3. Stored' = Stored /\ Clear' = Clear /\ Grown
      BY <1>2, StoredSame, SameGrown DEF Clear
    <3>4. Numbers(j)' /\ boundFor' \in Numbered'
      BY <1>2, <2>3, <3>1 DEF Numbers, Numbered
    <3>5. there /\ Clear => BoundOK'
      BY <1>2, <3>1, <3>3, BoundKept
    <3>6. BoundTo(Row(i).id)' = sessions[Row(i).id].bound
      BY <1>2, <1>3 DEF Inv, World, Listed, BoundTo, NoSession
    <3>7. there /\ Clear => TakingOK(j)'
      <4>. SUFFICES ASSUME there, Clear PROVE TakingOK(j)'
        OBVIOUS
      <4>1. i.held = courses
        BY <1>1, <2>5, <3>1 DEF BindOK, TakingOK
      <4>2. PICK cs : cs = Merged(courses, found) /\ cs = j.courses
        BY <2>3, <4>1
      <4>3. Codes(Coded(cs)) \subseteq Codes(Coded(courses)) \cup BoundTo(Row(i).id)' /\ (Coded(courses) # {} => Coded(cs) # {})
        <5>1. /\ Codes(Coded(Merged(courses, found))) \subseteq Codes(Coded(courses)) \cup Codes(found)
              /\ Coded(courses) # {} => Coded(Merged(courses, found)) # {}
          BY MergedIs
        <5>2. Codes(found) \subseteq BoundTo(Row(i).id)'
          BY <1>3, <3>6
        <5>. QED BY <4>2, <5>1, <5>2
      <4>4. Row(j) = Row(i) /\ Row(j)' = Row(j) /\ BoundTo(Row(j).id)' = BoundTo(Row(i).id)'
        BY <2>3 DEF Row, BoundTo
      <4>. QED BY <1>2, <2>3, <4>2, <4>3, <4>4 DEF TakingOK, Codes, Coded
    <3>8. there /\ Clear => BindOK(j)'
      BY <2>3, <3>7 DEF BindOK, CreationOK, BindingOK, RenamingOK
    <3>. QED BY <1>1, <1>2, <2>1, <3>2, <3>3, <3>4, <3>5, <3>8, BindStep
  <2>. QED BY <2>4, <2>5
<1>. QED BY <1>4, <1>5

LEMMA SyncBind == ASSUME Inv, BindInv, NEW p \in Requests, SyncLook(p) \/ InventoryFails(p) PROVE BindInv'
<1>1. Codes(Inventory(Target(p))) \subseteq sessions[Target(p)].bound
  BY DEF Codes, Inventory
<1>2. Codes({}) = {}
  BY DEF Codes
<1>. QED BY <1>1, <1>2, ComparedBind DEF SyncLook, InventoryFails

LEMMA SyncWriteBind == ASSUME Inv, BindInv, NEW p \in Requests, SyncWrite(p) PROVE BindInv'
<1>1. PICK i : i = job[p] /\ Shaped(i) /\ i.at = "syncing" /\ i.op = "sync" /\ there
  BY JobIs, OpAt DEF SyncWrite, Write, At
<1>2. /\ UNCHANGED <<sessions, there, stepCourses, paperBind, crossed, boundFor>>
      /\ rows[i.kind].id = Row(i).id /\ courses' = IF i.kind = "formal" THEN i.courses ELSE courses
  BY <1>1 DEF SyncWrite, Target, platform, ghosts
<1>3. rows'["formal"].id = rows["formal"].id
  <2>1. PICK v, r : rows' = [rows EXCEPT ![i.kind] = r] /\ r = [rows[i.kind] EXCEPT !.value = v]
    BY <1>1 DEF SyncWrite
  <2>2. r.id = rows[i.kind].id
    BY <1>1, <2>1 DEF Inv, World, AreRows, IsRow, Shaped
  <2>. QED BY <1>1, <2>1, <2>2 DEF Inv, World, AreRows, Kinds
<1>4. PICK log, j : Becomes(p, j) /\ j = [i EXCEPT !.at = "logging", !.courses = {}, !.log = log]
  BY <1>1 DEF SyncWrite
<1>5. j.op = "sync" /\ j.at = "logging"
  BY <1>1, <1>4 DEF Shaped, Formed
<1>6. Aside(j)
  BY <1>5 DEF Aside
<1>7. CASE i.kind # "formal"
  BY <1>2, <1>3, <1>4, <1>6, <1>7, AsideStep, SameGrown
<1>8. CASE i.kind = "formal"
  <2>1. Numbers(i) /\ boundFor \in Numbered /\ (there /\ Clear => BoundOK /\ BindOK(i))
    BY <1>1, BindsNow
  <2>2. "courses" \in Touches(i)
    BY <1>1, <1>8 DEF Touches
  <2>3. boundFor' \in Numbered' /\ Clear' = Clear /\ Grown
    BY <1>2, <2>1, SameGrown DEF Clear, Numbered
  <2>4. there /\ Clear => BoundOK'
    <3>. SUFFICES ASSUME there, Clear, paperBind = "success", rows["formal"].id = boundFor
                  PROVE  Codes(Stored') \subseteq BoundTo(boundFor)'
      BY <1>2, <1>3 DEF BoundOK
    <3>1. Codes(Stored) \subseteq BoundTo(boundFor)
      BY <2>1 DEF BoundOK
    <3>2. BoundTo(Row(i).id) = BoundTo(boundFor) /\ BoundTo(boundFor)' = BoundTo(boundFor)
      BY <1>2, <1>8 DEF BoundTo
    <3>3. /\ Codes(Coded(i.courses)) \subseteq Codes(Coded(courses)) \cup BoundTo(boundFor)
          /\ Coded(courses) # {} => Coded(i.courses) # {}
      BY <1>1, <1>8, <2>1, <3>2 DEF BindOK, TakingOK
    <3>4. Stored' = IF Coded(i.courses) # {} THEN Coded(i.courses) ELSE Coded(stepCourses)
      BY <1>2, <1>8 DEF Stored, Coded
    <3>5. Codes({}) = {}
      BY DEF Codes
    <3>. QED BY <3>1, <3>2, <3>3, <3>4, <3>5 DEF Stored
  <2>. QED BY <1>1, <1>2, <1>4, <1>6, <2>2, <2>3, <2>4, AsideOK, BindStep
<1>. QED BY <1>7, <1>8

LEMMA RenameBind ==
    ASSUME Inv, BindInv, NEW p \in Requests, Snapshots(p) \/ RenameMark(p) PROVE BindInv'
<1>1. PICK i : i = job[p] /\ Shaped(i) /\ i.at \in {"snapshots", "toRename"} /\ i.op = "course"
  BY JobIs, OpAt DEF Snapshots, RenameMark, Write, At
<1>2. UNCHANGED <<sessions, there, rows, courses, stepCourses, paperBind, crossed, boundFor>>
  BY DEF Snapshots, RenameMark, platform, task, ghosts
<1>3. CASE Becomes(p, NoJob)
  BY <1>2, <1>3, NoneAside, AsideStep, SameGrown
<1>4. CASE ~Becomes(p, NoJob)
  <2>1. PICK at, todo, j : Becomes(p, j) /\ j = [i EXCEPT !.at = at, !.todo = todo] /\ at \in {"toRename", "renaming"}
    <3>1. CASE Snapshots(p)
      BY <1>1, <1>4, <3>1 DEF Snapshots, Ends
    <3>2. CASE RenameMark(p)
      <4>1. PICK j : Becomes(p, j) /\ j = [i EXCEPT !.at = "renaming"]
        BY <1>1, <3>2 DEF RenameMark, Goes
      <4>2. j = [i EXCEPT !.at = "renaming", !.todo = i.todo]
        BY <1>1, <4>1 DEF Shaped, Formed
      <4>. QED BY <4>1, <4>2
    <3>. QED BY <3>1, <3>2
  <2>2. j.op = "course" /\ j.courses = i.courses /\ j.at = at
    BY <1>1, <2>1 DEF Shaped, Formed
  <2>. QED BY <1>1, <1>2, <2>1, <2>2, RenamingBind
<1>. QED BY <1>3, <1>4

LEMMA RenameStoreBind == ASSUME Inv, BindInv, NEW p \in Requests, RenameStore(p) PROVE BindInv'
<1>1. PICK i : i = job[p] /\ Shaped(i) /\ i.at = "storing" /\ i.op = "course"
  BY JobIs, OpAt DEF RenameStore, Write, At
<1>2. /\ UNCHANGED <<sessions, there, rows, stepCourses, paperBind, crossed, boundFor>>
      /\ courses' = i.courses
  BY <1>1 DEF RenameStore, platform, ghosts
<1>3. PICK j : Becomes(p, j) /\ j = [i EXCEPT !.at = "logging", !.courses = {}]
  BY <1>1 DEF RenameStore
<1>4. j.op = "course" /\ j.at = "logging"
  BY <1>1, <1>3 DEF Shaped, Formed
<1>5. Aside(j)
  BY <1>4 DEF Aside
<1>6. Numbers(i) /\ boundFor \in Numbered /\ (there /\ Clear => BoundOK /\ BindOK(i))
  BY <1>1, BindsNow
<1>7. "courses" \in Touches(i)
  BY <1>1, OnCourses
<1>8. boundFor' \in Numbered' /\ Clear' = Clear /\ Grown
  BY <1>2, <1>6, SameGrown DEF Clear, Numbered
<1>9. there /\ Clear => Codes(Stored') \subseteq Codes(Stored)
  <2>. SUFFICES ASSUME there, Clear PROVE Codes(Stored') \subseteq Codes(Stored)
    OBVIOUS
  <2>1. i.courses # {} /\ Coded(i.courses) = i.courses /\ Codes(i.courses) \subseteq Codes(Stored)
    BY <1>1, <1>6 DEF BindOK, RenamingOK
  <2>2. Stored' = i.courses
    BY <1>2, <2>1 DEF Stored, Coded
  <2>. QED BY <2>1, <2>2
<1>10. there /\ Clear => BoundOK'
  BY <1>2, <1>6, <1>8, <1>9, BoundKept
<1>. QED BY <1>1, <1>2, <1>3, <1>5, <1>7, <1>8, <1>10, AsideOK, BindStep

-----------------------------------------------------------------------------
(* Beginning, and what is no request's own step.                             *)

(* The courses are given other names.                                        *)
Retitled(cs) ==
    \E names \in [{c.code : c \in Stored} -> Variants] :
        cs = {[name |-> <<c.name[1], names[c.code]>>, code |-> c.code] : c \in Stored}

(* A request begins with what is recorded.                                   *)
Opening(j) ==
    /\ j.op \in {"create", "bind"} => j.id = NoSession /\ j.of \in {NoSession, rows["formal"].id}
    /\ j.op = "create" => j.at = "pinning" /\ j.kind = "formal" /\ j.courses = courses
    /\ j.op = "bind" => j.at = "toBind" /\ j.courses = Stored
    /\ j.op = "sync" => j.at = "looking" /\ j.held = courses
    /\ j.op = "course" =>
         /\ j.courses # {} /\ Coded(j.courses) = j.courses
         /\ Codes(j.courses) \subseteq Codes(Stored)
         /\ j.at = "snapshots" /\ Retitled(j.courses)

LEMMA OpeningOther == ASSUME NEW j, j.op \in {"change", "import", "rooms", "open", "delete"} PROVE Opening(j)
BY DEF Opening

LEMMA OpeningIs ==
    ASSUME NEW p \in Requests,
           \/ Create(p) \/ Bind(p) \/ Open(p) \/ Delete(p)
           \/ \E k \in Kinds : Sync(p, k) \/ Import(p, k) \/ (\E v : Change(p, k, v)) \/ (\E n : Rooms(p, k, n))
           \/ \E names \in [{c.code : c \in Stored} -> Variants] : Rename(p, names)
    PROVE  \E j : Begins(p, j) /\ Formed(j) /\ Opening(j)
<1>1. CASE Create(p)
  <2>1. PICK j : Begins(p, j) /\ j = [NoJob EXCEPT !.op = "create", !.at = "pinning", !.courses = courses]
    BY <1>1 DEF Create
  <2>2. /\ Formed(j) /\ j.op = "create" /\ j.at = "pinning" /\ j.kind = "formal" /\ j.id = NoSession /\ j.of = NoSession
        /\ j.courses = courses
    BY <2>1 DEF NoJob, Formed
  <2>. QED BY <2>1, <2>2 DEF Opening
<1>2. CASE Bind(p)
  <2>1. PICK id, j : /\ Begins(p, j) /\ id = rows["formal"].id
                     /\ j = [NoJob EXCEPT !.op = "bind", !.at = "toBind", !.of = id, !.courses = Stored]
    BY <1>2 DEF Bind
  <2>2. Formed(j) /\ j.op = "bind" /\ j.at = "toBind" /\ j.id = NoSession /\ j.of = id /\ j.courses = Stored
    BY <2>1 DEF NoJob, Formed
  <2>. QED BY <2>1, <2>2 DEF Opening
<1>3. CASE Open(p)
  <2>1. PICK ks, j : Begins(p, j) /\ j = [NoJob EXCEPT !.op = "open", !.at = "visiting", !.rows = rows, !.todo = ks]
    BY <1>3 DEF Open
  <2>2. Formed(j) /\ j.op = "open"
    BY <2>1 DEF NoJob, Formed
  <2>3. Opening(j)
    BY <2>2, OpeningOther
  <2>. QED BY <2>1, <2>2, <2>3
<1>4. CASE Delete(p)
  <2>1. PICK ids, at, j : Begins(p, j) /\ j = [NoJob EXCEPT !.op = "delete", !.at = at, !.todo = ids]
    BY <1>4 DEF Delete
  <2>2. Formed(j) /\ j.op = "delete"
    BY <2>1 DEF NoJob, Formed
  <2>3. Opening(j)
    BY <2>2, OpeningOther
  <2>. QED BY <2>1, <2>2, <2>3
<1>5. ASSUME NEW k \in Kinds, Sync(p, k) PROVE \E j : Begins(p, j) /\ Formed(j) /\ Opening(j)
  <2>1. PICK rs, j : /\ Begins(p, j)
                     /\ j = [NoJob EXCEPT !.op = "sync", !.at = "looking", !.kind = k, !.rows = rs, !.held = courses]
    BY <1>5 DEF Sync
  <2>2. Formed(j) /\ j.op = "sync" /\ j.at = "looking" /\ j.held = courses
    BY <2>1 DEF NoJob, Formed
  <2>. QED BY <2>1, <2>2 DEF Opening
<1>6. ASSUME NEW k \in Kinds, NEW v, Change(p, k, v) PROVE \E j : Begins(p, j) /\ Formed(j) /\ Opening(j)
  <2>1. PICK rs, j : /\ Begins(p, j)
                     /\ j = [NoJob EXCEPT !.op = "change", !.at = "looking", !.kind = k, !.rows = rs,
                                          !.log = history, !.to = v]
    BY <1>6 DEF Change
  <2>2. Formed(j) /\ j.op = "change"
    BY <2>1 DEF NoJob, Formed
  <2>3. Opening(j)
    BY <2>2, OpeningOther
  <2>. QED BY <2>1, <2>2, <2>3
<1>7. ASSUME NEW k \in Kinds, Import(p, k) PROVE \E j : Begins(p, j) /\ Formed(j) /\ Opening(j)
  <2>1. PICK at, rs, j : Begins(p, j) /\ j = [NoJob EXCEPT !.op = "import", !.at = at, !.kind = k, !.rows = rs]
    BY <1>7 DEF Import
  <2>2. Formed(j) /\ j.op = "import"
    BY <2>1 DEF NoJob, Formed
  <2>3. Opening(j)
    BY <2>2, OpeningOther
  <2>. QED BY <2>1, <2>2, <2>3
<1>8. ASSUME NEW k \in Kinds, NEW n, Rooms(p, k, n) PROVE \E j : Begins(p, j) /\ Formed(j) /\ Opening(j)
  <2>1. PICK rs, j : /\ Begins(p, j)
                     /\ j = [NoJob EXCEPT !.op = "rooms", !.at = "counting", !.kind = k, !.rows = rs, !.to = n]
    BY <1>8 DEF Rooms
  <2>2. Formed(j) /\ j.op = "rooms"
    BY <2>1 DEF NoJob, Formed
  <2>3. Opening(j)
    BY <2>2, OpeningOther
  <2>. QED BY <2>1, <2>2, <2>3
<1>9. ASSUME NEW names \in [{c.code : c \in Stored} -> Variants], Rename(p, names) PROVE \E j : Begins(p, j) /\ Formed(j) /\ Opening(j)
  <2>1. PICK cs, j : /\ Begins(p, j) /\ Stored # {}
                     /\ cs = {[name |-> <<c.name[1], names[c.code]>>, code |-> c.code] : c \in Stored}
                     /\ j = [NoJob EXCEPT !.op = "course", !.at = "snapshots", !.log = history, !.courses = cs]
    BY <1>9 DEF Rename
  <2>2. Formed(j) /\ j.op = "course" /\ j.at = "snapshots" /\ j.courses = cs
    BY <2>1 DEF NoJob, Formed
  <2>3. \A c \in Stored : c.code # NoCode
    BY DEF Stored, Coded
  <2>4. \A d \in cs : \E c \in Stored : d.code = c.code
    BY <2>1
  <2>5. Coded(cs) = cs /\ Codes(cs) \subseteq Codes(Stored)
    BY <2>3, <2>4 DEF Coded, Codes
  <2>6. cs # {}
    BY <2>1
  <2>7. Retitled(cs)
    BY <2>1 DEF Retitled
  <2>. QED BY <2>1, <2>2, <2>5, <2>6, <2>7 DEF Opening
<1>. QED BY <1>1, <1>2, <1>3, <1>4, <1>5, <1>6, <1>7, <1>8, <1>9

(* Whether a request is alone, it is not asked for here.                     *)
LEMMA AloneBind ==
    ASSUME Inv, BindInv, NEW q \in Requests, NEW k, k = job[q], NEW a, NEW o, o = job'[q], o = [k EXCEPT !.alone = a],
           Grown, UNCHANGED <<courses, stepCourses, boundFor>>, rows'["formal"].id = rows["formal"].id,
           there' => there, Clear' => Clear
    PROVE  Numbers(job[q])' /\ (there' /\ Clear' => BindOK(job[q])')
<1>1. JobOK(k) /\ Shaped(k)
  BY JobIs
<1>2. /\ Shaped(o) /\ o.op = k.op /\ o.at = k.at /\ o.kind = k.kind /\ o.id = k.id /\ o.of = k.of /\ o.rows = k.rows
      /\ o.courses = k.courses /\ o.held = k.held /\ o.todo = k.todo
  BY <1>1 DEF Shaped, Formed
<1>3. Numbers(k) /\ (there /\ Clear => BindOK(k))
  BY BindsNow
<1>4. Numbers(o)
  BY <1>2, <1>3 DEF Numbers
<1>5. BindOK(k) => BindOK(o)
  BY <1>2 DEF BindOK, CreationOK, BindingOK, TakingOK, RenamingOK, InWork, Displaced, Row
<1>6. Numbers(o)'
  <2>1. Numbered \subseteq Numbered'
    BY GrownTo
  <2>. QED BY <1>4, <2>1 DEF Numbers
<1>7. there' /\ Clear' => BindOK(o)'
  <2>1. RowsOf(o.rows)
    BY <1>1, <1>2 DEF JobOK
  <2>. QED BY <1>2, <1>3, <1>4, <1>5, <2>1, OtherBind
<1>. QED BY <1>6, <1>7, BindAt

LEMMA BeginningBind ==
    ASSUME Inv, BindInv, NEW p \in Requests,
           \/ Create(p) \/ Bind(p) \/ Open(p) \/ Delete(p)
           \/ \E k \in Kinds : Sync(p, k) \/ Import(p, k) \/ (\E v : Change(p, k, v)) \/ (\E n : Rooms(p, k, n))
           \/ \E names \in [{c.code : c \in Stored} -> Variants] : Rename(p, names)
    PROVE  BindInv'
<1>1. PICK j : Begins(p, j) /\ Formed(j) /\ Opening(j)
  BY OpeningIs
<1>2. UNCHANGED <<sessions, there, rows, courses, stepCourses, paperBind, boundFor>> /\ crossed \subseteq crossed'
  BY <1>1 DEF Begins, platform, task
<1>3. Stored' = Stored /\ Grown /\ (Clear' => Clear)
  BY <1>2, StoredSame, SameGrown DEF Clear
<1>4. PICK b, n, i : job'[p] = i /\ i = [j EXCEPT !.alone = b, !.number = n]
  BY <1>1 DEF Begins
<1>5. /\ i.op = j.op /\ i.at = j.at /\ i.kind = j.kind /\ i.id = j.id /\ i.of = j.of
      /\ i.courses = j.courses /\ i.held = j.held
  BY <1>1, <1>4 DEF Formed
<1>6. Numbers(i)'
  <2>1. rows["formal"].id \in Numbered
    BY DEF Inv, World, RowsOf, IsOf, Numbered, Kinds
  <2>. QED BY <1>1, <1>2, <1>5, <2>1 DEF Opening, Numbers, Numbered
<1>7. BindOK(i)'
  <2>1. CreationOK(i)' /\ BindingOK(i)'
    BY <1>1, <1>3, <1>5 DEF Opening, CreationOK, BindingOK, InWork, Displaced, Coursing
  <2>2. TakingOK(i)' /\ RenamingOK(i)'
    BY <1>1, <1>2, <1>3, <1>5 DEF Opening, TakingOK, RenamingOK, Coded, Codes
  <2>. QED BY <2>1, <2>2 DEF BindOK
<1>8. ASSUME NEW q \in Requests, q # p
      PROVE  Numbers(job[q])' /\ (there' /\ Clear' => BindOK(job[q])')
  <2>1. PICK k : k = job[q] /\ JobOK(k) /\ Shaped(k)
    BY JobIs
  <2>2. PICK a, o : o = job'[q] /\ o = [k EXCEPT !.alone = a]
    BY <1>1, <1>8, <2>1 DEF Begins
  <2>. QED BY <1>2, <1>3, <2>1, <2>2, AloneBind
<1>9. boundFor' \in Numbered' /\ (there' /\ Clear' => BoundOK')
  <2>1. boundFor \in Numbered /\ (there /\ Clear => BoundOK)
    BY DEF BindInv
  <2>. QED BY <1>2, <1>3, <2>1, BoundKept DEF Numbered
<1>10. Numbers(job[p])' /\ BindOK(job[p])'
  BY <1>4, <1>6, <1>7, BindAt
<1>. QED BY <1>8, <1>9, <1>10 DEF BindInv

LEMMA DropBind == ASSUME Inv, BindInv, NEW p \in Requests, Drop(p) PROVE BindInv'
<1>1. Becomes(p, NoJob) /\ ~there' /\ UNCHANGED <<sessions, crossed, boundFor>>
  BY DEF Drop, Ends, platform, ghosts
<1>2. boundFor' \in Numbered' /\ \A q \in Requests : Numbers(job[q])
  BY <1>1 DEF BindInv, Numbered
<1>3. ASSUME NEW q \in Requests PROVE Numbers(job[q])'
  <2>1. PICK o : o = job'[q] /\ o \in {job[q], NoJob}
    BY <1>1 DEF Inv, World, Becomes
  <2>2. Numbers(o)
    BY <1>2, <2>1, NoneAside, AsideOK
  <2>3. Numbers(o)'
    BY <1>1, <2>2 DEF Numbers, Numbered
  <2>. QED BY <2>1, <2>3, BindAt
<1>. QED BY <1>1, <1>2, <1>3 DEF BindInv

LEMMA RestartBind == ASSUME Inv, BindInv, Restart PROVE BindInv'
<1>1. /\ job' = [p \in Requests |-> NoJob]
      /\ UNCHANGED <<sessions, there, rows, courses, stepCourses, paperBind, crossed, boundFor>>
  BY DEF Restart, Unsettled, platform, task
<1>2. \A q \in Requests : Numbers(job[q])' /\ BindOK(job[q])'
  <2>1. BindOK(NoJob)' /\ Numbers(NoJob)'
    BY NoneAside, AsideOK
  <2>. QED BY <1>1, <2>1, BindAt
<1>3. boundFor' \in Numbered' /\ Clear' = Clear
  BY <1>1 DEF BindInv, Numbered, Clear
<1>4. Stored' = Stored /\ Grown
  BY <1>1, StoredSame, SameGrown
<1>5. there' /\ Clear' => BoundOK'
  BY <1>1, <1>3, <1>4, BoundKept DEF BindInv
<1>. QED BY <1>2, <1>3, <1>5 DEF BindInv

LEMMA HandEditBind == ASSUME Inv, BindInv, NEW s, NEW v, HandEdit(s, v) PROVE BindInv'
<1>1. /\ Put(s, "value", v) /\ job' = [q \in Requests |-> [job[q] EXCEPT !.alone = FALSE]]
      /\ UNCHANGED <<there, rows, courses, stepCourses, paperBind, crossed, boundFor>>
  BY DEF HandEdit, task
<1>2. Grown
  <2>1. PICK f : f = "value" /\ Put(s, f, v)
    BY <1>1
  <2>. QED BY <2>1, PutGrown DEF Inv, Fields
<1>3. Clear' = Clear /\ Stored' = Stored
  BY <1>1, StoredSame DEF Clear
<1>4. ASSUME NEW q \in Requests PROVE Numbers(job[q])' /\ (there' /\ Clear' => BindOK(job[q])')
  <2>1. PICK k, a, o : k = job[q] /\ a = FALSE /\ o = job'[q] /\ o = [k EXCEPT !.alone = a]
    BY <1>1
  <2>. QED BY <1>1, <1>2, <1>3, <2>1, AloneBind
<1>5. boundFor' \in Numbered' /\ (there' /\ Clear' => BoundOK')
  <2>1. boundFor \in Numbered /\ (there /\ Clear => BoundOK)
    BY DEF BindInv
  <2>2. boundFor \in Numbered'
    BY <1>2, <2>1, GrownTo
  <2>. QED BY <1>1, <1>2, <1>3, <2>1, <2>2, BoundKept
<1>. QED BY <1>4, <1>5 DEF BindInv

LEMMA SameBind ==
    ASSUME Inv, BindInv, UNCHANGED <<sessions, there, rows, courses, stepCourses, paperBind, job, crossed, boundFor>>
    PROVE  BindInv'
<1>1. Clear' = Clear /\ Stored' = Stored /\ Grown
  BY StoredSame, SameGrown DEF Clear
<1>2. ASSUME NEW q \in Requests PROVE Numbers(job[q])' /\ (there' /\ Clear' => BindOK(job[q])')
  <2>1. PICK o : o = job[q] /\ o = job'[q] /\ Shaped(o) /\ JobOK(o)
    BY JobIs
  <2>2. Numbers(o) /\ (there /\ Clear => BindOK(o))
    BY <2>1, BindsNow
  <2>3. Numbers(o)'
    BY <2>2 DEF Numbers, Numbered
  <2>4. there' /\ Clear' => BindOK(o)'
    BY <1>1, <2>1, <2>2, OtherBind DEF JobOK
  <2>. QED BY <2>1, <2>3, <2>4, BindAt
<1>3. boundFor' \in Numbered' /\ (there' /\ Clear' => BoundOK')
  BY <1>1, BoundKept DEF BindInv, Numbered
<1>. QED BY <1>2, <1>3 DEF BindInv

LEMMA InitBindInv == ASSUME Init PROVE BindInv
<1>1. job = [p \in Requests |-> NoJob]
  BY DEF Init
<1>2. \A p \in Requests : BindOK(job[p]) /\ Numbers(job[p])
  BY <1>1, NoneAside, AsideOK
<1>3. CASE boundFor = NoSession /\ paperBind = "pending"
  BY <1>2, <1>3 DEF BindInv, BoundOK, Numbered
<1>4. CASE /\ courses = MadeCourses /\ stepCourses = MadeCourses /\ boundFor = 1
           /\ sessions = <<[Session("formal") EXCEPT !.bound = {c.code : c \in MadeCourses}], Session("trial")>>
  <2>1. PICK b, x : /\ b = {c.code : c \in MadeCourses} /\ x = [Session("formal") EXCEPT !.bound = b]
                    /\ sessions = <<x, Session("trial")>>
    BY <1>4
  <2>2. x.bound = b
    BY <2>1 DEF Session
  <2>3. sessions[1] = x /\ 1 \in DOMAIN sessions
    BY <2>1
  <2>4. BoundTo(boundFor) = b
    BY <1>4, <2>2, <2>3 DEF BoundTo, NoSession
  <2>5. Stored \subseteq MadeCourses
    BY <1>4 DEF Stored, Coded
  <2>6. Codes(Stored) \subseteq b
    BY <2>1, <2>5 DEF Codes
  <2>. QED BY <1>2, <1>4, <2>3, <2>4, <2>6 DEF BindInv, BoundOK, Numbered
<1>. QED BY <1>3, <1>4 DEF Init

LEMMA BindInvStep == ASSUME Inv, BindInv, [Next]_vars PROVE BindInv'
<1>1. ASSUME NEW p \in Requests, Creation(p) PROVE BindInv'
  BY <1>1, BeginningBind, PlacesBind, PinWriteBind, RecordBind, KnownBind, ListBind, FailingBind, PersistBind,
     CoursesDoneBind, BindMarkBind, BindDoneBind DEF Creation
<1>2. ASSUME NEW p \in Requests, Changing(p) PROVE BindInv'
  BY <1>2, BeginningBind, QuietlyBind, EndingBind, SaveBind, SyncBind, SyncWriteBind, RenameBind, RenameStoreBind
     DEF Changing
<1>3. ASSUME NEW p \in Requests, Keeping(p) PROVE BindInv'
  BY <1>3, BeginningBind, QuietlyBind, RefreshBind, DropBind DEF Keeping
<1>4. ASSUME NEW p \in Requests, Call(p) \/ NotFound(p) \/ TaskGone(p) \/ CallFails(p) \/ ReadFails(p) PROVE BindInv'
  BY <1>4, AnyCallBind, EndingBind, CallFailsBind, QuietlyBind
<1>5. Erase \/ (\E code : OtherCourse(code)) \/ UNCHANGED vars => BindInv'
  BY SameBind DEF Erase, OtherCourse, vars, platform, task, ghosts
<1>. QED BY <1>1, <1>2, <1>3, <1>4, <1>5, RestartBind, HandEditBind DEF Next

(* While paper_bind is on record as a success for the session the task still *)
(* records, every stored course is bound to that session on the platform:    *)
(* whatever is created anew, taken over, renamed, retried or cut off, unless *)
(* two requests worked at once on the courses or on the session.             *)
THEOREM BoundIsBoundHolds == Spec => []BoundIsBound
<1>1. BindInv => BoundIsBound
  BY DEF BindInv, BoundOK, BoundIsBound, Clear, Codes
<1>2. Init => Inv /\ BindInv
  BY InitInv, InitBindInv
<1>3. Inv /\ BindInv /\ [Next]_vars => (Inv /\ BindInv)'
  BY InvStep, BindInvStep
<1>. QED BY <1>1, <1>2, <1>3, PTL DEF Spec

-----------------------------------------------------------------------------
(* What was made.  As long as nobody overlapped or broke off on the courses, *)
(* the project's courses on the platform are those on record, or those that  *)
(* the one request at work on them has in hand.                              *)
Calm == "courses" \notin unsure
AsCourse(t) == [name |-> t.name, code |-> t.code]
Ours == {t \in tenant : t.own}

Pair(x) == x = <<x[1], x[2]>> /\ x[1] \in Nat /\ x[2] \in Nat
IsTenant(t) ==
    /\ t = [name |-> t.name, code |-> t.code, own |-> t.own] /\ Pair(t.name) /\ Pair(t.code) /\ t.code[1] # 0
    /\ t.own \/ t.name[1] = 0
TenantOK ==
    /\ IsFiniteSet(tenant) /\ \A t \in tenant : IsTenant(t)
    /\ \A t, u \in tenant : t.code = u.code => t = u

(* One record of each of the project's courses, with a code that it has.     *)
Proper(cs) == IsFiniteSet(cs) /\ \A c \in cs : c = AsCourse(c) /\ Pair(c.name) /\ Pair(c.code)
OfOne(cs) == \A c, d \in cs : c.name[1] = d.name[1] => c = d \/ c.name[1] = 0
HasIt(c) == c.code = NoCode \/ \E t \in tenant : t.code = c.code /\ (t.own \/ c.name[1] = 0)
Real(cs) == \A c \in cs : HasIt(c)
Good(cs) == Proper(cs) /\ OfOne(cs) /\ Real(cs)
Complete(cs) == \A t \in Ours : AsCourse(t) \in cs
Whole(cs) == Good(cs) /\ Complete(cs)

(* The record lags behind while courses are created or renamed.              *)
Amid(j) ==
    \/ j.op = "create" /\ j.at \in {"creating", "persisting"}
    \/ j.op = "course" /\ j.at \in {"renaming", "storing"}
CoursesOK == Good(courses) /\ Good(stepCourses) /\ ((\A p \in Requests : ~Amid(job[p])) => Complete(courses))

(* A creation goes by the courses on record, then by those that it plans.    *)
Until == {"pinning", "pinned", "marking", "posting", "configuring", "recording", "made", "known", "listing"}
Planning(cs, todo) ==
    /\ Proper(cs) /\ OfOne(cs) /\ Complete(cs)
    /\ \A c \in cs : IF c.name \in todo THEN c.code[1] # 0 ELSE HasIt(c)
    /\ \A n \in todo : \E c \in cs : c.name = n
    /\ \A t \in Ours : t.name \notin todo
PlanOK(j) ==
    j.op = "create" =>
        /\ j.at \in Until \cup {"created"} => j.courses = courses
        /\ j.at = "pinned" => j.held = courses
        /\ j.at = "listing" => j.held = Coded(courses)
        /\ j.at = "creating" => j.todo # {} /\ Planning(j.courses, j.todo)
        /\ j.at = "persisting" => Whole(j.courses)

TakeOK(j) ==
    j.op = "sync" /\ j.kind = "formal" =>
        /\ j.at = "looking" => j.held = courses
        /\ j.at = "syncing" => Whole(j.courses)

(* Courses that are renamed have their new names once they are done.         *)
NamesOK(j) ==
    j.op = "course" =>
        /\ j.at \in {"snapshots", "toRename", "renaming", "storing"} => Good(j.courses)
        /\ j.at = "snapshots" => \A t \in Ours : t.code \in Codes(j.courses)
        /\ j.at \in {"toRename", "renaming"} =>
             /\ j.todo # {} /\ j.todo \subseteq Codes(j.courses)
             /\ \A t \in Ours : t.code \in j.todo \/ AsCourse(t) \in j.courses
        /\ j.at = "storing" => Complete(j.courses)

MadeOK(j) == PlanOK(j) /\ TakeOK(j) /\ NamesOK(j)
Settled == TenantOK /\ CoursesOK /\ \A p \in Requests : MadeOK(job[p])
MadeInv ==
    /\ "courses" \in crossed => ~Calm
    /\ remade # {} => ~Calm
    /\ there /\ Calm => Settled

-----------------------------------------------------------------------------
(* What the choices of codes and of turns find.                              *)
LEMMA SmallestOf == ASSUME NEW S \in SUBSET Nat, S # {} PROVE \E x \in S : \A y \in S : x <= y
<1>1. PICK x \in S : \A y \in S : ~(<<y, x>> \in OpToRel(<, Nat))
  BY WFMin, NatLessThanWellFounded, Zenon
<1>2. \A y \in S : ~(y < x)
  BY <1>1, Zenon DEF OpToRel
<1>3. \A y \in S : x <= y
  BY <1>2
<1>. QED BY <1>3

LEMMA LargestOf == ASSUME NEW n \in Nat, NEW S \in SUBSET (1..n), S # {} PROVE \E x \in S : \A y \in S : y <= x
<1>. DEFINE T == {n - x : x \in S}
<1>1. T \in SUBSET Nat
  OBVIOUS
<1>2. T # {}
  OBVIOUS
<1>3. PICK z \in T : \A y \in T : z <= y
  BY <1>1, <1>2, SmallestOf
<1>4. PICK x \in S : z = n - x
  OBVIOUS
<1>5. \A y \in S : n - x <= n - y
  BY <1>3, <1>4
<1>6. \A y \in S : y <= x
  BY <1>5
<1>. QED BY <1>6

LEMMA FirstIs == ASSUME NEW S \in SUBSET Nat, S # {} PROVE FirstOf(S) \in S
BY SmallestOf DEF FirstOf

LEMMA EarliestIs == ASSUME NEW S, S # {}, \A x \in S : Pair(x) PROVE Earliest(S) \in S
<1>. DEFINE A == {x[1] : x \in S}
<1>1. PICK a \in A : \A b \in A : a <= b
  <2>1. A \in SUBSET Nat /\ A # {}
    BY DEF Pair
  <2>. HIDE DEF A
  <2>. QED BY <2>1, SmallestOf
<1>. DEFINE B == {x[2] : x \in {y \in S : y[1] = a}}
<1>2. PICK b \in B : \A c \in B : b <= c
  <2>1. B \in SUBSET Nat /\ B # {}
    BY <1>1 DEF Pair
  <2>. HIDE DEF B
  <2>. QED BY <2>1, SmallestOf
<1>3. PICK e \in S : e[1] = a /\ e[2] = b
  BY <1>2
<1>4. ASSUME NEW m \in S \ {e} PROVE ComesBefore(e, m)
  <2>1. Pair(m) /\ Pair(e) /\ a <= m[1]
    BY <1>1, <1>4
  <2>2. CASE m[1] = a
    <3>1. b <= m[2] /\ m[2] # b
      BY <1>2, <1>3, <1>4, <2>1, <2>2 DEF Pair
    <3>. QED BY <1>3, <2>1, <2>2, <3>1 DEF ComesBefore, Pair
  <2>. QED BY <1>3, <2>1, <2>2 DEF ComesBefore, Pair
<1>. QED BY <1>3, <1>4 DEF Earliest

(* The k-th number is there: the least with k numbers up to it, and it has   *)
(* no more, since without it there are fewer.                                *)
LEMMA NthIs ==
    ASSUME NEW n \in Nat, NEW S \in SUBSET (1..n), NEW k \in Nat, 1 <= k, k <= Cardinality(S)
    PROVE  Nth(k, S) \in S
<1>. DEFINE To(m) == {x \in S : x <= m}
            T == {m \in S : k <= Cardinality(To(m))}
<1>1. IsFiniteSet(S) /\ \A m : IsFiniteSet(To(m)) /\ Cardinality(To(m)) \in Nat
  <2>1. IsFiniteSet(1..n)
    BY FS_Interval
  <2>2. IsFiniteSet(S)
    BY <2>1, FS_Subset
  <2>. QED BY <2>2, FS_Subset, FS_CardinalityType
<1>2. S # {}
  BY FS_EmptySet
<1>3. PICK g \in S : \A x \in S : x <= g
  BY <1>2, LargestOf
<1>4. To(g) = S
  BY <1>3
<1>5. S \subseteq Nat
  OBVIOUS
<1>6. g \in T
  BY <1>4
<1>7. PICK m \in T : \A x \in T : m <= x
  <2>1. T \in SUBSET Nat
    BY <1>5
  <2>. HIDE DEF T
  <2>. QED BY <1>6, <2>1, SmallestOf
<1>8. m \in S /\ k <= Cardinality(To(m))
  OBVIOUS
<1>9. Cardinality(To(m)) = k
  <2>. DEFINE L == To(m) \ {m}
  <2>1. IsFiniteSet(L) /\ Cardinality(L) = Cardinality(To(m)) - 1
    <3>1. m \in To(m) /\ IsFiniteSet(To(m))
      BY <1>1, <1>8
    <3>. QED BY <3>1, FS_RemoveElement
  <2>2. CASE L = {}
    <3>1. Cardinality(L) = 0
      BY <2>2, FS_EmptySet
    <3>2. Cardinality(To(m)) \in Nat
      BY <1>1
    <3>. HIDE DEF L, To
    <3>. QED BY <1>8, <2>1, <3>1, <3>2
  <2>3. CASE L # {}
    <3>1. PICK l \in L : \A x \in L : x <= l
      <4>1. L \in SUBSET (1..n)
        OBVIOUS
      <4>. HIDE DEF L
      <4>. QED BY <2>3, <4>1, LargestOf
    <3>2. l \in S /\ m \in S /\ l \in Nat /\ m \in Nat /\ l < m
      BY <1>8, <3>1
    <3>3. L \subseteq To(l)
      BY <3>1
    <3>4. ASSUME NEW x \in To(l) PROVE x \in L
      <4>1. x \in S /\ x \in Nat /\ x <= l
        BY <1>5, <3>4
      <4>2. x <= m /\ x # m
        BY <3>2, <4>1
      <4>. QED BY <4>1, <4>2
    <3>5. To(l) = L
      BY <3>3, <3>4
    <3>6. l \notin T
      BY <1>7, <3>2
    <3>7. ~(k <= Cardinality(To(l)))
      BY <3>2, <3>6
    <3>8. Cardinality(To(l)) \in Nat /\ Cardinality(To(m)) \in Nat
      BY <1>1
    <3>. HIDE DEF L, To
    <3>. QED BY <1>8, <2>1, <3>5, <3>7, <3>8
  <2>. QED BY <2>2, <2>3
<1>. QED BY <1>8, <1>9 DEF Nth

(* What a finite set is mapped to is finite.                                 *)
LEMMA MappedFinite ==
    ASSUME NEW S, IsFiniteSet(S), NEW f, NEW T, \A t \in T : \E x \in S : t = f[x]
    PROVE  IsFiniteSet(T)
<1>. DEFINE U == {f[x] : x \in S}
            g == [x \in S |-> f[x]]
<1>1. g \in [S -> U]
  OBVIOUS
<1>2. \A t \in U : \E x \in S : g[x] = t
  OBVIOUS
<1>3. g \in Surjection(S, U)
  <2>. HIDE DEF g, U
  <2>. QED BY <1>1, <1>2, Fun_IsSurj
<1>4. IsFiniteSet(U)
  <2>. HIDE DEF g, U
  <2>. QED BY <1>3, FS_Surjection
<1>5. T \in SUBSET U
  OBVIOUS
<1>. HIDE DEF g, U
<1>. QED BY <1>4, <1>5, FS_Subset

-----------------------------------------------------------------------------
(* What a step leaves as it is.                                              *)

(* The project's courses on the platform stay, others may come.              *)
Kin == Ours' = Ours /\ tenant \subseteq tenant'

LEMMA KinSame == ASSUME UNCHANGED tenant PROVE Kin /\ (TenantOK => TenantOK')
BY DEF Kin, Ours, TenantOK, IsTenant

LEMMA KinKept ==
    ASSUME Kin, NEW cs
    PROVE  /\ Complete(cs) <=> Complete(cs)'
           /\ \A c : HasIt(c) => HasIt(c)'
           /\ Good(cs) => Good(cs)'
           /\ Whole(cs) => Whole(cs)'
<1>1. Complete(cs) <=> Complete(cs)'
  BY DEF Kin, Complete, AsCourse
<1>2. \A c : HasIt(c) => HasIt(c)'
  BY DEF Kin, HasIt
<1>3. Good(cs) => Good(cs)'
  BY <1>2 DEF Good, Proper, OfOne, Real, AsCourse, Pair
<1>. QED BY <1>1, <1>2, <1>3 DEF Whole

(* A request that no course is made or renamed by.                           *)
Unmade(j) ==
    Aside(j) \/ j.op = "bind" \/ (j.op = "create" /\ j.at \in {"toBind", "binding", "bound"})

LEMMA UnmadeOK == ASSUME NEW j, Unmade(j) PROVE MadeOK(j) /\ MadeOK(j)' /\ ~Amid(j)
BY DEF Unmade, Aside, MadeOK, PlanOK, TakeOK, NamesOK, Amid, Until

LEMMA KinMade == ASSUME Kin, UNCHANGED courses, NEW o, MadeOK(o) PROVE MadeOK(o)'
<1>1. PlanOK(o)'
  <2>. SUFFICES ASSUME o.op = "create" PROVE PlanOK(o)'
    BY DEF PlanOK
  <2>1. Coded(courses)' = Coded(courses)
    BY DEF Coded
  <2>2. PICK cs, todo : cs = o.courses /\ todo = o.todo
    OBVIOUS
  <2>3. Planning(cs, todo) => Planning(cs, todo)'
    <3>. SUFFICES ASSUME Planning(cs, todo) PROVE Planning(cs, todo)'
      OBVIOUS
    <3>1. Proper(cs)' /\ OfOne(cs)' /\ Complete(cs)'
      BY KinKept DEF Planning, Proper, OfOne, AsCourse, Pair
    <3>2. \A c \in cs : IF c.name \in todo THEN c.code[1] # 0 ELSE HasIt(c)'
      BY KinKept DEF Planning
    <3>3. (\A n \in todo : \E c \in cs : c.name = n) /\ \A t \in Ours' : t.name \notin todo
      BY DEF Planning, Kin
    <3>. QED BY <3>1, <3>2, <3>3 DEF Planning
  <2>4. Whole(cs) => Whole(cs)'
    BY KinKept
  <2>. QED BY <2>1, <2>2, <2>3, <2>4 DEF MadeOK, PlanOK
<1>2. TakeOK(o)'
  BY KinKept DEF MadeOK, TakeOK
<1>3. NamesOK(o)'
  <2>. SUFFICES ASSUME o.op = "course" PROVE NamesOK(o)'
    BY DEF NamesOK
  <2>1. PICK cs, todo : cs = o.courses /\ todo = o.todo
    OBVIOUS
  <2>2. (Good(cs) => Good(cs)') /\ (Complete(cs) => Complete(cs)')
    BY KinKept
  <2>3. (\A t \in Ours : t.code \in Codes(cs)) => \A t \in Ours' : t.code \in Codes(cs)
    BY DEF Kin
  <2>4. (\A t \in Ours : t.code \in todo \/ AsCourse(t) \in cs) => \A t \in Ours' : t.code \in todo \/ AsCourse(t) \in cs
    BY DEF Kin
  <2>. QED BY <2>1, <2>2, <2>3, <2>4 DEF MadeOK, NamesOK, Codes, AsCourse
<1>. QED BY <1>1, <1>2, <1>3 DEF MadeOK

LEMMA MadeAt == ASSUME NEW q, NEW o, o = job'[q], MadeOK(o)' PROVE MadeOK(job[q])'
BY DEF MadeOK, PlanOK, TakeOK, NamesOK, Planning, Whole, Good, Proper, OfOne, Real, Complete, HasIt, Ours, Coded, Codes, AsCourse,
       Pair

(* A step of one request: what it changes of the courses it works on, and    *)
(* then no other request does.                                               *)
LEMMA MadeStep ==
    ASSUME Inv, MadeInv, NEW p \in Requests, NEW i, i = job[p], NEW j, Becomes(p, j),
           crossed' = crossed, there' => there, Calm' => Calm, remade' # {} => remade # {} \/ ~Calm',
           there' /\ Calm' =>
               /\ TenantOK' /\ MadeOK(j)' /\ Good(courses)' /\ Good(stepCourses)'
               /\ "courses" \in Touches(i) \/ (Kin /\ UNCHANGED courses)
               /\ Amid(j) \/ Complete(courses)' \/ (~Amid(i) /\ Kin /\ UNCHANGED courses)
    PROVE  MadeInv'
<1>1. job'[p] = j /\ \A q \in Requests : q # p => job'[q] = job[q]
  BY DEF Inv, World, Becomes
<1>2. ASSUME there', Calm' PROVE Settled'
  <2>1. Settled /\ "courses" \notin crossed
    BY <1>2 DEF MadeInv
  <2>2. ASSUME NEW q \in Requests PROVE MadeOK(job[q])'
    <3>1. CASE q = p
      BY <1>1, <1>2, <3>1, MadeAt
    <3>2. CASE q # p
      <4>1. PICK o : o = job[q] /\ o = job'[q] /\ Shaped(o) /\ MadeOK(o)
        BY <1>1, <2>1, <3>2, JobIs DEF Settled
      <4>2. CASE "courses" \in Touches(i)
        <5>1. "courses" \notin Touches(o)
          BY <2>1, <3>2, <4>1, <4>2 DEF Inv, Sole
        <5>2. MadeOK(o)'
          BY <4>1, <5>1, AsideIs, UnmadeOK DEF Unmade
        <5>. QED BY <4>1, <5>2, MadeAt
      <4>3. CASE Kin /\ UNCHANGED courses
        BY <4>1, <4>3, KinMade, MadeAt
      <4>. QED BY <1>2, <4>2, <4>3
    <3>. QED BY <3>1, <3>2
  <2>3. ASSUME \A q \in Requests : ~Amid(job'[q]) PROVE Complete(courses)'
    <3>1. ~Amid(j)
      BY <1>1, <2>3
    <3>2. CASE ~Amid(i) /\ Kin /\ UNCHANGED courses
      <4>1. \A q \in Requests : ~Amid(job[q])
        BY <1>1, <2>3, <3>2
      <4>2. PICK cs : cs = courses
        OBVIOUS
      <4>3. Complete(cs)
        BY <2>1, <4>1, <4>2 DEF Settled, CoursesOK
      <4>4. Complete(cs)'
        BY <3>2, <4>3, KinKept
      <4>. QED BY <3>2, <4>2, <4>4 DEF Complete
    <3>. QED BY <1>2, <3>1, <3>2
  <2>. QED BY <1>2, <2>2, <2>3 DEF Settled, CoursesOK, Amid
<1>. QED BY <1>2 DEF MadeInv, Calm

LEMMA NoneGood == Good({}) /\ Good({})'
BY FS_EmptySet DEF Good, Proper, OfOne, Real

(* A step that makes, renames and records no course.                         *)
LEMMA StillMade ==
    ASSUME Inv, MadeInv, NEW p \in Requests, NEW i, i = job[p], NEW j, Becomes(p, j),
           UNCHANGED <<tenant, crossed, remade>>, there' => there, Calm' => Calm,
           stepCourses' = stepCourses \/ stepCourses' = {},
           there /\ Calm /\ Settled => courses' = courses /\ MadeOK(j) /\ (Amid(i) => Amid(j) \/ ~Calm')
    PROVE  MadeInv'
<1>. SUFFICES ASSUME there', Calm'
              PROVE  /\ TenantOK' /\ MadeOK(j)' /\ Good(courses)' /\ Good(stepCourses)' /\ Kin /\ UNCHANGED courses
                     /\ Amid(i) => Amid(j)
  BY MadeStep
<1>1. Settled /\ courses' = courses /\ MadeOK(j) /\ (Amid(i) => Amid(j))
  BY DEF MadeInv
<1>2. Kin /\ TenantOK'
  BY <1>1, KinSame DEF Settled
<1>3. MadeOK(j)'
  BY <1>1, <1>2, KinMade
<1>4. PICK cs, ss : cs = courses /\ ss = stepCourses
  OBVIOUS
<1>5. Good(cs) /\ Good(ss)
  BY <1>1, <1>4 DEF Settled, CoursesOK
<1>6. Good(cs)' /\ Good(ss)'
  BY <1>2, <1>5, KinKept
<1>7. Good(courses)'
  BY <1>1, <1>4, <1>6 DEF Good, Proper, OfOne, Real
<1>8. Good(stepCourses)'
  BY <1>4, <1>6, NoneGood DEF Good, Proper, OfOne, Real
<1>. QED BY <1>1, <1>2, <1>3, <1>7, <1>8

(* A request ends, or goes on with what makes no course.                     *)
LEMMA UnmadeStep ==
    ASSUME Inv, MadeInv, NEW p \in Requests, NEW j, Becomes(p, j), Unmade(j),
           UNCHANGED <<tenant, crossed, remade, courses>>, there' => there, Calm' => Calm,
           stepCourses' = stepCourses \/ stepCourses' = {},
           there /\ Calm => ~Amid(job[p]) \/ ~Calm'
    PROVE  MadeInv'
<1>1. PICK i : i = job[p]
  OBVIOUS
<1>. QED BY <1>1, UnmadeOK, StillMade

-----------------------------------------------------------------------------
(* Creation, until its courses are planned, and what makes no course.        *)

LEMMA MakingMade ==
    ASSUME Inv, MadeInv, NEW p \in Requests, NEW i, i = job[p], i.op = "create", i.at \in Until,
           NEW j, Becomes(p, j), j.op = "create", j.at \in Until, j.courses = i.courses,
           j.at = "pinned" => j.held = courses, j.at = "listing" => j.held = Coded(courses),
           UNCHANGED <<tenant, crossed, remade, unsure, there>>, stepCourses' = stepCourses \/ stepCourses' = {},
           courses' = courses \/ (i.at = "pinned" /\ courses' = i.held)
    PROVE  MadeInv'
<1>1. ~Amid(i)
  BY DEF Amid, Until
<1>2. ASSUME Settled PROVE courses' = courses /\ MadeOK(j)
  <2>1. MadeOK(i)
    BY <1>2 DEF Settled
  <2>2. i.courses = courses /\ (i.at = "pinned" => i.held = courses)
    BY <2>1 DEF MadeOK, PlanOK
  <2>3. j.at \notin {"creating", "persisting"}
    BY DEF Until
  <2>. QED BY <2>2, <2>3 DEF MadeOK, PlanOK, TakeOK, NamesOK
<1>. QED BY <1>1, <1>2, StillMade DEF Calm

LEMMA PlacesMade ==
    ASSUME Inv, MadeInv, NEW p \in Requests,
           \/ PinRead(p) \/ PinWrite(p) \/ Mark(p) \/ Configure(p) \/ Record(p) \/ Made(p) \/ Known(p)
           \/ (Call(p) /\ At(p, "posting"))
    PROVE  MadeInv'
<1>1. PICK i : i = job[p] /\ Shaped(i) /\ i.op = "create" /\ i.at \in Until
  <2>1. PICK i : i = job[p] /\ Shaped(i)
    BY JobIs
  <2>2. i.at \in {"pinning", "pinned", "marking", "configuring", "recording", "made", "known", "posting"}
    BY <2>1 DEF PinRead, PinWrite, Mark, Configure, Record, Made, Known, Write, At
  <2>. QED BY <2>1, <2>2, OpAt DEF Until
<1>2. /\ UNCHANGED <<tenant, crossed, unsure, there>> /\ (stepCourses' = stepCourses \/ stepCourses' = {})
      /\ courses' = courses \/ (i.at = "pinned" /\ courses' = i.held)
  BY <1>1 DEF PinRead, PinWrite, Mark, Configure, Record, Made, Known, Call, CarriedOut, Write, At, platform, task, ghosts
<1>3. remade' = remade
  BY DEF PinRead, PinWrite, Mark, Configure, Record, Made, Known, Call, At, ghosts
<1>4. PICK j : /\ Becomes(p, j) /\ j.op = "create" /\ j.at \in Until /\ j.courses = i.courses
               /\ j.at = "pinned" => j.held = courses
               /\ j.at = "listing" => j.held = Coded(courses)
  <2>1. CASE PinRead(p)
    <3>1. PICK j : Becomes(p, j) /\ j = [i EXCEPT !.at = "pinned", !.held = courses]
      BY <1>1, <2>1 DEF PinRead
    <3>2. j.op = "create" /\ j.at = "pinned" /\ j.courses = i.courses /\ j.held = courses
      BY <1>1, <3>1 DEF Shaped, Formed
    <3>. QED BY <3>1, <3>2 DEF Until
  <2>2. CASE Known(p)
    <3>1. PICK h, j : Becomes(p, j) /\ j = [i EXCEPT !.at = "listing", !.held = h] /\ h = Coded(courses)
      BY <1>1, <2>2 DEF Known
    <3>2. j.op = "create" /\ j.at = "listing" /\ j.courses = i.courses /\ j.held = h
      BY <1>1, <3>1 DEF Shaped, Formed
    <3>. QED BY <3>1, <3>2 DEF Until
  <2>3. CASE Mark(p) \/ Configure(p) \/ Record(p)
    <3>1. PICK at, j : Becomes(p, j) /\ j = [i EXCEPT !.at = at] /\ at \in {"posting", "recording", "made"}
      BY <1>1, <2>3 DEF Mark, Configure, Record, Goes
    <3>2. j.op = "create" /\ j.at = at /\ j.courses = i.courses
      BY <1>1, <3>1 DEF Shaped, Formed
    <3>. QED BY <3>1, <3>2 DEF Until
  <2>4. CASE PinWrite(p)
    <3>1. PICK j : Becomes(p, j) /\ j = [i EXCEPT !.at = "marking", !.held = {}]
      BY <1>1, <2>4 DEF PinWrite
    <3>2. j.op = "create" /\ j.at = "marking" /\ j.courses = i.courses
      BY <1>1, <3>1 DEF Shaped, Formed
    <3>. QED BY <3>1, <3>2 DEF Until
  <2>5. CASE Made(p)
    <3>1. PICK j : /\ Becomes(p, j)
                   /\ j = IF i.kind = "formal"
                          THEN [i EXCEPT !.at = "marking", !.kind = "trial", !.of = i.id, !.id = NoSession]
                          ELSE [i EXCEPT !.at = "known", !.id = NoSession]
      BY <1>1, <2>5 DEF Made
    <3>2. j.op = "create" /\ j.at \in {"marking", "known"} /\ j.courses = i.courses
      BY <1>1, <3>1 DEF Shaped, Formed
    <3>. QED BY <3>1, <3>2 DEF Until
  <2>6. CASE Call(p) /\ At(p, "posting")
    <3>1. PICK n, j : Becomes(p, j) /\ j = [i EXCEPT !.at = "configuring", !.id = n]
      BY <1>1, <2>6 DEF Call, Onwards, At
    <3>2. j.op = "create" /\ j.at = "configuring" /\ j.courses = i.courses
      BY <1>1, <3>1 DEF Shaped, Formed
    <3>. QED BY <3>1, <3>2 DEF Until
  <2>. QED BY <2>1, <2>2, <2>3, <2>4, <2>5, <2>6
<1>. QED BY <1>1, <1>2, <1>3, <1>4, MakingMade

(* Requests that end, and leave no course unrecorded.                        *)
LEMMA EndingMade ==
    ASSUME Inv, MadeInv, NEW p \in Requests,
           \/ NumbersRunOut(p) \/ BindDone(p) \/ BindRefused(p) \/ SyncRefused(p) \/ TaskGone(p) \/ NotFound(p)
           \/ Refuse(p) \/ Log(p)
    PROVE  MadeInv'
<1>1. PICK i : i = job[p] /\ Shaped(i)
  BY JobIs
<1>2. /\ Becomes(p, NoJob) /\ UNCHANGED <<tenant, crossed, remade, courses, there>>
      /\ stepCourses' = stepCourses \/ stepCourses' = {}
  BY DEF NumbersRunOut, BindDone, BindRefused, SyncRefused, TaskGone, NotFound, Refuse, Log, StepFails, Ends, platform, task,
         ghosts
<1>3. Calm' => Calm
  <2>1. CASE Log(p)
    BY <1>1, <2>1 DEF Log, Calm, Shaped, Kinds
  <2>2. CASE ~Log(p)
    BY <2>2 DEF NumbersRunOut, BindDone, BindRefused, SyncRefused, TaskGone, NotFound, Refuse, ghosts, Calm
  <2>. QED BY <2>1, <2>2
<1>4. there /\ Calm => ~Amid(i) \/ ~Calm'
  <2>1. NumbersRunOut(p) => ~Calm'
    BY DEF NumbersRunOut, Calm
  <2>2. TaskGone(p) => ~there
    BY DEF TaskGone
  <2>3. CASE ~NumbersRunOut(p) /\ ~TaskGone(p)
    <3>1. i.at \in {"bound", "binding", "looking", "syncing", "personal", "entering", "clearing", "arranging", "detail",
                    "counting", "refusing", "logging"}
      BY <1>1, <2>3 DEF BindDone, BindRefused, SyncRefused, NotFound, Refuse, Log, Write, At
    <3>. QED BY <3>1 DEF Amid
  <2>. QED BY <2>1, <2>2, <2>3
<1>. QED BY <1>1, <1>2, <1>3, <1>4, NoneAside, UnmadeStep DEF Unmade

LEMMA BindMarkMade == ASSUME Inv, MadeInv, NEW p \in Requests, BindMark(p) PROVE MadeInv'
<1>1. PICK i : i = job[p] /\ Shaped(i) /\ i.at = "toBind" /\ i.op \in {"create", "bind"}
  BY JobIs, OpAt DEF BindMark, Write, At
<1>2. UNCHANGED <<tenant, crossed, remade, unsure, courses, stepCourses, there>>
  BY DEF BindMark, platform, ghosts
<1>3. PICK at, codes, j : Becomes(p, j) /\ j = [i EXCEPT !.at = at, !.todo = codes] /\ at \in {"bound", "binding"}
  BY <1>1 DEF BindMark
<1>4. j.op \in {"create", "bind"} /\ j.at \in {"bound", "binding"}
  BY <1>1, <1>3 DEF Shaped, Formed
<1>5. Unmade(j) /\ ~Amid(i)
  BY <1>1, <1>4 DEF Unmade, Amid
<1>. QED BY <1>1, <1>2, <1>3, <1>5, UnmadeStep DEF Calm

(* Requests that have nothing to do with courses.                            *)
LEMMA QuietlyMade ==
    ASSUME Inv, MadeInv, NEW p \in Requests,
           \/ ChangeLook(p) \/ ChangeRefused(p) \/ Detail(p) \/ ImportCount(p) \/ RoomsCount(p) \/ Visit(p) \/ ReadFails(p)
    PROVE  MadeInv'
<1>1. PICK i : i = job[p] /\ i.op \in {"change", "import", "rooms", "open"}
  <2>1. PICK i : i = job[p] /\ Shaped(i)
    BY JobIs
  <2>2. i.at \in {"putting", "detail", "reading", "counting", "visiting"} \/ (i.at = "looking" /\ i.op = "change")
    BY <2>1 DEF ChangeLook, ChangeRefused, Detail, ImportCount, RoomsCount, Visit, ReadFails, At, Doing
  <2>. QED BY <2>1, <2>2, OpAt
<1>2. PICK j : Becomes(p, j) /\ (j.op = i.op \/ j = NoJob) /\ UNCHANGED Apart
  BY <1>1, ChangeQuiet, ReadingQuiet, VisitQuiet, ReadFailsQuiet DEF Quiet, Shifted
<1>3. Unmade(j) /\ ~Amid(i)
  BY <1>1, <1>2, NoneAside DEF Aside, Unmade, Amid
<1>4. UNCHANGED <<tenant, courses, stepCourses, remade>> /\ (Calm' => Calm)
  BY DEF ChangeLook, ChangeRefused, Detail, ImportCount, RoomsCount, Visit, ReadFails, Unsettled, platform, task, ghosts, Calm
<1>. QED BY <1>1, <1>2, <1>3, <1>4, UnmadeStep DEF Apart

LEMMA SaveMade == ASSUME Inv, MadeInv, NEW p \in Requests, Save(p) \/ Refresh(p) PROVE MadeInv'
<1>1. PICK i : i = job[p] /\ Shaped(i) /\ i.op \in {"change", "import", "rooms", "open"}
  BY JobIs, OpAt DEF Save, Refresh, At
<1>2. UNCHANGED <<tenant, crossed, remade, unsure, courses, stepCourses, there>>
  BY DEF Save, Refresh, platform, ghosts
<1>3. PICK j : Becomes(p, j) /\ Aside(j)
  <2>1. CASE Save(p) /\ i.op # "change"
    BY <1>1, <2>1, NoneAside DEF Save, Ends
  <2>2. CASE Save(p) /\ i.op = "change"
    <3>1. PICK log, j : Becomes(p, j) /\ j = [i EXCEPT !.at = "logging", !.log = log]
      BY <1>1, <2>2 DEF Save
    <3>2. j.op = "change"
      BY <1>1, <2>2, <3>1 DEF Shaped, Formed
    <3>. QED BY <3>1, <3>2 DEF Aside
  <2>3. CASE Refresh(p)
    <3>1. PICK v : v = Visited(i)
      OBVIOUS
    <3>2. v.op = i.op /\ Formed(v)
      BY <1>1, <3>1 DEF Visited, Shaped, Formed
    <3>3. PICK rs, j : Becomes(p, j) /\ j = [v EXCEPT !.rows = rs]
      BY <1>1, <2>3, <3>1 DEF Refresh
    <3>4. j.op = i.op
      BY <3>2, <3>3 DEF Formed
    <3>. QED BY <1>1, <3>3, <3>4 DEF Aside
  <2>. QED BY <2>1, <2>2, <2>3
<1>4. Unmade(j) /\ ~Amid(i)
  BY <1>1, <1>3 DEF Unmade, Amid
<1>. QED BY <1>1, <1>2, <1>3, <1>4, UnmadeStep DEF Calm

(* Nothing is promised once the courses are unsure.                          *)
LEMMA DisturbedMade == ASSUME MadeInv, ~Calm' PROVE MadeInv'
BY DEF MadeInv

LEMMA CallFailsMade == ASSUME Inv, MadeInv, NEW p \in Requests, CallFails(p) PROVE MadeInv'
<1>. SUFFICES ASSUME Calm' PROVE MadeInv'
  BY DisturbedMade
<1>1. PICK i : i = job[p] /\ Shaped(i)
  BY JobIs
<1>2. unsure' = unsure \cup Touches(i) /\ UNCHANGED <<crossed, remade>>
  BY <1>1 DEF CallFails, Unsettled
<1>3. "courses" \notin Touches(i) /\ Calm
  BY <1>2 DEF Calm
<1>4. i.op \notin {"create", "bind", "course", "delete"}
  BY <1>1, <1>3, OnCourses
<1>5. tenant' = tenant
  BY <1>1, <1>4, OpAt DEF CallFails, CarriedOut, At, platform
<1>6. UNCHANGED task /\ (Becomes(p, NoJob) \/ (Goes(p, "refusing") /\ i.op = "change"))
  BY <1>1, <1>4, OpAt DEF CallFails, Broken, At, Doing, Ends
<1>7. PICK j : Becomes(p, j) /\ Aside(j)
  <2>1. CASE Becomes(p, NoJob)
    BY <2>1, NoneAside
  <2>2. CASE Goes(p, "refusing") /\ i.op = "change"
    <3>1. PICK j : Becomes(p, j) /\ j = [i EXCEPT !.at = "refusing"]
      BY <1>1, <2>2 DEF Goes
    <3>2. j.op = "change"
      BY <1>1, <2>2, <3>1 DEF Shaped, Formed
    <3>. QED BY <3>1, <3>2 DEF Aside
  <2>. QED BY <1>6, <2>1, <2>2
<1>8. ~Amid(i) /\ Unmade(j)
  BY <1>4, <1>7 DEF Amid, Unmade
<1>. QED BY <1>1, <1>2, <1>3, <1>5, <1>6, <1>7, <1>8, UnmadeStep DEF task

LEMMA AsideCallMade ==
    ASSUME Inv, MadeInv, NEW p \in Requests, Call(p), job[p].at \in OnSession \cup {"binding", "deleting"}
    PROVE  MadeInv'
<1>1. PICK i : i = job[p] /\ Shaped(i) /\ i.at \in OnSession \cup {"binding", "deleting"}
  BY JobIs
<1>2. UNCHANGED <<tenant, courses, stepCourses, crossed, unsure, there>>
  BY <1>1 DEF Call, CarriedOut, At, OnSession, task
<1>3. remade' = remade
  BY <1>1 DEF Call, At, OnSession
<1>4. PICK j : Becomes(p, j) /\ Unmade(j)
  <2>1. CASE i.at \in {"binding", "deleting"}
    <3>1. i.op \in {"create", "bind", "delete"} /\ (i.op = "delete" <=> i.at = "deleting")
      BY <1>1, <2>1, OpAt
    <3>2. PICK item, place, j : /\ Becomes(p, j) /\ j = Done(i, item, place)
                                /\ place = IF i.at = "binding" THEN "bound" ELSE "dropping"
      BY <1>1, <2>1 DEF Call, Onwards
    <3>3. j.op = i.op /\ j.at \in {i.at, place}
      BY <1>1, <3>2 DEF Shaped, Formed, Done
    <3>. QED BY <2>1, <3>1, <3>2, <3>3 DEF Unmade, Aside
  <2>2. CASE i.at \in OnSession
    <3>1. PICK j : Becomes(p, j) /\ j = Onwards(p)
      BY DEF Call
    <3>2. j.op = i.op
      BY <1>1, <2>2, <3>1, OnwardsIs DEF Calling, OnSession, Alike
    <3>3. i.op \in {"change", "import", "rooms"}
      BY <1>1, <2>2, OpAt DEF OnSession, Shaped, Steps
    <3>. QED BY <3>1, <3>2, <3>3 DEF Aside, Unmade
  <2>. QED BY <1>1, <2>1, <2>2
<1>5. ~Amid(i)
  BY <1>1 DEF Amid, OnSession
<1>. QED BY <1>1, <1>2, <1>3, <1>4, <1>5, UnmadeStep DEF Calm

LEMMA DropMade == ASSUME MadeInv, NEW p, Drop(p) PROVE MadeInv'
BY DEF Drop, ghosts, MadeInv, Calm

(* A step after which every request is where it was, or nobody is on courses.*)
LEMMA OthersMade ==
    ASSUME MadeInv, UNCHANGED <<courses, stepCourses, remade>>, there' => there, Calm' => Calm, Kin,
           "courses" \in crossed' => "courses" \in crossed \/ ~Calm',
           there' /\ Calm' /\ TenantOK => TenantOK',
           there' /\ Calm' => \A p \in Requests : (MadeOK(job[p]) => MadeOK(job'[p])) /\ (Amid(job[p]) => Amid(job'[p]))
    PROVE  MadeInv'
<1>1. ASSUME there', Calm' PROVE Settled'
  <2>1. Settled
    BY <1>1 DEF MadeInv
  <2>2. ASSUME NEW q \in Requests PROVE MadeOK(job[q])'
    <3>1. PICK o : o = job'[q]
      OBVIOUS
    <3>2. MadeOK(o)'
      BY <1>1, <2>1, <3>1, KinMade DEF Settled
    <3>. QED BY <3>1, <3>2, MadeAt
  <2>3. PICK cs, ss : cs = courses /\ ss = stepCourses
    OBVIOUS
  <2>4. Good(cs)' /\ Good(ss)' /\ ((\A q \in Requests : ~Amid(job'[q])) => Complete(cs)')
    BY <1>1, <2>1, <2>3, KinKept DEF Settled, CoursesOK
  <2>5. CoursesOK'
    BY <2>3, <2>4 DEF CoursesOK, Good, Proper, OfOne, Real, Complete, Amid
  <2>. QED BY <1>1, <2>1, <2>2, <2>5 DEF Settled
<1>. QED BY <1>1 DEF MadeInv

LEMMA OtherCourseMade ==
    ASSUME MadeInv, NEW exam \in 1..MaxExams, NEW number \in 1..MaxNumbers, OtherCourse(<<exam, number>>) PROVE MadeInv'
<1>1. PICK code, t : /\ code = <<exam, number>> /\ t = [name |-> Foreign, code |-> code, own |-> FALSE]
                     /\ tenant' = tenant \cup {t} /\ \A u \in tenant : u.code # code
  BY DEF OtherCourse, TenantCodes
<1>2. UNCHANGED <<task, job, ghosts>>
  BY DEF OtherCourse
<1>3. ~t.own /\ IsTenant(t) /\ IsTenant(t)' /\ t.code = code
  <2>1. Foreign[1] = 0 /\ Pair(Foreign) /\ Pair(code) /\ code[1] # 0
    BY <1>1, ProvisionAssumption DEF Foreign, First, Pair
  <2>. QED BY <1>1, <2>1 DEF IsTenant, Pair
<1>4. Kin
  BY <1>1, <1>3 DEF Kin, Ours
<1>5. ASSUME TenantOK PROVE TenantOK'
  <2>1. IsFiniteSet(tenant')
    BY <1>1, <1>5, FS_AddElement DEF TenantOK
  <2>2. \A u \in tenant' : IsTenant(u)'
    BY <1>1, <1>3, <1>5 DEF TenantOK, IsTenant, Pair
  <2>3. ASSUME NEW u \in tenant', NEW w \in tenant', u.code = w.code PROVE u = w
    <3>1. (u \in tenant \/ u = t) /\ (w \in tenant \/ w = t)
      BY <1>1
    <3>2. (u \in tenant => u.code # t.code) /\ (w \in tenant => w.code # t.code)
      BY <1>1, <1>3
    <3>3. u \in tenant /\ w \in tenant => u = w
      BY <1>5, <2>3 DEF TenantOK
    <3>. QED BY <2>3, <3>1, <3>2, <3>3
  <2>. QED BY <2>1, <2>2, <2>3 DEF TenantOK
<1>. QED BY <1>2, <1>4, <1>5, OthersMade DEF task, ghosts, Calm

LEMMA HandEditMade == ASSUME Inv, MadeInv, NEW s \in DOMAIN sessions, NEW v, HandEdit(s, v) PROVE MadeInv'
<1>1. UNCHANGED <<tenant, task, crossed, remade>> /\ unsure \subseteq unsure'
  BY DEF HandEdit
<1>2. ASSUME NEW p \in Requests PROVE (MadeOK(job[p]) => MadeOK(job'[p])) /\ (Amid(job[p]) => Amid(job'[p]))
  <2>1. PICK i, j : i = job[p] /\ Shaped(i) /\ j = job'[p] /\ j = [i EXCEPT !.alone = FALSE]
    BY JobIs DEF HandEdit
  <2>2. j.op = i.op /\ j.at = i.at /\ j.kind = i.kind /\ j.courses = i.courses /\ j.held = i.held /\ j.todo = i.todo
    BY <2>1 DEF Shaped, Formed
  <2>. QED BY <2>1, <2>2 DEF MadeOK, PlanOK, TakeOK, NamesOK, Amid
<1>. QED BY <1>1, <1>2, KinSame, OthersMade DEF task, Calm

LEMMA RestartMade == ASSUME Inv, MadeInv, Restart PROVE MadeInv'
<1>. SUFFICES ASSUME Calm' PROVE MadeInv'
  BY DisturbedMade
<1>1. UNCHANGED <<tenant, task, crossed, remade>> /\ job' = [p \in Requests |-> NoJob]
  BY DEF Restart, Unsettled, platform
<1>2. unsure' = unsure \cup UNION {Touches(job[p]) : p \in Requests}
  BY DEF Restart, Unsettled
<1>3. ASSUME NEW p \in Requests PROVE MadeOK(job'[p]) /\ ~Amid(job[p])
  <2>1. PICK i : i = job[p] /\ Shaped(i)
    BY JobIs
  <2>2. "courses" \notin Touches(i)
    BY <1>2, <2>1 DEF Calm
  <2>3. ~Amid(i)
    BY <2>1, <2>2, AsideIs, UnmadeOK DEF Unmade
  <2>. QED BY <1>1, <2>1, <2>3, NoneAside, UnmadeOK DEF Unmade
<1>. QED BY <1>1, <1>2, <1>3, KinSame, OthersMade DEF task, Calm

LEMMA SameMade == ASSUME MadeInv, UNCHANGED <<tenant, courses, stepCourses, there, job, crossed, unsure, remade>> PROVE MadeInv'
BY KinSame, OthersMade DEF Calm

-----------------------------------------------------------------------------
(* The courses of a creation are planned.                                    *)

(* The numbers left in a group are enough: each course gets its own.         *)
LEMMA FreeIs ==
    ASSUME NEW s, NEW taken
    PROVE  Free(s, taken) \in SUBSET (1..MaxNumbers) /\ IsFiniteSet(Free(s, taken)) /\ Cardinality(Free(s, taken)) \in Nat
<1>1. Free(s, taken) \in SUBSET (1..MaxNumbers)
  BY DEF Free
<1>2. IsFiniteSet(1..MaxNumbers)
  BY ProvisionAssumption, FS_Interval
<1>. QED BY <1>1, <1>2, FS_Subset, FS_CardinalityType

(* Courses that each have one of the names, and a code.                      *)
Coding(made, names) ==
    /\ IsFiniteSet(made)
    /\ \A m \in made : m = AsCourse(m) /\ Pair(m.code) /\ m.code[1] # 0 /\ m.name \in names
    /\ \A n \in names : \E m \in made : m.name = n
    /\ \A m, n \in made : m.name = n.name => m = n

LEMMA AllocatedIs ==
    ASSUME NEW pending, IsFiniteSet(pending), \A n \in pending : Pair(n), NEW s \in Nat \ {0}, NEW taken,
           Cardinality(Free(s, taken)) >= Cardinality(pending),
           NEW made, made = Allocated(pending, s, taken)
    PROVE  Coding(made, pending)
<1>. DEFINE f == [n \in pending |-> [name |-> n, code |-> <<s, Nth(Rank(n, pending), Free(s, taken))>>]]
<1>1. \A m \in made : \E n \in pending : m = f[n]
  BY DEF Allocated
<1>2. \A n \in pending : f[n] \in made
  BY DEF Allocated
<1>3. ASSUME NEW n \in pending PROVE f[n].name = n /\ f[n] = AsCourse(f[n]) /\ f[n].code[1] = s /\ Pair(f[n].code)
  <2>1. PICK F : F = Free(s, taken) /\ F \in SUBSET (1..MaxNumbers) /\ Cardinality(F) \in Nat
    BY FreeIs
  <2>. DEFINE B == {m \in pending : ComesBefore(m, n)}
  <2>2. Cardinality(B) \in Nat /\ Cardinality(B) < Cardinality(pending) /\ Cardinality(pending) \in Nat
    <3>1. B \in SUBSET (pending \ {n})
      BY DEF ComesBefore, Pair
    <3>2. IsFiniteSet(pending \ {n}) /\ Cardinality(pending \ {n}) = Cardinality(pending) - 1
      BY FS_RemoveElement
    <3>3. IsFiniteSet(B) /\ Cardinality(B) <= Cardinality(pending \ {n})
      <4>. HIDE DEF B
      <4>. QED BY <3>1, <3>2, FS_Subset
    <3>4. Cardinality(B) \in Nat /\ Cardinality(pending) \in Nat
      BY <3>3, FS_CardinalityType
    <3>. HIDE DEF B
    <3>. QED BY <3>2, <3>3, <3>4
  <2>3. PICK k : k = Rank(n, pending) /\ k \in Nat /\ 1 <= k /\ k <= Cardinality(F)
    <3>1. Rank(n, pending) = Cardinality(B) + 1
      BY DEF Rank
    <3>. HIDE DEF B
    <3>. QED BY <2>1, <2>2, <3>1
  <2>4. Nth(k, F) \in F
    BY <2>1, <2>3, NthIs, ProvisionAssumption
  <2>5. PICK i : i = Nth(k, F) /\ i \in Nat
    BY <2>1, <2>4
  <2>6. f[n] = [name |-> n, code |-> <<s, i>>]
    BY <2>1, <2>3, <2>5
  <2>. HIDE DEF f
  <2>. QED BY <2>5, <2>6 DEF AsCourse, Pair
<1>4. IsFiniteSet(made)
  <2>. HIDE DEF f
  <2>. QED BY <1>1, MappedFinite
<1>. HIDE DEF f
<1>. QED BY <1>1, <1>2, <1>3, <1>4 DEF Coding

(* The group is the project's own, or one from the first on.                 *)
LEMMA GroupIs ==
    ASSUME TenantOK, NEW verified, \A c \in verified : Pair(c.name) /\ OnTenant(c),
           NEW pending, IsFiniteSet(pending), NEW taken, NEW groups, groups = GroupsFor(pending, verified, taken), groups # {}
    PROVE  FirstOf(groups) \in Nat \ {0} /\ Cardinality(Free(FirstOf(groups), taken)) >= Cardinality(pending)
<1>1. Cardinality(pending) \in Nat
  BY FS_CardinalityType
<1>2. CASE verified # {}
  <2>. DEFINE names == {d.name : d \in verified}
  <2>1. Earliest(names) \in names
    <3>1. names # {} /\ \A x \in names : Pair(x)
      BY <1>2
    <3>. HIDE DEF names
    <3>. QED BY <3>1, EarliestIs
  <2>2. PICK c \in verified : Own(verified) = c.code[1]
    BY <2>1 DEF Own
  <2>3. c.code[1] \in Nat \ {0}
    BY DEF TenantOK, IsTenant, OnTenant, Pair
  <2>4. groups \in SUBSET Nat /\ \A g \in groups : g # 0 /\ Cardinality(Free(g, taken)) >= Cardinality(pending)
    BY <1>2, <2>2, <2>3 DEF GroupsFor
  <2>. QED BY <2>4, FirstIs
<1>3. CASE verified = {}
  <2>1. groups \in SUBSET Nat /\ \A g \in groups : g # 0 /\ 1..Cardinality(pending) \subseteq Free(g, taken)
    BY <1>3, ProvisionAssumption DEF GroupsFor
  <2>2. PICK g : g = FirstOf(groups) /\ g \in Nat \ {0} /\ 1..Cardinality(pending) \subseteq Free(g, taken)
    BY <2>1, FirstIs
  <2>3. Cardinality(1..Cardinality(pending)) = Cardinality(pending)
    BY <1>1, FS_Interval
  <2>4. Cardinality(1..Cardinality(pending)) <= Cardinality(Free(g, taken))
    BY <2>2, FreeIs, FS_Subset
  <2>5. Cardinality(Free(g, taken)) \in Nat
    BY FreeIs
  <2>. QED BY <1>1, <2>2, <2>3, <2>4, <2>5
<1>. QED BY <1>2, <1>3

(* The courses of the project that are there are taken again, by the codes   *)
(* on record, and each of the others gets one: no other course is made.      *)
Taking(cs, verified, pending) ==
    /\ verified = {c \in cs : c.code # NoCode /\ OnTenant(c)}
    /\ pending = {c.name : c \in cs} \ {c.name : c \in verified}

LEMMA PlanIs ==
    ASSUME TenantOK, NEW cs, Whole(cs), NEW verified, NEW pending, Taking(cs, verified, pending), NEW made, Coding(made, pending)
    PROVE  Planning(verified \cup made, pending)
<1>. DEFINE all == verified \cup made
<1>1. /\ IsFiniteSet(cs) /\ \A c \in cs : c = AsCourse(c) /\ Pair(c.name) /\ Pair(c.code) /\ HasIt(c)
      /\ OfOne(cs) /\ \A t \in Ours : AsCourse(t) \in cs
  BY DEF Whole, Good, Proper, Real, Complete
<1>2. verified \subseteq cs /\ \A c \in verified : c.name \notin pending
  BY DEF Taking
<1>3. \A n \in pending : \E c \in cs : n = c.name
  BY DEF Taking
<1>4. \A t \in Ours : AsCourse(t) \in verified /\ AsCourse(t).name = t.name
  <2>. SUFFICES ASSUME NEW t \in Ours PROVE AsCourse(t) \in verified /\ AsCourse(t).name = t.name
    OBVIOUS
  <2>1. t \in tenant /\ t.code[1] # 0
    BY DEF Ours, TenantOK, IsTenant
  <2>2. PICK c : c = AsCourse(t) /\ c.name = t.name /\ c.code = t.code
    <3>1. AsCourse(t).name = t.name /\ AsCourse(t).code = t.code
      BY DEF AsCourse
    <3>. QED BY <3>1
  <2>3. c \in cs /\ c.code # NoCode /\ OnTenant(c)
    BY <1>1, <2>1, <2>2 DEF NoCode, OnTenant
  <2>. QED BY <2>2, <2>3 DEF Taking
<1>. HIDE DEF all
<1>5. \A c \in all : c \in verified \/ c \in made
  BY DEF all
<1>6. Proper(all)
  <2>1. IsFiniteSet(verified)
    BY <1>1, <1>2, FS_Subset
  <2>2. IsFiniteSet(all)
    BY <2>1, FS_Union DEF all, Coding
  <2>3. ASSUME NEW c \in all PROVE c = AsCourse(c) /\ Pair(c.name) /\ Pair(c.code)
    BY <1>1, <1>2, <1>3, <1>5 DEF Coding
  <2>. QED BY <2>2, <2>3 DEF Proper
<1>7. OfOne(all)
  <2>. SUFFICES ASSUME NEW c \in all, NEW d \in all, c.name[1] = d.name[1], c.name[1] # 0 PROVE c = d
    BY DEF OfOne
  <2>1. PICK u \in cs : c.name = u.name /\ (c \in verified => c = u)
    BY <1>2, <1>3, <1>5 DEF Coding
  <2>2. PICK w \in cs : d.name = w.name /\ (d \in verified => d = w)
    BY <1>2, <1>3, <1>5 DEF Coding
  <2>3. u = w
    BY <1>1, <2>1, <2>2 DEF OfOne
  <2>4. c.name = d.name
    BY <2>1, <2>2, <2>3
  <2>. QED BY <1>2, <1>5, <2>1, <2>2, <2>3, <2>4 DEF Coding
<1>8. Complete(all)
  BY <1>4 DEF Complete, all
<1>9. \A c \in all : IF c.name \in pending THEN c.code[1] # 0 ELSE HasIt(c)
  BY <1>1, <1>2, <1>5 DEF Coding
<1>10. \A n \in pending : \E c \in all : c.name = n
  BY DEF all, Coding
<1>11. \A t \in Ours : t.name \notin pending
  BY <1>2, <1>4
<1>12. Planning(all, pending)
  BY <1>6, <1>7, <1>8, <1>9, <1>10, <1>11 DEF Planning
<1>. QED BY <1>12 DEF all

LEMMA PlannedWhole == ASSUME NEW cs, Planning(cs, {}) PROVE Whole(cs)
BY DEF Planning, Whole, Good, Real

(* While a request works on the courses, the record lags behind only for it. *)
LEMMA CompleteNow ==
    ASSUME Inv, MadeInv, there, Calm, NEW p \in Requests, "courses" \in Touches(job[p]), ~Amid(job[p])
    PROVE  Complete(courses)
<1>1. Settled /\ "courses" \notin crossed
  BY DEF MadeInv
<1>2. ASSUME NEW q \in Requests, q # p PROVE ~Amid(job[q])
  <2>1. PICK o : o = job[q] /\ Shaped(o)
    BY JobIs
  <2>2. "courses" \notin Touches(o)
    BY <1>1, <1>2, <2>1 DEF Inv, Sole
  <2>. QED BY <2>1, <2>2, AsideIs, UnmadeOK DEF Unmade
<1>. QED BY <1>1, <1>2 DEF Settled, CoursesOK

LEMMA PlannedMade ==
    ASSUME Inv, MadeInv, NEW p \in Requests, job[p].at = "listing", NEW listed, Planned(p, listed),
           UNCHANGED <<tenant, crossed, remade, unsure>>
    PROVE  MadeInv'
<1>1. PICK i : i = job[p] /\ Shaped(i) /\ i.at = "listing" /\ i.op = "create" /\ ~Amid(i)
  BY JobIs, OpAt DEF Amid
<1>2. CASE StepFails(p)
  <2>1. Becomes(p, NoJob) /\ UNCHANGED <<there, courses>> /\ (stepCourses' = stepCourses \/ stepCourses' = {})
    BY <1>2 DEF StepFails, Ends
  <2>. QED BY <1>1, <2>1, NoneAside, UnmadeStep DEF Unmade, Calm
<1>3. CASE ~StepFails(p)
  <2>. DEFINE codes == {t.code : t \in listed}
              verified == Verified(job[p])
              requested == {c.name : c \in job[p].courses}
              reused == {c \in verified : c.name \in requested}
              kept == {c \in job[p].courses : /\ c.code \in codes /\ OnTenant(c)
                                              /\ c.name \notin {d.name : d \in reused}}
              pending == requested \ {c.name : c \in reused \cup kept}
              taken == codes \cup {c.code : c \in verified}
              groups == GroupsFor(pending, verified, taken)
              Turned(at, made) ==
                  Becomes(p, [job[p] EXCEPT !.at = at, !.held = {}, !.todo = pending, !.courses = reused \cup kept \cup made])
  <2>1. /\ UNCHANGED task
        /\ \/ pending = {} /\ Turned("persisting", {})
           \/ pending # {} /\ groups # {} /\ Turned("creating", Allocated(pending, FirstOf(groups), taken))
    BY <1>3, Zenon DEF Planned
  <2>. HIDE DEF codes, verified, requested, reused, kept, pending, taken, groups
  <2>2. PICK at, made : /\ UNCHANGED task
                        /\ Becomes(p, [i EXCEPT !.at = at, !.held = {}, !.todo = pending, !.courses = reused \cup kept \cup made])
                        /\ \/ at = "persisting" /\ pending = {} /\ made = {}
                           \/ at = "creating" /\ pending # {} /\ groups # {} /\ made = Allocated(pending, FirstOf(groups), taken)
    BY <1>1, <2>1
  <2>3. PICK all, j : all = reused \cup kept \cup made /\ Becomes(p, j) /\ j = [i EXCEPT !.at = at, !.held = {}, !.todo = pending, !.courses = all]
    BY <2>2
  <2>4. j.op = "create" /\ j.at = at /\ j.todo = pending /\ j.courses = all
    BY <1>1, <2>3 DEF Shaped, Formed
  <2>5. ASSUME there, Calm, Settled PROVE MadeOK(j)
    <3>1. TenantOK /\ Good(courses) /\ Complete(courses) /\ i.courses = courses /\ i.held = Coded(courses)
      <4>1. MadeOK(i)
        BY <1>1, <2>5 DEF Settled
      <4>2. "courses" \in Touches(i)
        BY <1>1, OnCourses
      <4>. QED BY <1>1, <2>5, <4>1, <4>2, CompleteNow DEF Settled, CoursesOK, MadeOK, PlanOK, Until
    <3>2. verified = {c \in courses : c.code # NoCode /\ OnTenant(c)}
      BY <1>1, <3>1 DEF verified, Verified, Coded
    <3>3. \A c \in courses : OnTenant(c) => c.code # NoCode
      BY <3>1 DEF TenantOK, IsTenant, OnTenant, NoCode
    <3>4. requested = {c.name : c \in courses}
      BY <1>1, <3>1 DEF requested
    <3>5. reused = verified
      BY <3>2, <3>4 DEF reused
    <3>6. kept = {}
      BY <1>1, <3>1, <3>2, <3>3, <3>5 DEF kept
    <3>7. Taking(courses, verified, pending) /\ all = verified \cup made
      BY <2>3, <3>2, <3>4, <3>5, <3>6 DEF pending, Taking
    <3>8. Coding(made, pending)
      <4>1. IsFiniteSet(courses) /\ \A c \in courses : Pair(c.name)
        BY <3>1 DEF Good, Proper
      <4>2. PICK f : f = [c \in courses |-> c.name]
        OBVIOUS
      <4>3. \A n \in pending : \E c \in courses : n = f[c] /\ n = c.name
        BY <3>7, <4>2 DEF Taking
      <4>4. IsFiniteSet(pending) /\ \A n \in pending : Pair(n)
        BY <4>1, <4>3, MappedFinite
      <4>5. CASE made = {} /\ pending = {}
        BY <4>5, FS_EmptySet DEF Coding
      <4>6. CASE groups # {} /\ made = Allocated(pending, FirstOf(groups), taken)
        <5>1. \A c \in verified : Pair(c.name) /\ OnTenant(c)
          BY <3>2, <4>1
        <5>2. groups = GroupsFor(pending, verified, taken)
          BY DEF groups
        <5>3. PICK s : s = FirstOf(groups)
          OBVIOUS
        <5>4. s \in Nat \ {0} /\ Cardinality(Free(s, taken)) >= Cardinality(pending)
          BY <3>1, <4>4, <4>6, <5>1, <5>2, <5>3, GroupIs
        <5>. QED BY <4>4, <4>6, <5>3, <5>4, AllocatedIs
      <4>. QED BY <2>2, <4>5, <4>6
    <3>9. Planning(all, pending)
      <4>1. PICK cs : cs = courses
        OBVIOUS
      <4>2. Planning(verified \cup made, pending)
        BY <3>1, <3>7, <3>8, <4>1, PlanIs DEF Whole
      <4>. QED BY <3>7, <4>2
    <3>10. at = "persisting" => Whole(all)
      BY <2>2, <3>9, PlannedWhole
    <3>11. at \in {"creating", "persisting"} /\ (at = "creating" => pending # {})
      BY <2>2
    <3>. QED BY <2>4, <3>9, <3>10, <3>11 DEF MadeOK, PlanOK, TakeOK, NamesOK, Until
  <2>6. there' = there /\ stepCourses' = stepCourses /\ courses' = courses
    BY <2>2 DEF task
  <2>. QED BY <1>1, <2>3, <2>5, <2>6, StillMade DEF Calm
<1>. QED BY <1>2, <1>3

LEMMA ListMade == ASSUME Inv, MadeInv, NEW p \in Requests, List(p) \/ ListFails(p) PROVE MadeInv'
BY PlannedMade DEF List, ListFails, At, platform, ghosts

-----------------------------------------------------------------------------
(* Courses are created, recorded and renamed.                                *)

(* Who works undisturbed on the courses has a task to record them in.        *)
LEMMA SettledNow == ASSUME Inv, MadeInv, NEW p \in Requests, "courses" \in Touches(job[p]), Calm PROVE there /\ Settled
BY DEF Inv, Gone, MadeInv

LEMMA GoodGrows ==
    ASSUME tenant \subseteq tenant', NEW cs PROVE (\A c : HasIt(c) => HasIt(c)') /\ (Good(cs) => Good(cs)')
<1>1. \A c : HasIt(c) => HasIt(c)'
  BY DEF HasIt
<1>. QED BY <1>1 DEF Good, Proper, OfOne, Real, AsCourse, Pair

LEMMA PersistMade == ASSUME Inv, MadeInv, NEW p \in Requests, Persist(p) PROVE MadeInv'
<1>1. PICK i : i = job[p] /\ Shaped(i) /\ i.at = "persisting" /\ i.op = "create"
  BY JobIs, OpAt DEF Persist, Write, At
<1>2. PICK cs : cs = i.courses /\ courses' = cs
  BY <1>1 DEF Persist
<1>3. UNCHANGED <<tenant, crossed, remade, unsure, stepCourses, there>>
  BY DEF Persist, platform, ghosts
<1>4. PICK j : Becomes(p, j) /\ j = [i EXCEPT !.at = "created"]
  BY <1>1 DEF Persist, Goes
<1>5. j.op = "create" /\ j.at = "created" /\ j.courses = cs
  BY <1>1, <1>2, <1>4 DEF Shaped, Formed
<1>6. "courses" \in Touches(i)
  BY <1>1, OnCourses
<1>7. ASSUME there, Calm PROVE TenantOK' /\ MadeOK(j)' /\ Good(courses)' /\ Good(stepCourses)' /\ Complete(courses)'
  <2>1. Settled /\ Kin /\ TenantOK'
    BY <1>3, <1>7, KinSame DEF MadeInv, Settled
  <2>2. PICK ss : ss = stepCourses
    OBVIOUS
  <2>3. Whole(cs) /\ Good(ss)
    BY <1>1, <1>2, <2>1, <2>2 DEF Settled, MadeOK, PlanOK, CoursesOK
  <2>4. Whole(cs)' /\ Good(ss)'
    BY <2>1, <2>3, KinKept
  <2>5. Good(courses)' /\ Complete(courses)' /\ Good(stepCourses)'
    BY <1>2, <1>3, <2>2, <2>4 DEF Whole, Good, Proper, OfOne, Real, Complete
  <2>. QED BY <1>2, <1>5, <2>1, <2>5 DEF MadeOK, PlanOK, TakeOK, NamesOK
<1>. QED BY <1>1, <1>3, <1>4, <1>6, <1>7, MadeStep DEF Calm

LEMMA CoursesDoneMade == ASSUME Inv, MadeInv, NEW p \in Requests, CoursesDone(p) PROVE MadeInv'
<1>1. PICK i : i = job[p] /\ Shaped(i) /\ i.at = "created" /\ i.op = "create" /\ ~Amid(i)
  BY JobIs, OpAt DEF CoursesDone, Write, At, Amid
<1>2. PICK cs : cs = i.courses /\ stepCourses' = cs
  BY <1>1 DEF CoursesDone
<1>3. UNCHANGED <<tenant, crossed, remade, unsure, courses, there>>
  BY DEF CoursesDone, platform, ghosts
<1>4. PICK j : Becomes(p, j) /\ j = [i EXCEPT !.at = "toBind"]
  BY <1>1 DEF CoursesDone, Goes
<1>5. j.op = "create" /\ j.at = "toBind"
  BY <1>1, <1>4 DEF Shaped, Formed
<1>6. MadeOK(j)'
  BY <1>5, UnmadeOK DEF Unmade
<1>7. ASSUME there, Calm PROVE TenantOK' /\ Kin /\ Good(courses)' /\ Good(stepCourses)'
  <2>1. Settled /\ Kin /\ TenantOK'
    BY <1>3, <1>7, KinSame DEF MadeInv, Settled
  <2>2. Good(cs) /\ courses' = cs
    BY <1>1, <1>2, <1>3, <2>1 DEF Settled, MadeOK, PlanOK, CoursesOK
  <2>3. Good(cs)'
    BY <2>1, <2>2, KinKept
  <2>4. Good(courses)' /\ Good(stepCourses)'
    BY <1>2, <2>2, <2>3 DEF Good, Proper, OfOne, Real
  <2>. QED BY <2>1, <2>4
<1>. QED BY <1>1, <1>3, <1>4, <1>6, <1>7, MadeStep DEF Calm

(* A course gets a code that no course of the platform has.                  *)
LEMMA CreatedIs ==
    ASSUME NEW i, Proper(i.courses), \A c \in i.courses : c.name \in i.todo => c.code[1] # 0,
           \A n \in i.todo : \E c \in i.courses : c.name = n, i.todo # {}, NextSerials(Turn(i).code) # {},
           NEW e, e = Earliest(i.todo), NEW c, c = Creating(i)
    PROVE  /\ e \in i.todo /\ c = AsCourse(c) /\ Pair(c.code) /\ c.code[1] # 0 /\ c.code \notin TenantCodes /\ c.name = e
           /\ Pair(e) /\ \E d \in i.courses : d.name = e
<1>1. \A n \in i.todo : Pair(n)
  BY DEF Proper
<1>2. e \in i.todo /\ Pair(e)
  BY <1>1, EarliestIs
<1>3. PICK d : d = Turn(i) /\ d \in i.courses /\ d.name = e
  BY <1>2 DEF Turn
<1>4. PICK a, b : d = [name |-> e, code |-> <<a, b>>] /\ a \in Nat \ {0} /\ b \in Nat
  <2>1. d = AsCourse(d) /\ Pair(d.code) /\ d.code[1] # 0
    BY <1>2, <1>3 DEF Proper
  <2>. QED BY <1>3, <2>1 DEF AsCourse, Pair
<1>5. PICK free : free = NextSerials(<<a, b>>) /\ free \in SUBSET Nat /\ free # {} /\ \A s \in free : s >= a /\ <<s, b>> \notin TenantCodes
  <2>1. PICK x : x = Turn(i).code /\ x[1] = a /\ x[2] = b /\ x = <<a, b>>
    BY <1>3, <1>4
  <2>2. NextSerials(x) = {s \in a..MaxExams : <<s, b>> \notin TenantCodes}
    BY <2>1 DEF NextSerials
  <2>3. PICK free : free = NextSerials(x) /\ free # {}
    BY <2>1
  <2>4. free \in SUBSET Nat /\ \A s \in free : s >= a /\ <<s, b>> \notin TenantCodes
    BY <1>4, <2>2, <2>3, ProvisionAssumption
  <2>. QED BY <2>1, <2>3, <2>4
<1>6. PICK s : s = FirstOf(free) /\ s \in Nat /\ s >= a /\ <<s, b>> \notin TenantCodes
  BY <1>5, FirstIs
<1>7. c = [name |-> e, code |-> <<s, b>>]
  BY <1>3, <1>4, <1>5, <1>6 DEF Creating
<1>. QED BY <1>2, <1>3, <1>4, <1>6, <1>7 DEF AsCourse, Pair

NewCourse(c) == [name |-> c.name, code |-> c.code, own |-> TRUE]
Recoded(cs, c) == {IF d.name = c.name THEN c ELSE d : d \in cs}

LEMMA CreatedOne ==
    ASSUME TenantOK, NEW cs, NEW todo, Planning(cs, todo), NEW e \in todo, Pair(e),
           NEW c, c = AsCourse(c), Pair(c.code), c.code[1] # 0, c.code \notin TenantCodes, c.name = e,
           tenant' = tenant \cup {NewCourse(c)}
    PROVE  TenantOK' /\ Planning(Recoded(cs, c), todo \ {e})'
<1>. DEFINE t == NewCourse(c)
<1>0. PICK after : after = Recoded(cs, c)
  OBVIOUS
<1>1. tenant' = tenant \cup {t} /\ t.name = e /\ t.code = c.code /\ t.own /\ IsTenant(t)
  BY DEF NewCourse, IsTenant, Pair
<1>. HIDE DEF t
<1>2. Ours' = Ours \cup {t}
  BY <1>1 DEF Ours
<1>3. TenantOK'
  <2>1. IsFiniteSet(tenant')
    BY <1>1, FS_AddElement DEF TenantOK
  <2>2. \A u \in tenant' : IsTenant(u)'
    BY <1>1 DEF TenantOK, IsTenant, Pair
  <2>3. ASSUME NEW u \in tenant', NEW w \in tenant', u.code = w.code PROVE u = w
    <3>1. (u \in tenant \/ u = t) /\ (w \in tenant \/ w = t)
      BY <1>1
    <3>2. (u \in tenant => u.code # t.code) /\ (w \in tenant => w.code # t.code)
      BY <1>1 DEF TenantCodes
    <3>3. u \in tenant /\ w \in tenant => u = w
      BY <2>3 DEF TenantOK
    <3>. QED BY <2>3, <3>1, <3>2, <3>3
  <2>. QED BY <2>1, <2>2, <2>3 DEF TenantOK
<1>4. /\ IsFiniteSet(cs) /\ \A d \in cs : d = AsCourse(d) /\ Pair(d.name) /\ Pair(d.code)
      /\ OfOne(cs) /\ \A u \in Ours : AsCourse(u) \in cs /\ u.name \notin todo
      /\ \A d \in cs : IF d.name \in todo THEN d.code[1] # 0 ELSE HasIt(d)
      /\ \A n \in todo : \E d \in cs : d.name = n
  BY DEF Planning, Proper, Complete
<1>5. /\ \A u \in after : \E d \in cs : u = IF d.name = e THEN c ELSE d
      /\ \A d \in cs : d.name # e => d \in after
      /\ c \in after
  BY <1>0, <1>4 DEF Recoded
<1>6. Proper(after)'
  <2>1. PICK f : f = [d \in cs |-> IF d.name = e THEN c ELSE d]
    OBVIOUS
  <2>2. \A u \in after : \E d \in cs : u = f[d]
    BY <1>5, <2>1
  <2>3. IsFiniteSet(after)
    <3>1. IsFiniteSet(cs)
      BY <1>4
    <3>. QED BY ONLY <2>2, <3>1, MappedFinite
  <2>4. \A u \in after : u = AsCourse(u) /\ Pair(u.name) /\ Pair(u.code)
    BY <1>4, <1>5
  <2>. QED BY <2>3, <2>4 DEF Proper, AsCourse, Pair
<1>7. OfOne(after)
  <2>. SUFFICES ASSUME NEW u \in after, NEW w \in after, u.name[1] = w.name[1], u.name[1] # 0 PROVE u = w
    BY DEF OfOne
  <2>1. PICK x \in cs : u.name = x.name /\ u = IF x.name = e THEN c ELSE x
    BY <1>5
  <2>2. PICK y \in cs : w.name = y.name /\ w = IF y.name = e THEN c ELSE y
    BY <1>5
  <2>3. x = y
    BY <1>4, <2>1, <2>2 DEF OfOne
  <2>. QED BY <2>1, <2>2, <2>3
<1>8. \A u \in Ours : AsCourse(u) \in after
  <2>. SUFFICES ASSUME NEW u \in Ours PROVE AsCourse(u) \in after
    OBVIOUS
  <2>1. PICK d : d = AsCourse(u) /\ d.name = u.name
    <3>1. AsCourse(u).name = u.name
      BY DEF AsCourse
    <3>. QED BY <3>1
  <2>2. d \in cs /\ d.name # e
    BY <1>4, <2>1
  <2>. QED BY <1>5, <2>1, <2>2
<1>9. AsCourse(t) = c
  BY <1>1 DEF AsCourse
<1>10. Complete(after)'
  BY <1>2, <1>5, <1>8, <1>9 DEF Complete, AsCourse
<1>11. \A u \in after : IF u.name \in todo \ {e} THEN u.code[1] # 0 ELSE HasIt(u)'
  <2>. SUFFICES ASSUME NEW u \in after PROVE IF u.name \in todo \ {e} THEN u.code[1] # 0 ELSE HasIt(u)'
    OBVIOUS
  <2>1. PICK x \in cs : u = IF x.name = e THEN c ELSE x
    BY <1>5
  <2>2. CASE x.name = e
    <3>1. u = c
      BY <2>1, <2>2
    <3>2. HasIt(u)'
      BY <1>1, <3>1 DEF HasIt
    <3>. QED BY <3>1, <3>2
  <2>3. CASE x.name # e
    <3>1. u = x /\ (HasIt(u) => HasIt(u)')
      BY <2>1, <2>3, GoodGrows
    <3>. QED BY <1>4, <2>3, <3>1
  <2>. QED BY <2>2, <2>3
<1>12. \A n \in todo \ {e} : \E u \in after : u.name = n
  BY <1>4, <1>5
<1>13. \A u \in Ours' : u.name \notin todo \ {e}
  BY <1>1, <1>2, <1>4
<1>14. OfOne(after)'
  BY <1>7 DEF OfOne
<1>15. Planning(after, todo \ {e})'
  BY <1>6, <1>10, <1>11, <1>12, <1>13, <1>14 DEF Planning
<1>. QED BY <1>0, <1>3, <1>15

LEMMA PlannedNext == ASSUME NEW cs, Planning(cs, {})' PROVE Whole(cs)'
BY DEF Planning, Whole, Good, Proper, OfOne, Real, Complete

LEMMA CreatingMade == ASSUME Inv, MadeInv, NEW p \in Requests, Call(p), At(p, "creating") PROVE MadeInv'
<1>. SUFFICES ASSUME Calm PROVE MadeInv'
  BY DisturbedMade DEF Call, Calm
<1>1. PICK i : i = job[p] /\ Shaped(i) /\ i.at = "creating" /\ i.op = "create"
  BY JobIs, OpAt DEF At
<1>2. "courses" \in Touches(i)
  BY <1>1, OnCourses
<1>3. there /\ Settled
  BY <1>1, <1>2, SettledNow
<1>4. PICK cs, todo, e, c : cs = i.courses /\ todo = i.todo /\ e = Earliest(todo) /\ c = Creating(i)
  OBVIOUS
<1>5. TenantOK /\ CoursesOK /\ todo # {} /\ Planning(cs, todo)
  BY <1>1, <1>3, <1>4 DEF Settled, MadeOK, PlanOK
<1>6. /\ e \in todo /\ c = AsCourse(c) /\ Pair(c.code) /\ c.code[1] # 0 /\ c.code \notin TenantCodes /\ c.name = e
      /\ Pair(e) /\ \E d \in cs : d.name = e
  <2>1. NextSerials(Turn(i).code) # {}
    BY <1>1 DEF Call, Reached, At, OnSession
  <2>2. Proper(cs) /\ (\A d \in cs : d.name \in todo => d.code[1] # 0) /\ \A n \in todo : \E d \in cs : d.name = n
    BY <1>5 DEF Planning
  <2>. QED BY <1>4, <1>5, <2>1, <2>2, CreatedIs
<1>7. tenant' = tenant \cup {NewCourse(c)}
  BY <1>1, <1>4 DEF Call, CarriedOut, At, NewCourse
<1>8. PICK after : after = Recoded(cs, c)
  OBVIOUS
<1>9. TenantOK' /\ Planning(after, todo \ {e})'
  <2>1. TenantOK /\ Planning(cs, todo) /\ e \in todo /\ Pair(e)
    BY <1>5, <1>6
  <2>2. c = AsCourse(c) /\ Pair(c.code) /\ c.code[1] # 0 /\ c.code \notin TenantCodes /\ c.name = e
    BY <1>6
  <2>. QED BY ONLY <2>1, <2>2, <1>7, <1>8, CreatedOne
<1>10. remade' = remade
  <2>1. ASSUME NEW u \in tenant, u.own, u.name[1] = e[1], e[1] # 0 PROVE FALSE
    <3>1. PICK a : a = AsCourse(u) /\ a.name = u.name
      <4>1. AsCourse(u).name = u.name
        BY DEF AsCourse
      <4>. QED BY <4>1
    <3>2. a \in cs /\ u.name \notin todo
      BY <1>5, <2>1, <3>1 DEF Planning, Complete, Ours
    <3>3. PICK d \in cs : d.name = e
      BY <1>6
    <3>4. a = d
      BY <1>5, <2>1, <3>1, <3>2, <3>3 DEF Planning, OfOne
    <3>. QED BY <1>6, <3>1, <3>2, <3>3, <3>4
  <2>2. \A k \in 1..Subjects : ~(k = e[1] /\ \E u \in tenant : u.own /\ u.name[1] = k)
    BY <2>1, ProvisionAssumption
  <2>3. remade' = remade \cup {k \in 1..Subjects : k = c.name[1] /\ \E u \in tenant : u.own /\ u.name[1] = k}
    BY <1>1, <1>4 DEF Call, At
  <2>. QED BY <1>6, <2>2, <2>3
<1>11. PICK k : k = Done(i, e, "persisting") /\ Becomes(p, [k EXCEPT !.courses = {IF d.name = c.name THEN c ELSE d : d \in @}])
  BY <1>1, <1>4, <1>6 DEF Call, Onwards, CreatedAs
<1>12. PICK rest, at : /\ k = [i EXCEPT !.todo = rest, !.at = at] /\ rest = todo \ {e}
                       /\ at = IF todo = {e} THEN "persisting" ELSE "creating"
  BY <1>1, <1>4, <1>11 DEF Done
<1>13. Formed(k) /\ k.op = "create" /\ k.at = at /\ k.todo = rest /\ k.courses = cs
  BY <1>1, <1>4, <1>12 DEF Shaped, Formed
<1>14. PICK j : Becomes(p, j) /\ j = [k EXCEPT !.courses = after]
  BY <1>8, <1>11, <1>13 DEF Recoded
<1>15. j.op = "create" /\ j.at = at /\ j.todo = rest /\ j.courses = after
  BY <1>13, <1>14 DEF Formed
<1>16. Amid(j) /\ MadeOK(j)'
  <2>1. at = "persisting" => Whole(after)'
    BY <1>6, <1>9, <1>12, PlannedNext
  <2>2. at \in {"creating", "persisting"} /\ (at = "creating" => rest # {})
    BY <1>6, <1>12
  <2>. QED BY <1>9, <1>12, <1>15, <2>1, <2>2 DEF Amid, MadeOK, PlanOK, TakeOK, NamesOK, Until
<1>17. UNCHANGED <<courses, stepCourses, there, crossed, unsure>>
  BY DEF Call, task
<1>18. Good(courses)' /\ Good(stepCourses)'
  <2>1. PICK c1, c2 : c1 = courses /\ c2 = stepCourses
    OBVIOUS
  <2>2. Good(c1)' /\ Good(c2)'
    BY <1>5, <1>7, <2>1, GoodGrows DEF CoursesOK
  <2>. QED BY <1>17, <2>1, <2>2 DEF Good, Proper, OfOne, Real
<1>. QED BY <1>1, <1>2, <1>9, <1>10, <1>14, <1>16, <1>17, <1>18, MadeStep DEF Calm

(* A course of the platform gets another name, and is still the same.        *)
Turned(f, e, r) ==
    /\ (\A t \in tenant : f[t] \in tenant') /\ \A u \in tenant' : \E t \in tenant : u = f[t]
    /\ \A t \in tenant : /\ f[t] = [name |-> f[t].name, code |-> f[t].code, own |-> f[t].own]
                         /\ f[t].name = (IF t.code = e THEN r.name ELSE t.name)
                         /\ f[t].code = t.code /\ f[t].own = t.own

LEMMA TurnedIs ==
    ASSUME TenantOK, NEW e, NEW r, tenant' = {[t EXCEPT !.name = IF t.code = e THEN r.name ELSE @] : t \in tenant}
    PROVE  \E f : Turned(f, e, r)
<1>1. PICK f : f = [t \in tenant |-> [t EXCEPT !.name = IF t.code = e THEN r.name ELSE @]]
  OBVIOUS
<1>2. (\A t \in tenant : f[t] \in tenant') /\ \A u \in tenant' : \E t \in tenant : u = f[t]
  BY <1>1
<1>3. ASSUME NEW t \in tenant
      PROVE  /\ f[t] = [name |-> f[t].name, code |-> f[t].code, own |-> f[t].own]
             /\ f[t].name = (IF t.code = e THEN r.name ELSE t.name)
             /\ f[t].code = t.code /\ f[t].own = t.own
  <2>1. t = [name |-> t.name, code |-> t.code, own |-> t.own]
    BY DEF TenantOK, IsTenant
  <2>2. f[t] = [t EXCEPT !.name = IF t.code = e THEN r.name ELSE @]
    BY <1>1
  <2>3. f[t] = [name |-> IF t.code = e THEN r.name ELSE t.name, code |-> t.code, own |-> t.own]
    BY <2>1, <2>2
  <2>. QED BY <2>1, <2>3
<1>. QED BY ONLY <1>2, <1>3 DEF Turned

LEMMA RenamedOne ==
    ASSUME TenantOK, NEW f, NEW e, NEW r, Turned(f, e, r), r = AsCourse(r), Pair(r.name), HasIt(r), r.code = e
    PROVE  /\ TenantOK' /\ \A c : HasIt(c) => HasIt(c)'
           /\ \A u \in Ours' : \E t \in Ours : u.code = t.code /\ AsCourse(u) = IF t.code = e THEN r ELSE AsCourse(t)
<1>1. (\A t \in tenant : f[t] \in tenant') /\ \A u \in tenant' : \E t \in tenant : u = f[t]
  BY DEF Turned
<1>2. ASSUME NEW t \in tenant
      PROVE  /\ f[t] = [name |-> f[t].name, code |-> f[t].code, own |-> f[t].own]
             /\ f[t].name = (IF t.code = e THEN r.name ELSE t.name)
             /\ f[t].code = t.code /\ f[t].own = t.own /\ IsTenant(t)
  BY DEF Turned, TenantOK
<1>3. \A t, u \in tenant : t.code = u.code => t = u
  BY DEF TenantOK
<1>4. \A t \in tenant : IsTenant(f[t])
  <2>. SUFFICES ASSUME NEW t \in tenant PROVE IsTenant(f[t])
    OBVIOUS
  <2>1. PICK u : u = f[t]
    OBVIOUS
  <2>2. u = [name |-> u.name, code |-> u.code, own |-> u.own] /\ u.code = t.code /\ u.own = t.own /\ IsTenant(t)
    BY <1>2, <2>1
  <2>3. Pair(u.name) /\ (t.own \/ u.name[1] = 0)
    <3>1. CASE t.code = e
      <4>1. PICK w \in tenant : w.code = e /\ (w.own \/ r.name[1] = 0)
        <5>1. e # NoCode
          BY <2>2, <3>1 DEF IsTenant, NoCode
        <5>. QED BY <5>1 DEF HasIt
      <4>2. w = t
        BY <1>3, <3>1, <4>1
      <4>3. u.name = r.name
        BY <1>2, <2>1, <3>1
      <4>. QED BY <4>1, <4>2, <4>3
    <3>2. CASE t.code # e
      <4>1. u.name = t.name
        BY <1>2, <2>1, <3>2
      <4>. QED BY <2>2, <4>1 DEF IsTenant
    <3>. QED BY <3>1, <3>2
  <2>. QED BY <2>1, <2>2, <2>3 DEF IsTenant
<1>5. TenantOK'
  <2>1. IsFiniteSet(tenant')
    <3>1. IsFiniteSet(tenant)
      BY DEF TenantOK
    <3>. QED BY ONLY <1>1, <3>1, MappedFinite
  <2>2. \A u \in tenant' : IsTenant(u)
    BY <1>1, <1>4
  <2>3. ASSUME NEW u \in tenant', NEW w \in tenant', u.code = w.code PROVE u = w
    <3>1. PICK x \in tenant, y \in tenant : u = f[x] /\ w = f[y]
      BY <1>1
    <3>2. x.code = y.code
      BY <1>2, <2>3, <3>1
    <3>. QED BY <1>3, <3>1, <3>2
  <2>. QED BY <2>1, <2>2, <2>3 DEF TenantOK, IsTenant, Pair
<1>6. ASSUME NEW c, HasIt(c) PROVE HasIt(c)'
  <2>1. CASE c.code = NoCode
    BY <2>1 DEF HasIt
  <2>2. CASE c.code # NoCode
    <3>1. PICK t \in tenant : t.code = c.code /\ (t.own \/ c.name[1] = 0)
      BY <1>6, <2>2 DEF HasIt
    <3>2. f[t] \in tenant' /\ f[t].code = c.code /\ (f[t].own \/ c.name[1] = 0)
      BY <1>1, <1>2, <3>1
    <3>. QED BY <3>2 DEF HasIt
  <2>. QED BY <2>1, <2>2
<1>7. ASSUME NEW u \in Ours' PROVE \E t \in Ours : u.code = t.code /\ AsCourse(u) = IF t.code = e THEN r ELSE AsCourse(t)
  <2>1. PICK t \in tenant : u = f[t] /\ t.own
    <3>1. u \in tenant' /\ u.own
      BY DEF Ours
    <3>2. PICK t \in tenant : u = f[t]
      BY <1>1, <3>1
    <3>3. t.own = u.own
      BY <1>2, <3>2
    <3>. QED BY <3>1, <3>2, <3>3
  <2>2. u.code = t.code /\ u.name = IF t.code = e THEN r.name ELSE t.name
    BY <1>2, <2>1
  <2>3. AsCourse(u) = IF t.code = e THEN r ELSE AsCourse(t)
    BY <2>2 DEF AsCourse
  <2>. QED BY <2>1, <2>2, <2>3 DEF Ours
<1>. QED BY <1>5, <1>6, <1>7

LEMMA GoodRenamed == ASSUME NEW cs, Good(cs), \A c : HasIt(c) => HasIt(c)' PROVE Good(cs)'
BY DEF Good, Proper, OfOne, Real, AsCourse, Pair

LEMMA RenamingCallMade == ASSUME Inv, MadeInv, NEW p \in Requests, Call(p), At(p, "renaming") PROVE MadeInv'
<1>. SUFFICES ASSUME Calm PROVE MadeInv'
  BY DisturbedMade DEF Call, Calm
<1>1. PICK i : i = job[p] /\ Shaped(i) /\ i.at = "renaming" /\ i.op = "course"
  BY JobIs, OpAt DEF At
<1>2. "courses" \in Touches(i)
  BY <1>1, OnCourses
<1>3. there /\ Settled
  BY <1>1, <1>2, SettledNow
<1>4. PICK cs, todo, e : cs = i.courses /\ todo = i.todo /\ e = Earliest(todo)
  OBVIOUS
<1>5. /\ TenantOK /\ CoursesOK /\ Good(cs) /\ todo # {} /\ todo \subseteq Codes(cs)
      /\ \A t \in Ours : t.code \in todo \/ AsCourse(t) \in cs
  BY <1>1, <1>3, <1>4 DEF Settled, MadeOK, NamesOK
<1>6. e \in todo
  <2>1. \A n \in todo : Pair(n)
    BY <1>5 DEF Good, Proper, Codes
  <2>. QED BY <1>4, <1>5, <2>1, EarliestIs
<1>7. PICK r : /\ r \in cs /\ r.code = e /\ r = AsCourse(r) /\ Pair(r.name) /\ HasIt(r)
               /\ tenant' = {[t EXCEPT !.name = IF t.code = e THEN r.name ELSE @] : t \in tenant}
  <2>1. PICK r : r = CHOOSE d \in job[p].courses : d.code = Earliest(job[p].todo)
    OBVIOUS
  <2>2. \E d \in job[p].courses : d.code = Earliest(job[p].todo)
    BY <1>1, <1>4, <1>5, <1>6 DEF Codes
  <2>3. r \in cs /\ r.code = e
    BY <1>1, <1>4, <2>1, <2>2
  <2>4. tenant' = {[t EXCEPT !.name = IF t.code = r.code THEN r.name ELSE @] : t \in tenant}
    BY <1>1, <2>1 DEF Call, CarriedOut, At
  <2>. QED BY <1>5, <2>3, <2>4 DEF Good, Proper, Real
<1>8. PICK f : Turned(f, e, r)
  BY ONLY <1>5, <1>7, TurnedIs
<1>9. /\ TenantOK' /\ \A c : HasIt(c) => HasIt(c)'
      /\ \A u \in Ours' : \E t \in Ours : u.code = t.code /\ AsCourse(u) = IF t.code = e THEN r ELSE AsCourse(t)
  <2>1. TenantOK
    BY <1>5
  <2>. QED BY ONLY <1>7, <1>8, <2>1, RenamedOne
<1>10. PICK j : Becomes(p, j) /\ j = Done(i, e, "storing")
  BY <1>1, <1>4 DEF Call, Onwards
<1>11. PICK rest, at : /\ j = [i EXCEPT !.todo = rest, !.at = at] /\ rest = todo \ {e}
                       /\ at = IF todo = {e} THEN "storing" ELSE "renaming"
  BY <1>1, <1>4, <1>10 DEF Done
<1>12. j.op = "course" /\ j.at = at /\ j.todo = rest /\ j.courses = cs
  BY <1>1, <1>4, <1>11 DEF Shaped, Formed
<1>13. \A u \in Ours' : u.code \in rest \/ AsCourse(u) \in cs
  <2>. SUFFICES ASSUME NEW u \in Ours' PROVE u.code \in rest \/ AsCourse(u) \in cs
    OBVIOUS
  <2>1. PICK t \in Ours : u.code = t.code /\ AsCourse(u) = IF t.code = e THEN r ELSE AsCourse(t)
    BY <1>9
  <2>2. CASE t.code = e
    BY <1>7, <2>1, <2>2
  <2>3. CASE t.code # e
    <3>1. t.code \in todo \/ AsCourse(t) \in cs
      BY <1>5
    <3>. QED BY <1>11, <2>1, <2>3, <3>1
  <2>. QED BY <2>2, <2>3
<1>14. Amid(j) /\ MadeOK(j)'
  <2>1. Good(cs)'
    BY <1>5, <1>9, GoodRenamed
  <2>2. at = "renaming" => rest # {} /\ rest \subseteq Codes(cs)
    BY <1>5, <1>6, <1>11
  <2>3. at = "storing" => \A u \in Ours' : AsCourse(u) \in cs
    BY <1>11, <1>13
  <2>4. at \in {"storing", "renaming"}
    BY <1>11
  <2>5. NamesOK(j)'
    BY <1>12, <1>13, <2>1, <2>2, <2>3, <2>4 DEF NamesOK, Codes, Complete, AsCourse
  <2>. QED BY <1>12, <2>4, <2>5 DEF Amid, MadeOK, PlanOK, TakeOK
<1>15. UNCHANGED <<courses, stepCourses, there, crossed, unsure>> /\ remade' = remade
  BY <1>1 DEF Call, task, At
<1>16. Good(courses)' /\ Good(stepCourses)'
  <2>1. PICK c1, c2 : c1 = courses /\ c2 = stepCourses
    OBVIOUS
  <2>2. Good(c1)' /\ Good(c2)'
    BY <1>5, <1>9, <2>1, GoodRenamed DEF CoursesOK
  <2>. QED BY <1>15, <2>1, <2>2 DEF Good, Proper, OfOne, Real
<1>. QED BY <1>1, <1>2, <1>9, <1>10, <1>14, <1>15, <1>16, MadeStep DEF Calm

LEMMA AnyCallMade == ASSUME Inv, MadeInv, NEW p \in Requests, Call(p) PROVE MadeInv'
BY PlacesMade, CreatingMade, RenamingCallMade, AsideCallMade DEF Call, Calling, At

-----------------------------------------------------------------------------
(* Courses are taken over from the platform, and given other names.          *)

(* What the platform shows of the project's courses is what is recorded.     *)
LEMMA MergedWhole ==
    ASSUME TenantOK, NEW cs, Whole(cs), NEW found, IsFiniteSet(found), \A c \in found : \E t \in tenant : c = AsCourse(t)
    PROVE  Whole(Merged(cs, found))
<1>1. PICK merged : merged = Merged(cs, found)
  OBVIOUS
<1>2. /\ IsFiniteSet(cs) /\ \A c \in cs : c = AsCourse(c) /\ Pair(c.name) /\ Pair(c.code) /\ HasIt(c)
      /\ OfOne(cs) /\ \A t \in Ours : AsCourse(t) \in cs
  BY DEF Whole, Good, Proper, Real, Complete
<1>3. ASSUME NEW c \in found
      PROVE  c = AsCourse(c) /\ Pair(c.name) /\ Pair(c.code) /\ HasIt(c) /\ (c.name[1] # 0 => c \in cs)
  <2>1. PICK t \in tenant : c = AsCourse(t) /\ c.name = t.name /\ c.code = t.code
    <3>1. \A t : AsCourse(t).name = t.name /\ AsCourse(t).code = t.code
      BY DEF AsCourse
    <3>. QED BY <3>1
  <2>2. IsTenant(t) /\ (c.name[1] # 0 => t \in Ours)
    BY <2>1 DEF TenantOK, IsTenant, Ours
  <2>3. HasIt(c)
    BY <2>1, <2>2 DEF IsTenant, HasIt
  <2>. QED BY <1>2, <2>1, <2>2, <2>3 DEF IsTenant, AsCourse
<1>4. \A c \in merged : c \in cs \/ c \in found
  BY <1>1 DEF Merged
<1>5. IsFiniteSet(merged)
  <2>1. IsFiniteSet(cs \cup found)
    BY <1>2, FS_Union
  <2>2. merged \subseteq cs \cup found
    BY <1>4
  <2>. QED BY <2>1, <2>2, FS_Subset
<1>6. \A c \in merged : c.name[1] # 0 => c \in cs
  BY <1>3, <1>4
<1>7. OfOne(merged)
  BY <1>2, <1>6 DEF OfOne
<1>8. ASSUME NEW t \in Ours PROVE AsCourse(t) \in merged
  <2>1. PICK c : c = AsCourse(t) /\ c.code = t.code /\ c \in cs
    <3>1. AsCourse(t).code = t.code
      BY DEF AsCourse
    <3>. QED BY <1>2, <3>1
  <2>2. c.code # NoCode
    BY <2>1 DEF Ours, TenantOK, IsTenant, NoCode
  <2>3. ASSUME NEW f \in found, SameCourse(c, f) PROVE f = c
    <3>1. PICK u \in tenant : f = AsCourse(u) /\ f.code = u.code
      <4>1. \A u : AsCourse(u).code = u.code
        BY DEF AsCourse
      <4>. QED BY <4>1
    <3>2. u.code = t.code
      BY <2>1, <2>2, <2>3, <3>1 DEF SameCourse
    <3>3. u = t
      BY <3>2 DEF TenantOK, Ours
    <3>. QED BY <2>1, <3>1, <3>3
  <2>. QED BY <1>1, <2>1, <2>3 DEF Merged
<1>9. Whole(merged)
  BY <1>2, <1>3, <1>4, <1>5, <1>7, <1>8 DEF Whole, Good, Proper, Real, Complete
<1>. QED BY <1>1, <1>9

LEMMA ComparedMade ==
    ASSUME Inv, MadeInv, NEW p \in Requests, NEW found, Compared(p, found),
           TenantOK => IsFiniteSet(found), \A c \in found : \E t \in tenant : c = AsCourse(t)
    PROVE  MadeInv'
<1>1. PICK i : i = job[p] /\ Shaped(i) /\ i.at = "looking" /\ i.op = "sync" /\ ~Amid(i)
  BY JobIs DEF Compared, At, Doing, Amid
<1>2. UNCHANGED <<tenant, task, crossed, remade>>
  BY DEF Compared, platform
<1>3. CASE Ends(p) /\ unsure' = IF i.alone THEN unsure \ {i.kind} ELSE unsure
  <2>1. Calm' => Calm
    BY <1>1, <1>3 DEF Calm, Shaped, Kinds
  <2>2. Becomes(p, NoJob) /\ Unmade(NoJob)
    BY <1>3, NoneAside DEF Ends, Unmade
  <2>. QED BY <1>1, <1>2, <2>1, <2>2, UnmadeStep DEF task
<1>4. CASE ~(Ends(p) /\ unsure' = IF i.alone THEN unsure \ {i.kind} ELSE unsure)
  <2>1. PICK v, merged, j : /\ Becomes(p, j) /\ UNCHANGED unsure /\ merged = Merged(i.held, found)
                            /\ j = [i EXCEPT !.at = "syncing", !.seen.value = v, !.held = {}, !.courses = merged]
    BY <1>1, <1>4 DEF Compared
  <2>2. j.op = "sync" /\ j.at = "syncing" /\ j.kind = i.kind /\ j.courses = merged
    BY <1>1, <2>1 DEF Shaped, Formed
  <2>3. ASSUME there, Calm, Settled PROVE MadeOK(j)
    <3>. SUFFICES ASSUME i.kind = "formal" PROVE Whole(merged)
      BY <2>2 DEF MadeOK, PlanOK, TakeOK, NamesOK
    <3>1. PICK cs : cs = courses /\ i.held = cs
      BY <1>1, <2>3 DEF Settled, MadeOK, TakeOK
    <3>2. "courses" \in Touches(i)
      BY <1>1 DEF Touches
    <3>3. Whole(cs) /\ TenantOK
      BY <1>1, <2>3, <3>1, <3>2, CompleteNow DEF Settled, CoursesOK, Whole
    <3>. QED BY <2>1, <3>1, <3>3, MergedWhole
  <2>. QED BY <1>1, <1>2, <2>1, <2>3, StillMade DEF task, Calm
<1>. QED BY <1>3, <1>4

LEMMA SyncMade == ASSUME Inv, MadeInv, NEW p \in Requests, SyncLook(p) \/ InventoryFails(p) PROVE MadeInv'
<1>1. CASE SyncLook(p)
  <2>1. PICK found : found = Inventory(Target(p)) /\ Compared(p, found)
    BY <1>1 DEF SyncLook
  <2>2. PICK f : f = [t \in tenant |-> AsCourse(t)]
    OBVIOUS
  <2>3. \A c \in found : \E t \in tenant : c = AsCourse(t) /\ c = f[t]
    BY <2>1, <2>2 DEF Inventory, AsCourse
  <2>4. TenantOK => IsFiniteSet(found)
    <3>1. SUFFICES ASSUME IsFiniteSet(tenant) PROVE IsFiniteSet(found)
      BY DEF TenantOK
    <3>2. \A c \in found : \E t \in tenant : c = f[t]
      BY <2>3
    <3>. QED BY ONLY <3>1, <3>2, MappedFinite
  <2>. QED BY <2>1, <2>3, <2>4, ComparedMade
<1>2. CASE InventoryFails(p)
  <2>1. PICK found : found = {} /\ Compared(p, found)
    BY <1>2 DEF InventoryFails
  <2>. QED BY <2>1, FS_EmptySet, ComparedMade
<1>. QED BY <1>1, <1>2

(* Courses are put on record, as a request has them.                         *)
LEMMA PutMade ==
    ASSUME Inv, MadeInv, NEW p \in Requests, NEW i, i = job[p], "courses" \in Touches(i), there,
           NEW j, Becomes(p, j), Unmade(j), NEW cs, courses' = cs, there /\ Calm /\ MadeOK(i) => Whole(cs),
           UNCHANGED <<tenant, there, stepCourses, crossed, remade, unsure>>
    PROVE  MadeInv'
<1>1. ASSUME Calm PROVE TenantOK' /\ MadeOK(j)' /\ Good(courses)' /\ Good(stepCourses)' /\ Complete(courses)'
  <2>1. Settled /\ Kin /\ TenantOK'
    BY <1>1, KinSame DEF MadeInv, Settled
  <2>2. PICK ss : ss = stepCourses
    OBVIOUS
  <2>3. Whole(cs) /\ Good(ss)
    BY <1>1, <2>1, <2>2 DEF Settled, CoursesOK
  <2>4. Whole(cs)' /\ Good(ss)'
    BY <2>1, <2>3, KinKept
  <2>5. Good(courses)' /\ Complete(courses)' /\ Good(stepCourses)'
    BY <2>2, <2>4 DEF Whole, Good, Proper, OfOne, Real, Complete
  <2>. QED BY <2>1, <2>5, UnmadeOK
<1>. QED BY <1>1, MadeStep DEF Calm

LEMMA SyncWriteMade == ASSUME Inv, MadeInv, NEW p \in Requests, SyncWrite(p) PROVE MadeInv'
<1>1. PICK i : i = job[p] /\ Shaped(i) /\ i.at = "syncing" /\ i.op = "sync" /\ there /\ ~Amid(i)
  BY JobIs, OpAt DEF SyncWrite, Write, At, Amid
<1>2. UNCHANGED <<tenant, there, stepCourses, crossed, remade, unsure>>
  BY DEF SyncWrite, platform, ghosts
<1>3. PICK log, j : Becomes(p, j) /\ j = [i EXCEPT !.at = "logging", !.courses = {}, !.log = log]
  BY <1>1 DEF SyncWrite
<1>4. j.op = "sync" /\ j.at = "logging"
  BY <1>1, <1>3 DEF Shaped, Formed
<1>5. Unmade(j)
  BY <1>4 DEF Unmade, Aside
<1>6. CASE i.kind = "formal"
  <2>1. PICK cs : cs = i.courses /\ courses' = cs
    BY <1>1, <1>6 DEF SyncWrite
  <2>2. "courses" \in Touches(i)
    BY <1>1, <1>6 DEF Touches
  <2>3. MadeOK(i) => Whole(cs)
    BY <1>1, <1>6, <2>1 DEF MadeOK, TakeOK
  <2>. QED BY <1>1, <1>2, <1>3, <1>5, <2>1, <2>2, <2>3, PutMade
<1>7. CASE i.kind # "formal"
  <2>1. courses' = courses
    BY <1>1, <1>7 DEF SyncWrite
  <2>. QED BY <1>1, <1>2, <1>3, <1>5, <2>1, UnmadeStep DEF Calm
<1>. QED BY <1>6, <1>7

LEMMA RenameStoreMade == ASSUME Inv, MadeInv, NEW p \in Requests, RenameStore(p) PROVE MadeInv'
<1>1. PICK i : i = job[p] /\ Shaped(i) /\ i.at = "storing" /\ i.op = "course" /\ there
  BY JobIs, OpAt DEF RenameStore, Write, At
<1>2. UNCHANGED <<tenant, there, stepCourses, crossed, remade, unsure>>
  BY DEF RenameStore, platform, ghosts
<1>3. PICK cs, j : cs = i.courses /\ courses' = cs /\ Becomes(p, j) /\ j = [i EXCEPT !.at = "logging", !.courses = {}]
  BY <1>1 DEF RenameStore
<1>4. j.op = "course" /\ j.at = "logging"
  BY <1>1, <1>3 DEF Shaped, Formed
<1>5. Unmade(j) /\ "courses" \in Touches(i)
  BY <1>1, <1>4, OnCourses DEF Unmade, Aside
<1>6. MadeOK(i) => Whole(cs)
  BY <1>1, <1>3 DEF MadeOK, NamesOK, Whole
<1>. QED BY <1>1, <1>2, <1>3, <1>5, <1>6, PutMade

(* What is renamed on the platform is what has other names there.            *)
LEMMA SnapshotsMade == ASSUME Inv, MadeInv, NEW p \in Requests, Snapshots(p) PROVE MadeInv'
<1>1. PICK i : i = job[p] /\ Shaped(i) /\ i.at = "snapshots" /\ i.op = "course" /\ ~Amid(i)
  BY JobIs, OpAt DEF Snapshots, At, Amid
<1>2. UNCHANGED <<tenant, task, crossed, remade, unsure>>
  BY DEF Snapshots, platform, ghosts
<1>3. CASE Becomes(p, NoJob)
  BY <1>1, <1>2, <1>3, NoneAside, UnmadeStep DEF Unmade, task, Calm
<1>4. CASE ~Becomes(p, NoJob)
  <2>1. PICK todo, j : /\ Becomes(p, j) /\ todo = Renamed(i) /\ todo # {}
                       /\ j = [i EXCEPT !.at = "toRename", !.todo = todo]
    BY <1>1, <1>4 DEF Snapshots, Ends
  <2>2. j.op = "course" /\ j.at = "toRename" /\ j.todo = todo /\ j.courses = i.courses
    BY <1>1, <2>1 DEF Shaped, Formed
  <2>3. ASSUME Settled PROVE MadeOK(j)
    <3>1. TenantOK /\ Good(i.courses) /\ \A t \in Ours : t.code \in Codes(i.courses)
      BY <1>1, <2>3 DEF Settled, MadeOK, NamesOK
    <3>2. todo \subseteq Codes(i.courses) /\ \A c \in i.courses : c.code \in todo \/ OnTenant(c)
      BY <2>1 DEF Renamed, Codes
    <3>3. ASSUME NEW t \in Ours PROVE t.code \in todo \/ AsCourse(t) \in i.courses
      <4>1. PICK c \in i.courses : c.code = t.code /\ c = AsCourse(c)
        BY <3>1 DEF Codes, Good, Proper
      <4>2. CASE OnTenant(c)
        <5>1. PICK u \in tenant : u.name = c.name /\ u.code = c.code
          BY <4>2 DEF OnTenant
        <5>2. u = t
          BY <3>1, <4>1, <5>1 DEF TenantOK, Ours
        <5>. QED BY <4>1, <5>1, <5>2 DEF AsCourse
      <4>. QED BY <3>2, <4>1, <4>2
    <3>. QED BY <2>1, <2>2, <3>1, <3>2, <3>3 DEF MadeOK, PlanOK, TakeOK, NamesOK
  <2>. QED BY <1>1, <1>2, <2>1, <2>3, StillMade DEF task, Calm
<1>. QED BY <1>3, <1>4

LEMMA RenameMarkMade == ASSUME Inv, MadeInv, NEW p \in Requests, RenameMark(p) PROVE MadeInv'
<1>1. PICK i : i = job[p] /\ Shaped(i) /\ i.at = "toRename" /\ i.op = "course" /\ ~Amid(i)
  BY JobIs, OpAt DEF RenameMark, Write, At, Amid
<1>2. UNCHANGED <<tenant, courses, stepCourses, there, crossed, remade, unsure>>
  BY DEF RenameMark, platform, ghosts
<1>3. PICK j : Becomes(p, j) /\ j = [i EXCEPT !.at = "renaming"]
  BY <1>1 DEF RenameMark, Goes
<1>4. j.op = "course" /\ j.at = "renaming" /\ j.todo = i.todo /\ j.courses = i.courses
  BY <1>1, <1>3 DEF Shaped, Formed
<1>5. Settled => MadeOK(j)
  BY <1>1, <1>4 DEF Settled, MadeOK, PlanOK, TakeOK, NamesOK
<1>. QED BY <1>1, <1>2, <1>3, <1>5, StillMade DEF Calm

(* Courses that are given other names are still one of each.                 *)
LEMMA RetitledGood ==
    ASSUME Good(courses), Good(stepCourses), Complete(courses), TenantOK, NEW cs, Retitled(cs)
    PROVE  Good(cs) /\ \A t \in Ours : t.code \in Codes(cs)
<1>1. PICK stored : stored = Stored
  OBVIOUS
<1>2. Proper(stored) /\ OfOne(stored) /\ Real(stored)
  <2>1. stored \subseteq courses \/ stored \subseteq stepCourses
    BY <1>1 DEF Stored, Coded
  <2>2. IsFiniteSet(courses) /\ IsFiniteSet(stepCourses)
    BY DEF Good, Proper
  <2>3. IsFiniteSet(stored)
    BY <2>1, <2>2, FS_Subset
  <2>. QED BY <2>1, <2>3 DEF Good, Proper, OfOne, Real
<1>3. PICK names : /\ names \in [{c.code : c \in stored} -> Variants]
                   /\ cs = {[name |-> <<c.name[1], names[c.code]>>, code |-> c.code] : c \in stored}
  BY <1>1 DEF Retitled
<1>4. PICK f : f = [c \in stored |-> [name |-> <<c.name[1], names[c.code]>>, code |-> c.code]]
  OBVIOUS
<1>5. (\A c \in stored : f[c] \in cs) /\ \A d \in cs : \E c \in stored : d = f[c]
  BY <1>3, <1>4
<1>6. ASSUME NEW c \in stored
      PROVE  /\ f[c] = AsCourse(f[c]) /\ Pair(f[c].name) /\ f[c].name[1] = c.name[1] /\ f[c].code = c.code
             /\ Pair(c.code) /\ HasIt(c)
  <2>1. PICK n : n = names[c.code] /\ n \in Nat
    BY <1>3, ProvisionAssumption
  <2>2. f[c] = [name |-> <<c.name[1], n>>, code |-> c.code]
    BY <1>4, <2>1
  <2>3. Pair(c.name) /\ Pair(c.code) /\ HasIt(c)
    BY <1>2 DEF Proper, Real
  <2>. QED BY <2>1, <2>2, <2>3 DEF AsCourse, Pair
<1>7. Proper(cs)
  <2>1. IsFiniteSet(stored)
    BY <1>2 DEF Proper
  <2>2. IsFiniteSet(cs)
    BY ONLY <1>5, <2>1, MappedFinite
  <2>. QED BY <1>5, <1>6, <2>2 DEF Proper
<1>8. OfOne(cs)
  <2>. SUFFICES ASSUME NEW d \in cs, NEW e \in cs, d.name[1] = e.name[1], d.name[1] # 0 PROVE d = e
    BY DEF OfOne
  <2>1. PICK x \in stored, y \in stored : d = f[x] /\ e = f[y]
    BY <1>5
  <2>2. x.name[1] = y.name[1] /\ x.name[1] # 0
    BY <1>6, <2>1
  <2>. QED BY <1>2, <2>1, <2>2 DEF OfOne
<1>9. Real(cs)
  <2>. SUFFICES ASSUME NEW d \in cs PROVE HasIt(d)
    BY DEF Real
  <2>1. PICK x \in stored : d = f[x]
    BY <1>5
  <2>2. d.name[1] = x.name[1] /\ d.code = x.code /\ HasIt(x)
    BY <1>6, <2>1
  <2>. QED BY <2>2 DEF HasIt
<1>10. ASSUME NEW t \in Ours PROVE t.code \in Codes(cs)
  <2>1. PICK c : c = AsCourse(t) /\ c.code = t.code /\ c \in courses
    <3>1. AsCourse(t).code = t.code
      BY DEF AsCourse
    <3>. QED BY <3>1 DEF Complete
  <2>2. c.code # NoCode
    BY <2>1 DEF Ours, TenantOK, IsTenant, NoCode
  <2>3. c \in stored
    BY <1>1, <2>1, <2>2 DEF Stored, Coded
  <2>4. f[c] \in cs /\ f[c].code = t.code
    BY <1>5, <1>6, <2>1, <2>3
  <2>. QED BY <2>4 DEF Codes
<1>. QED BY <1>7, <1>8, <1>9, <1>10 DEF Good

LEMMA BeginningMade ==
    ASSUME Inv, MadeInv, NEW p \in Requests,
           \/ Create(p) \/ Bind(p) \/ Open(p) \/ Delete(p)
           \/ \E k \in Kinds : Sync(p, k) \/ Import(p, k) \/ (\E v : Change(p, k, v)) \/ (\E n : Rooms(p, k, n))
           \/ \E names \in [{c.code : c \in Stored} -> Variants] : Rename(p, names)
    PROVE  MadeInv'
<1>1. PICK j : Begins(p, j) /\ Formed(j) /\ Opening(j)
  BY OpeningIs
<1>2. UNCHANGED <<tenant, courses, stepCourses, there, remade>> /\ At(p, "idle")
  BY <1>1 DEF Begins, platform, task
<1>3. PICK shared : /\ shared = UNION {Touches(job[q]) \cap Touches(j) : q \in {r \in Requests \ {p} : Touches(job[r]) \cap Touches(j) # {}}}
                    /\ crossed' = crossed \cup shared /\ unsure' = unsure \cup shared
  BY <1>1 DEF Begins
<1>4. (Calm' => Calm) /\ ("courses" \in crossed' => "courses" \in crossed \/ ~Calm')
  BY <1>3 DEF Calm
<1>5. ASSUME NEW q \in Requests, q # p PROVE (MadeOK(job[q]) => MadeOK(job'[q])) /\ (Amid(job[q]) <=> Amid(job'[q]))
  <2>1. PICK k, a, o : k = job[q] /\ Shaped(k) /\ o = job'[q] /\ o = [k EXCEPT !.alone = a]
    BY <1>1, <1>5, JobIs DEF Begins
  <2>2. o.op = k.op /\ o.at = k.at /\ o.kind = k.kind /\ o.courses = k.courses /\ o.held = k.held /\ o.todo = k.todo
    BY <2>1 DEF Shaped, Formed
  <2>. QED BY <2>1, <2>2 DEF MadeOK, PlanOK, TakeOK, NamesOK, Amid
<1>6. ~Amid(job[p])
  BY <1>2 DEF At, Amid
<1>7. PICK b, n, i : i = job'[p] /\ i = [j EXCEPT !.alone = b, !.number = n]
  BY <1>1 DEF Begins
<1>8. i.op = j.op /\ i.at = j.at /\ i.kind = j.kind /\ i.courses = j.courses /\ i.held = j.held
  BY <1>1, <1>7 DEF Formed
<1>9. ASSUME there, Calm' PROVE MadeOK(i)
  <2>1. Settled
    BY <1>4, <1>9 DEF MadeInv
  <2>2. PlanOK(i) /\ TakeOK(i)
    BY <1>1, <1>8 DEF Opening, PlanOK, TakeOK, Until
  <2>3. CASE j.op = "course"
    <3>1. Touches(j) = {"courses"}
      BY <2>3 DEF Touches
    <3>2. ASSUME NEW q \in Requests, q # p PROVE ~Amid(job[q])
      <4>1. PICK o : o = job[q] /\ Shaped(o)
        BY JobIs
      <4>2. "courses" \notin Touches(o)
        BY <1>3, <1>9, <3>1, <3>2, <4>1 DEF Calm
      <4>. QED BY <4>1, <4>2, AsideIs, UnmadeOK DEF Unmade
    <3>3. Complete(courses)
      BY <1>6, <2>1, <3>2 DEF Settled, CoursesOK
    <3>4. j.at = "snapshots" /\ Retitled(j.courses)
      BY <1>1, <2>3 DEF Opening
    <3>5. PICK cs : cs = j.courses /\ Good(cs) /\ \A t \in Ours : t.code \in Codes(cs)
      BY <2>1, <3>3, <3>4, RetitledGood DEF Settled, CoursesOK
    <3>6. NamesOK(i)
      BY <1>8, <2>3, <3>4, <3>5 DEF NamesOK
    <3>. QED BY <2>2, <3>6 DEF MadeOK
  <2>4. CASE j.op # "course"
    BY <1>8, <2>2, <2>4 DEF MadeOK, NamesOK
  <2>. QED BY <2>3, <2>4
<1>10. ASSUME there', Calm', NEW q \in Requests PROVE (MadeOK(job[q]) => MadeOK(job'[q])) /\ (Amid(job[q]) => Amid(job'[q]))
  BY <1>2, <1>5, <1>6, <1>7, <1>9, <1>10
<1>. QED BY <1>2, <1>4, <1>10, KinSame, OthersMade

-----------------------------------------------------------------------------
(* To begin with, the platform has no course, or those on record.            *)
LEMMA InitCourses ==
    ASSUME NEW cs, NEW code, cs = {Course(i, code[i]) : i \in 1..Subjects}, \A i \in 1..Subjects : Pair(code[i])
    PROVE  Proper(cs) /\ OfOne(cs) /\ \A c \in cs : \E i \in 1..Subjects : c.code = code[i]
<1>1. PICK f : f = [i \in 1..Subjects |-> Course(i, code[i])]
  OBVIOUS
<1>2. \A c \in cs : \E i \in 1..Subjects : c = f[i]
  BY <1>1
<1>3. ASSUME NEW i \in 1..Subjects
      PROVE  f[i] = AsCourse(f[i]) /\ Pair(f[i].name) /\ f[i].code = code[i] /\ f[i].name[1] = i
  <2>1. PICK x : x = code[i]
    OBVIOUS
  <2>2. f[i] = [name |-> <<i, First>>, code |-> x]
    BY <1>1, <2>1 DEF Course
  <2>. QED BY <2>1, <2>2, ProvisionAssumption DEF AsCourse, Pair
<1>4. IsFiniteSet(cs)
  <2>1. IsFiniteSet(1..Subjects)
    BY ProvisionAssumption, FS_Interval
  <2>. QED BY ONLY <1>2, <2>1, MappedFinite
<1>5. Proper(cs)
  BY <1>2, <1>3, <1>4 DEF Proper
<1>6. OfOne(cs)
  <2>. SUFFICES ASSUME NEW c \in cs, NEW d \in cs, c.name[1] = d.name[1] PROVE c = d
    BY DEF OfOne
  <2>1. PICK i \in 1..Subjects, k \in 1..Subjects : c = f[i] /\ d = f[k]
    BY <1>2
  <2>. QED BY <1>3, <2>1
<1>. QED BY <1>2, <1>3, <1>5, <1>6

LEMMA InitMade == ASSUME Init PROVE MadeInv
<1>1. job = [p \in Requests |-> NoJob] /\ crossed = {} /\ remade = {} /\ unsure = {}
  BY DEF Init
<1>2. \A p \in Requests : MadeOK(job[p])
  BY <1>1, NoneAside, UnmadeOK DEF Unmade
<1>3. CASE tenant = {} /\ courses = {Course(i, NoCode) : i \in 1..Subjects} /\ stepCourses = {}
  <2>1. PICK code : code = [i \in 1..Subjects |-> NoCode]
    OBVIOUS
  <2>2. PICK cs : cs = courses /\ cs = {Course(i, code[i]) : i \in 1..Subjects}
    BY <1>3, <2>1
  <2>3. \A i \in 1..Subjects : code[i] = NoCode /\ Pair(code[i])
    BY <2>1 DEF NoCode, Pair
  <2>4. Proper(cs) /\ OfOne(cs) /\ \A c \in cs : c.code = NoCode
    BY <2>2, <2>3, InitCourses
  <2>5. Good(courses)
    BY <2>2, <2>4 DEF Good, Real, HasIt
  <2>6. TenantOK /\ Complete(courses)
    BY <1>3, FS_EmptySet DEF TenantOK, Complete, Ours
  <2>. QED BY <1>1, <1>2, <1>3, <2>5, <2>6, NoneGood DEF MadeInv, Settled, CoursesOK
<1>4. CASE /\ tenant = {[name |-> c.name, code |-> c.code, own |-> TRUE] : c \in MadeCourses}
           /\ courses = MadeCourses /\ stepCourses = MadeCourses
  <2>1. PICK code : code = [i \in 1..Subjects |-> <<1, i>>]
    OBVIOUS
  <2>2. PICK cs : cs = courses /\ cs = {Course(i, code[i]) : i \in 1..Subjects}
    BY <1>4, <2>1 DEF MadeCourses
  <2>3. \A i \in 1..Subjects : Pair(code[i]) /\ code[i][1] # 0
    BY <2>1 DEF Pair
  <2>4. Proper(cs) /\ OfOne(cs) /\ \A c \in cs : c.code[1] # 0
    <3>1. Proper(cs) /\ OfOne(cs) /\ \A c \in cs : \E i \in 1..Subjects : c.code = code[i]
      <4>1. cs = {Course(i, code[i]) : i \in 1..Subjects} /\ \A i \in 1..Subjects : Pair(code[i])
        BY <2>2, <2>3
      <4>. QED BY ONLY <4>1, InitCourses
    <3>. QED BY <2>3, <3>1
  <2>5. PICK f : f = [c \in cs |-> [name |-> c.name, code |-> c.code, own |-> TRUE]]
    OBVIOUS
  <2>6. (\A t \in tenant : \E c \in cs : t = f[c]) /\ \A c \in cs : f[c] \in tenant
    BY <1>4, <2>2, <2>5
  <2>7. ASSUME NEW c \in cs
        PROVE  /\ f[c] = [name |-> f[c].name, code |-> f[c].code, own |-> f[c].own] /\ f[c].own
               /\ f[c].name = c.name /\ f[c].code = c.code /\ AsCourse(f[c]) = c /\ Pair(c.name) /\ Pair(c.code)
    BY <2>4, <2>5 DEF Proper, AsCourse
  <2>8. TenantOK
    <3>1. IsFiniteSet(tenant)
      <4>1. IsFiniteSet(cs)
        BY <2>4 DEF Proper
      <4>. QED BY ONLY <2>6, <4>1, MappedFinite
    <3>2. ASSUME NEW t \in tenant PROVE IsTenant(t)
      <4>1. PICK c \in cs : t = f[c]
        BY <2>6
      <4>2. c.code[1] # 0
        BY <2>4
      <4>. QED BY <2>7, <4>1, <4>2 DEF IsTenant
    <3>3. ASSUME NEW c \in cs, NEW d \in cs, c.code = d.code PROVE c = d
      <4>1. PICK i \in 1..Subjects, k \in 1..Subjects : c = Course(i, code[i]) /\ d = Course(k, code[k])
        BY <2>2
      <4>2. c.code = <<1, i>> /\ d.code = <<1, k>>
        BY <2>1, <4>1 DEF Course
      <4>. QED BY <3>3, <4>1, <4>2
    <3>4. ASSUME NEW t \in tenant, NEW u \in tenant, t.code = u.code PROVE t = u
      <4>1. PICK c \in cs, d \in cs : t = f[c] /\ u = f[d]
        BY <2>6
      <4>2. t.code = c.code /\ u.code = d.code
        BY <2>7, <4>1
      <4>3. c = d
        BY <3>3, <3>4, <4>2
      <4>. QED BY <4>1, <4>3
    <3>. QED BY <3>1, <3>2, <3>4 DEF TenantOK
  <2>9. Good(cs) /\ Complete(cs)
    <3>1. ASSUME NEW c \in cs PROVE HasIt(c)
      <4>1. f[c] \in tenant /\ f[c].code = c.code /\ f[c].own
        BY <2>6, <2>7
      <4>. QED BY <4>1 DEF HasIt
    <3>2. ASSUME NEW t \in Ours PROVE AsCourse(t) \in cs
      <4>1. PICK c \in cs : t = f[c]
        BY <2>6 DEF Ours
      <4>. QED BY <2>7, <4>1
    <3>. QED BY <2>4, <3>1, <3>2 DEF Good, Real, Complete
  <2>. QED BY <1>1, <1>2, <1>4, <2>2, <2>8, <2>9 DEF MadeInv, Settled, CoursesOK
<1>. QED BY <1>3, <1>4 DEF Init

LEMMA MadeInvStep == ASSUME Inv, MadeInv, [Next]_vars PROVE MadeInv'
<1>1. ASSUME NEW p \in Requests, Creation(p) PROVE MadeInv'
  BY <1>1, BeginningMade, PlacesMade, ListMade, EndingMade, PersistMade, CoursesDoneMade, BindMarkMade DEF Creation
<1>2. ASSUME NEW p \in Requests, Changing(p) PROVE MadeInv'
  BY <1>2, BeginningMade, QuietlyMade, EndingMade, SaveMade, SyncMade, SyncWriteMade, SnapshotsMade, RenameMarkMade,
     RenameStoreMade DEF Changing
<1>3. ASSUME NEW p \in Requests, Keeping(p) PROVE MadeInv'
  BY <1>3, BeginningMade, QuietlyMade, SaveMade, DropMade DEF Keeping
<1>4. ASSUME NEW p \in Requests, Call(p) \/ NotFound(p) \/ TaskGone(p) \/ CallFails(p) \/ ReadFails(p) PROVE MadeInv'
  BY <1>4, AnyCallMade, EndingMade, CallFailsMade, QuietlyMade
<1>5. Erase \/ UNCHANGED vars => MadeInv'
  BY SameMade DEF Erase, vars, platform, task, ghosts
<1>. QED BY <1>1, <1>2, <1>3, <1>4, <1>5, RestartMade, HandEditMade, OtherCourseMade DEF Next

(* No course of the project is created on the platform a second time, however*)
(* often its exam is created anew, whatever is taken over or renamed, and    *)
(* whatever codes other projects take in between: unless a creation or a     *)
(* renaming was interrupted, ran out of codes, or met another request that   *)
(* works on the courses.                                                     *)
THEOREM CourseMadeOnceHolds == Spec => []CourseMadeOnce
<1>1. MadeInv => CourseMadeOnce
  BY DEF MadeInv, CourseMadeOnce, Calm
<1>2. Init => Inv /\ MadeInv
  BY InitInv, InitMade
<1>3. Inv /\ MadeInv /\ [Next]_vars => (Inv /\ MadeInv)'
  BY InvStep, MadeInvStep
<1>. QED BY <1>1, <1>2, <1>3, PTL DEF Spec
=============================================================================
