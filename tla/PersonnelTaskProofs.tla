------------------------- MODULE PersonnelTaskProofs -------------------------
(* Theorems about PersonnelTaskService, for any number of contents, pages    *)
(* and bounds.                                                               *)
EXTENDS PersonnelTaskService, SequenceTheorems, TLAPS

(* A page that is past the start of its request holds what the request needs *)
(* and an attempt that exists has an id and a content.                       *)
AttemptStages == {"sending", "merging", "finishing", "expiring", "reconciling"}
WellFormed ==
    /\ \A c \in Callers :
          /\ pc[c] = "previewing" => job[c].draft \in Contents
          /\ pc[c] \in AttemptStages => job[c].id # 0
    /\ attempt.id = 0 => attempt.status = "none"
    /\ attempt.id # 0 => attempt.fp \in Contents

TypeInv == TypeOK /\ WellFormed

LEMMA CheckpointsType == NoCheckpoints \in Checkpoints
  BY DEF NoCheckpoints, Checkpoints, SubmitStates

LEMMA NoJobType == NoJob \in Jobs
  BY CheckpointsType, BoundsAssumption
  DEF NoJob, Jobs, Fingerprints, Tokens, SendIds, Kinds, Outcomes

LEMMA NoExecType == NoExec \in Execs
  BY CheckpointsType DEF NoExec, Execs, ExecStages, Kinds

LEMMA NoPreviewType == NoPreview \in PreviewRecords
  BY BoundsAssumption DEF NoPreview, PreviewRecords, Tokens, Kinds, Fingerprints

LEMMA NoAttemptType == NoAttempt \in AttemptRecords
  BY BoundsAssumption
  DEF NoAttempt, AttemptRecords, SendIds, Kinds, Fingerprints, AttemptStatuses

LEMMA FailureStatusType ==
  ASSUME NEW k \in Checkpoints
  PROVE  FailureStatus(k) \in RecoveryStatuses
  BY DEF FailureStatus, RecoveryStatuses

LEMMA RecoveredAttemptType ==
  ASSUME TypeInv
  PROVE  /\ RecoveredAttempt \in AttemptRecords
         /\ RecoveredAttempt.id = attempt.id /\ RecoveredAttempt.fp = attempt.fp
         /\ attempt.id = 0 => RecoveredAttempt.status = "none" /\ AttemptStatus = "none"
         /\ AttemptStatus \in AttemptStatuses
  BY FailureStatusType
  DEF TypeInv, TypeOK, WellFormed, PersistedOK, RecoveredAttempt, AttemptStatus,
      recoveredAttemptStatus, AttemptRecords, AttemptStatuses, ActiveStatuses,
      RecoveryStatuses

LEMMA StatusType ==
  ASSUME TypeInv
  PROVE  /\ TaskStatus \in TaskStatuses
         /\ \A s \in TaskStatuses, l \in Fingerprints, d \in Contents :
               buildStatus(s, l, d) \in TaskStatuses
  BY RecoveredAttemptType
  DEF TypeInv, TypeOK, PersistedOK, TaskStatus, normalizedStatus, TaskStatuses,
      buildStatus, RecoveryStatuses

(* What proves an attempt is a record the console shows, or nothing.         *)
LEMMA AttemptSendRecordType ==
  ASSUME NEW l, NEW v \in Nat, NEW kind, NEW before, NEW started
  PROVE  /\ AttemptSendRecord(l, v, kind, before, started) \in 0..v
         /\ AttemptSendRecord(l, v, kind, before, started) \in Nat
  <1> DEFINE found == Candidates(l, v, kind, before, started)
  <1>1. found \subseteq 1..v
    BY DEF Candidates
  <1> HIDE DEF found
  <1>2. AttemptSendRecord(l, v, kind, before, started)
          = IF \E i \in found : found = {i} THEN CHOOSE i \in found : TRUE ELSE 0
    BY DEF AttemptSendRecord, found
  <1>3. CASE \E i \in found : found = {i}
    BY <1>1, <1>2, <1>3
  <1>4. CASE ~ \E i \in found : found = {i}
    BY <1>2, <1>4
  <1> QED
    BY <1>3, <1>4

(* A page action changes one page only, to a place and locals of their types. *)
LEMMA GotoType ==
  ASSUME PagesOK, NEW c \in Callers, NEW place \in PageStates, NEW locals \in Jobs,
         Goto(c, place, locals)
  PROVE  /\ PagesOK'
         /\ pc'[c] = place /\ job'[c] = locals
         /\ \A d \in Callers \ {c} : pc'[d] = pc[d] /\ job'[d] = job[d]
  BY DEF PagesOK, Goto

LEMMA SetExecType ==
  ASSUME ExecOK, NEW c \in Callers, NEW i \in 1..MaxSends, NEW e \in Execs,
         SetExec(c, i, e)
  PROVE  ExecOK'
  BY DEF ExecOK, SetExec

(* The pages keep what they need when only other state changes.              *)
LEMMA TypeInit == Init => TypeInv
  <1> SUFFICES ASSUME Init PROVE TypeInv
    OBVIOUS
  <1>1. PersistedOK
    <2>1. history \in Seq(HistoryRecords)
      BY DEF Init
    <2>2. status \in TaskStatuses /\ lastSuccessful \in Fingerprints
      BY DEF Init, TaskStatuses, Fingerprints
    <2>3. preview \in PreviewRecords /\ attempt \in AttemptRecords /\ ckpt \in Checkpoints
      BY NoPreviewType, NoAttemptType, CheckpointsType DEF Init
    <2>4. draft \in Contents /\ confirmed \in Contents /\ version \in Nat /\ snapshotRecords \in Nat
      BY DEF Init
    <2> QED
      BY <2>1, <2>2, <2>3, <2>4 DEF PersistedOK
  <1>2. MemoryOK
    BY BoundsAssumption DEF Init, MemoryOK, SendIds, Tokens
  <1>7. WorldOK
    <2>1. requirement \in Nat /\ schedule \in Nat
      BY DEF Init
    <2>2. pendingChange \in BOOLEAN
      BY DEF Init
    <2> QED
      BY <2>1, <2>2 DEF WorldOK
  <1>6. ConsoleOK
    BY DEF Init, ConsoleOK
  <1>3. PagesOK
    BY NoJobType DEF Init, PagesOK, PageStates
  <1>4. ExecOK
    BY NoExecType DEF Init, ExecOK
  <1>5. WellFormed
    BY DEF Init, WellFormed, AttemptStages, NoAttempt
  <1> QED
    BY <1>1, <1>2, <1>3, <1>4, <1>5, <1>6, <1>7 DEF TypeInv, TypeOK

LEMMA EditType ==
  ASSUME TypeInv, NEW content \in Contents, Edit(content)
  PROVE  TypeInv'
  <1> USE DEF TypeInv, TypeOK
  <1>1. PersistedOK'
    BY RecoveredAttemptType, StatusType, NoPreviewType DEF Edit, PersistedOK
  <1>2. MemoryOK' /\ WorldOK' /\ ConsoleOK' /\ PagesOK' /\ ExecOK'
    BY BoundsAssumption
    DEF Edit, MemoryOK, WorldOK, ConsoleOK, PagesOK, ExecOK, world, console, Tokens
  <1>3. WellFormed'
    BY RecoveredAttemptType DEF Edit, WellFormed, world
  <1> QED
    BY <1>1, <1>2, <1>3

LEMMA PreviewType ==
  ASSUME TypeInv, NEW c \in Callers,
         PreparePreview(c) \/ HelperInspect(c) \/ PreviewBegin(c)
  PROVE  TypeInv'
  <1> USE DEF TypeInv, TypeOK
  <1>1. PersistedOK' /\ MemoryOK' /\ WorldOK' /\ ConsoleOK' /\ ExecOK'
    BY BoundsAssumption
    DEF PreparePreview, HelperInspect, PreviewBegin, persisted, memory, world, console,
        PersistedOK, MemoryOK, WorldOK, ConsoleOK, ExecOK, Tokens
  <1>2. PagesOK' /\ WellFormed'
    <2>1. CASE PreparePreview(c)
      <3>1. [NoJob EXCEPT !.draft = confirmed, !.base = lastSuccessful] \in Jobs
        BY NoJobType DEF PersistedOK, Jobs, Fingerprints
      <3> QED
        BY <2>1, <3>1, GotoType
        DEF PreparePreview, PageStates, WellFormed, AttemptStages, persisted
    <2>2. CASE HelperInspect(c)
      <3>1. [job[c] EXCEPT !.seen = visible] \in Jobs
        <4>1. visible \in Nat
          BY DEF ConsoleOK
        <4>2. job[c] \in Jobs
          BY DEF PagesOK
        <4> QED
          BY <4>1, <4>2 DEF Jobs
      <3> QED
        BY <2>2, <3>1, GotoType
        DEF HelperInspect, PageStates, WellFormed, AttemptStages, persisted
    <2>3. CASE PreviewBegin(c)
      <3> DEFINE read == [job[c] EXCEPT !.draft = confirmed, !.base = lastSuccessful,
                                !.kind = IF HasSent THEN "resend" ELSE "initial",
                                !.requirement = requirement, !.schedule = schedule,
                                !.records = snapshotRecords]
      <3>1. read \in Jobs /\ read.draft \in Contents
        BY DEF PagesOK, PersistedOK, WorldOK, Jobs, Fingerprints, Kinds
      <3>2. CASE PreviewAllowed(c)
        <4>1. Goto(c, "previewing", read)
          BY <2>3, <3>2 DEF PreviewBegin
        <4>2. "previewing" \in PageStates
          BY DEF PageStates
        <4> HIDE DEF read
        <4>3. PagesOK' /\ pc'[c] = "previewing" /\ job'[c] = read
              /\ \A d \in Callers \ {c} : pc'[d] = pc[d] /\ job'[d] = job[d]
          BY <3>1, <4>1, <4>2, GotoType
        <4> QED
          BY <2>3, <3>1, <4>3 DEF PreviewBegin, WellFormed, AttemptStages, persisted
      <3>3. CASE ~PreviewAllowed(c)
        BY <2>3, <3>3, GotoType, NoJobType
        DEF PreviewBegin, Leave, PageStates, WellFormed, AttemptStages, persisted
      <3> QED
        BY <3>2, <3>3
    <2> QED
      BY <2>1, <2>2, <2>3
  <1> QED
    BY <1>1, <1>2

LEMMA AdoptionType ==
  ASSUME TypeInv, NEW c \in Callers, RecognizeInitialSend(c)
  PROVE  TypeInv'
  <1> USE DEF TypeInv, TypeOK
  <1>1. PICK i \in InitialRecords(job[c]) :
          history' = Append(history, [attempt |-> 0, fp |-> External, record |-> i])
    BY DEF RecognizeInitialSend
  <1>2. job[c] \in Jobs /\ job[c].seen \in Nat /\ job[c].draft \in Contents
    BY DEF PagesOK, Jobs, WellFormed, RecognizeInitialSend
  <1>3. i \in Nat
    BY <1>2 DEF InitialRecords
  <1>4. [attempt |-> 0, fp |-> External, record |-> i] \in HistoryRecords
    BY <1>3, BoundsAssumption DEF HistoryRecords, SendIds, Fingerprints
  <1>5. history' \in Seq(HistoryRecords)
    BY <1>1, <1>4 DEF PersistedOK
  <1>6. PersistedOK'
    BY <1>2, <1>5, NoPreviewType, NoAttemptType
    DEF RecognizeInitialSend, PersistedOK, TaskStatuses, Fingerprints
  <1>7. MemoryOK' /\ WorldOK' /\ ConsoleOK' /\ ExecOK'
    BY DEF RecognizeInitialSend, memory, world, console, MemoryOK, WorldOK, ConsoleOK, ExecOK
  <1>8. PagesOK' /\ WellFormed'
    BY NoJobType, GotoType
    DEF RecognizeInitialSend, Leave, PageStates, WellFormed, AttemptStages, NoAttempt
  <1> QED
    BY <1>6, <1>7, <1>8

LEMMA CommitType ==
  ASSUME TypeInv, NEW c \in Callers, PreviewCommit(c)
  PROVE  TypeInv'
  <1> USE DEF TypeInv, TypeOK
  <1> DEFINE token == issued.previews + 1
             fresh == [token |-> token, kind |-> job[c].kind, version |-> version,
                       fp |-> job[c].draft, base |-> job[c].base,
                       requirement |-> requirement, schedule |-> schedule]
             held == [NoJob EXCEPT !.token = token, !.version = version]
  <1>1. job[c] \in Jobs /\ job[c].draft \in Contents /\ token \in Tokens
    BY BoundsAssumption
    DEF PagesOK, MemoryOK, WellFormed, PreviewCommit, Tokens
  <1>2. fresh \in PreviewRecords
    BY <1>1 DEF PreviewRecords, Jobs, PersistedOK, WorldOK, Fingerprints
  <1>3. held \in Jobs
    BY <1>1, NoJobType DEF Jobs, PersistedOK
  <1>4. status' \in TaskStatuses
    BY <1>1, StatusType DEF PreviewCommit, PersistedOK
  <1>5. PersistedOK'
    BY <1>1, <1>2, <1>4, RecoveredAttemptType DEF PreviewCommit, PersistedOK
  <1>6. MemoryOK'
    BY <1>1 DEF PreviewCommit, MemoryOK
  <1>7. WorldOK' /\ ConsoleOK' /\ ExecOK'
    BY DEF PreviewCommit, world, console, WorldOK, ConsoleOK, ExecOK
  <1>8. Goto(c, "previewed", held)
    BY DEF PreviewCommit
  <1> HIDE DEF held
  <1>9. PagesOK' /\ pc'[c] = "previewed"
        /\ \A d \in Callers \ {c} : pc'[d] = pc[d] /\ job'[d] = job[d]
    BY <1>3, <1>8, GotoType DEF PageStates
  <1>10. WellFormed'
    BY <1>9, RecoveredAttemptType DEF PreviewCommit, WellFormed, AttemptStages
  <1> QED
    BY <1>5, <1>6, <1>7, <1>9, <1>10

LEMMA SendType ==
  ASSUME TypeInv, NEW c \in Callers, Send(c) \/ SendRejected(c)
  PROVE  TypeInv'
  <1> USE DEF TypeInv, TypeOK
  <1>1. CASE Send(c)
    <2> DEFINE n == issued.sends + 1
    <2>1. n \in SendIds /\ n # 0
      BY <1>1, BoundsAssumption DEF Send, MemoryOK, SendIds
    <2>2. PICK resume \in {FALSE, AttemptMatchesPreview} :
            LET id == IF resume THEN attempt.id ELSE n
            IN  /\ attempt' = [id |-> id, completion |-> n, kind |-> preview.kind,
                               fp |-> draft, version |-> version,
                               requirement |-> preview.requirement,
                               status |-> "queued", expired |-> FALSE]
                /\ ckpt' = IF resume THEN ckpt ELSE NoCheckpoints
                /\ activeAttemptIds' = activeAttemptIds \cup {id}
                /\ Goto(c, "sending", [NoJob EXCEPT !.id = id, !.completion = n,
                                                    !.kind = preview.kind])
      BY <1>1, Zenon DEF Send
    <2> DEFINE id == IF resume THEN attempt.id ELSE n
               held == [NoJob EXCEPT !.id = id, !.completion = n, !.kind = preview.kind]
    <2>3. resume => attempt.id # 0
      <3>1. AttemptMatchesPreview => attempt.id # 0
        BY RecoveredAttemptType DEF AttemptMatchesPreview
      <3> QED
        BY <3>1
    <2>4. id \in SendIds /\ id # 0
      BY <2>1, <2>3 DEF PersistedOK, AttemptRecords
    <2>5. preview.kind \in Kinds /\ preview.requirement \in Nat
      BY DEF PersistedOK, PreviewRecords
    <2>6. held \in Jobs /\ held.id # 0
      BY <2>1, <2>4, <2>5, NoJobType DEF Jobs
    <2>7. attempt' \in AttemptRecords /\ attempt'.id # 0 /\ attempt'.fp \in Contents
      BY <2>1, <2>2, <2>4, <2>5
      DEF PersistedOK, AttemptRecords, AttemptStatuses, ActiveStatuses, Fingerprints
    <2>8. PersistedOK'
      BY <1>1, <2>2, <2>7, NoPreviewType, CheckpointsType DEF Send, PersistedOK, TaskStatuses
    <2>9. MemoryOK'
      BY <1>1, <2>1, <2>2, <2>4, BoundsAssumption DEF Send, MemoryOK, Tokens
    <2>10. WorldOK' /\ ConsoleOK' /\ ExecOK'
      BY <1>1 DEF Send, world, console, WorldOK, ConsoleOK, ExecOK
    <2>11. Goto(c, "sending", held)
      BY <2>2
    <2> HIDE DEF held
    <2>12. PagesOK' /\ pc'[c] = "sending" /\ job'[c] = held
           /\ \A d \in Callers \ {c} : pc'[d] = pc[d] /\ job'[d] = job[d]
      BY <2>6, <2>11, GotoType DEF PageStates
    <2>13. WellFormed'
      BY <2>6, <2>7, <2>12 DEF WellFormed
    <2> QED
      BY <2>8, <2>9, <2>10, <2>12, <2>13
  <1>2. CASE SendRejected(c)
    <2>1. PersistedOK'
      BY <1>2, NoPreviewType, RecoveredAttemptType, StatusType DEF SendRejected, PersistedOK
    <2>2. MemoryOK' /\ WorldOK' /\ ConsoleOK' /\ ExecOK'
      BY <1>2, BoundsAssumption
      DEF SendRejected, world, console, MemoryOK, WorldOK, ConsoleOK, ExecOK, Tokens
    <2>3. PagesOK' /\ pc'[c] = "idle"
          /\ \A d \in Callers \ {c} : pc'[d] = pc[d] /\ job'[d] = job[d]
      BY <1>2, NoJobType, GotoType DEF SendRejected, Leave, PageStates
    <2>4. WellFormed'
      BY <1>2, <2>3, RecoveredAttemptType DEF SendRejected, WellFormed, AttemptStages
    <2> QED
      BY <2>1, <2>2, <2>3, <2>4
  <1> QED
    BY <1>1, <1>2

LEMMA HelperType ==
  ASSUME TypeInv, NEW c \in Callers, NEW i \in 1..MaxSends, HelperBegin(c) \/ Run(c, i)
  PROVE  TypeInv'
  <1> USE DEF TypeInv, TypeOK
  <1>1. PersistedOK' /\ MemoryOK' /\ WorldOK' /\ PagesOK'
        /\ UNCHANGED <<pc, job, attempt>>
    BY DEF HelperBegin, Run, HelperReadRecords, HelperSubmit, HelperClick, HelperVerify,
           HelperFail, persisted, memory, world, PersistedOK, MemoryOK, WorldOK, PagesOK
  <1>2. WellFormed'
    BY <1>1 DEF WellFormed
  <1>3. exec[c][i] \in Execs /\ visible \in Nat /\ Len(ledger) \in Nat
    <2>1. exec[c][i] \in Execs
      BY DEF ExecOK
    <2>2. visible \in Nat /\ Len(ledger) \in Nat
      BY DEF ConsoleOK
    <2> QED
      BY <2>1, <2>2
  <1>4. CASE HelperBegin(c)
    <2>1. PICK stage \in {"config", "failed"} :
            SetExec(c, job[c].id, [NoExec EXCEPT !.stage = stage, !.kind = job[c].kind])
      BY <1>4 DEF HelperBegin
    <2>2. job[c].id \in 1..MaxSends /\ job[c].kind \in Kinds
      BY <1>4, BoundsAssumption
      DEF HelperBegin, PagesOK, WellFormed, AttemptStages, Jobs, SendIds
    <2>3. [NoExec EXCEPT !.stage = stage, !.kind = job[c].kind] \in Execs
      BY <2>2, NoExecType DEF Execs, ExecStages
    <2> QED
      BY <1>1, <1>2, <1>4, <2>1, <2>2, <2>3, SetExecType DEF HelperBegin, console, ConsoleOK
  <1>5. CASE HelperReadRecords(c, i) \/ HelperSubmit(c, i) \/ HelperFail(c, i)
    <2>1. ConsoleOK'
      BY <1>5 DEF HelperReadRecords, HelperSubmit, HelperFail, console, ConsoleOK
    <2>2. PICK e \in Execs : SetExec(c, i, e)
      <3>1. CASE HelperReadRecords(c, i)
        <4> DEFINE refused == exec[c][i].kind = "initial" /\ visible > 0
                   e == [exec[c][i] EXCEPT !.stage = IF refused THEN "failed" ELSE "ready",
                                           !.ckpt.before = visible]
        <4>1. e \in Execs
          BY <1>3 DEF Execs, ExecStages, Checkpoints
        <4>2. SetExec(c, i, e)
          BY <3>1 DEF HelperReadRecords
        <4> QED
          BY <4>1, <4>2
      <3>2. CASE HelperSubmit(c, i)
        <4> DEFINE e == [exec[c][i] EXCEPT !.stage = "submitting", !.ckpt.submit = "running",
                                           !.ckpt.started = Len(ledger)]
        <4>1. e \in Execs
          BY <1>3 DEF Execs, ExecStages, Checkpoints, SubmitStates
        <4>2. SetExec(c, i, e)
          BY <3>2 DEF HelperSubmit
        <4> QED
          BY <4>1, <4>2
      <3>3. CASE HelperFail(c, i)
        <4>1. [exec[c][i] EXCEPT !.stage = "failed"] \in Execs
          BY <1>3 DEF Execs, ExecStages
        <4> QED
          BY <3>3, <4>1 DEF HelperFail
      <3> QED
        BY <1>5, <3>1, <3>2, <3>3
    <2> QED
      BY <1>1, <1>2, <2>1, <2>2, SetExecType
  <1>6. CASE HelperClick(c, i)
    <2>1. [exec[c][i] EXCEPT !.stage = "clicked"] \in Execs
      BY <1>3 DEF Execs, ExecStages
    <2>2. [type |-> exec[c][i].kind, by |-> i] \in LedgerRecords
      BY <1>3, BoundsAssumption DEF Execs, LedgerRecords, SendIds
    <2>3. ledger' \in Seq(LedgerRecords) /\ Len(ledger') = Len(ledger) + 1
      BY <1>6, <2>2 DEF HelperClick, ConsoleOK
    <2>4. ConsoleOK'
      BY <1>6, <2>3 DEF HelperClick, ConsoleOK
    <2>5. ExecOK'
      BY <1>6, <2>1, SetExecType DEF HelperClick
    <2> QED
      BY <1>1, <1>2, <2>4, <2>5
  <1>7. CASE HelperVerify(c, i)
    <2> DEFINE match == AttemptSendRecord(ledger, visible, exec[c][i].kind,
                                          exec[c][i].ckpt.before, exec[c][i].ckpt.started)
               e == [exec[c][i] EXCEPT !.stage = IF match # 0 THEN "sent" ELSE "unknown",
                                       !.ckpt.submit = "completed",
                                       !.record = match, !.seen = visible]
    <2>1. match \in Nat
      BY <1>3, AttemptSendRecordType
    <2>2. SetExec(c, i, e) /\ UNCHANGED <<ledger, visible, restarts>>
      BY <1>7 DEF HelperVerify, console
    <2> HIDE DEF match
    <2>3. e \in Execs
      BY <1>3, <2>1 DEF Execs, ExecStages, Checkpoints, SubmitStates
    <2>4. ConsoleOK' /\ ExecOK'
      BY <2>2, <2>3, SetExecType DEF ConsoleOK
    <2> QED
      BY <1>1, <1>2, <2>4
  <1> QED
    BY <1>4, <1>5, <1>6, <1>7 DEF Run

(* The report of a helper, and what the locked sections make of it.          *)
LEMMA EnvelopeType ==
  ASSUME TypeInv, NEW c \in Callers, pc[c] = "sending"
  PROVE  /\ Envelope(c) \in Jobs /\ Envelope(c).id = job[c].id
         /\ [job[c] EXCEPT !.outcome = "error"] \in Jobs
  <1>1. job[c] \in Jobs /\ exec[c][job[c].id] \in Execs
    BY BoundsAssumption
    DEF TypeInv, TypeOK, PagesOK, ExecOK, WellFormed, AttemptStages, Jobs, SendIds
  <1>2. [job[c] EXCEPT !.outcome = "error"] \in Jobs
        /\ [job[c] EXCEPT !.outcome = "error"].id = job[c].id
    BY <1>1 DEF Jobs, Outcomes
  <1> DEFINE e == exec[c][job[c].id]
             posted == [job[c] EXCEPT !.outcome = e.stage, !.ckpt = e.ckpt,
                                      !.record = e.record, !.seen = e.seen]
  <1>3. e.stage \in {"sent", "unknown", "failed"} => posted \in Jobs /\ posted.id = job[c].id
    BY <1>1 DEF Jobs, Outcomes, Execs
  <1> QED
    BY <1>2, <1>3 DEF Envelope

LEMMA ReportType ==
  ASSUME TypeInv, NEW c \in Callers, Report(c)
  PROVE  TypeInv'
  <1> USE DEF TypeInv, TypeOK
  <1>1. PersistedOK' /\ MemoryOK' /\ WorldOK' /\ ConsoleOK' /\ ExecOK' /\ UNCHANGED attempt
    BY DEF Report, persisted, memory, world, console, PersistedOK, MemoryOK, WorldOK, ConsoleOK,
           ExecOK
  <1>2. PICK place \in {"idle", "expiring", "merging"}, locals \in Jobs :
          /\ Goto(c, place, locals)
          /\ place # "idle" => locals.id # 0
    <2>1. /\ Envelope(c) \in Jobs /\ Envelope(c).id = job[c].id
          /\ [job[c] EXCEPT !.outcome = "error"] \in Jobs
          /\ [job[c] EXCEPT !.outcome = "error"].id = job[c].id
          /\ job[c].id # 0
      BY EnvelopeType DEF Report, PagesOK, Jobs, WellFormed, AttemptStages
    <2>2. \/ Leave(c)
          \/ Goto(c, "expiring", [job[c] EXCEPT !.outcome = "error"])
          \/ \E posted \in {Envelope(c), [job[c] EXCEPT !.outcome = "error"]} :
                Goto(c, "merging", posted)
      BY DEF Report
    <2> QED
      BY <2>1, <2>2, NoJobType DEF Leave
  <1>3. PagesOK' /\ pc'[c] = place /\ job'[c] = locals
        /\ \A d \in Callers \ {c} : pc'[d] = pc[d] /\ job'[d] = job[d]
    BY <1>2, GotoType DEF PageStates
  <1>4. WellFormed'
    BY <1>1, <1>2, <1>3 DEF WellFormed, AttemptStages
  <1> QED
    BY <1>1, <1>3, <1>4

LEMMA MergeType ==
  ASSUME TypeInv, NEW c \in Callers, ReportMerge(c)
  PROVE  TypeInv'
  <1> USE DEF TypeInv, TypeOK
  <1>1. job[c] \in Jobs /\ job[c].id # 0 /\ job[c].ckpt \in Checkpoints
    BY DEF ReportMerge, PagesOK, WellFormed, AttemptStages, Jobs
  <1>2. attempt' \in AttemptRecords /\ attempt'.id = attempt.id /\ attempt'.fp = attempt.fp
        /\ (attempt.id = 0 => attempt'.status = "none")
    <2>1. CASE attempt.id = job[c].id
      BY <1>1, <2>1
      DEF ReportMerge, PersistedOK, AttemptRecords, AttemptStatuses, ActiveStatuses
    <2>2. CASE attempt.id # job[c].id
      BY <2>2 DEF ReportMerge, PersistedOK, WellFormed
    <2> QED
      BY <2>1, <2>2
  <1>3. status' \in TaskStatuses /\ ckpt' \in Checkpoints
    BY <1>1 DEF ReportMerge, MergedCheckpoints, PersistedOK, TaskStatuses
  <1>4. PersistedOK'
    BY <1>2, <1>3 DEF ReportMerge, PersistedOK
  <1>5. MemoryOK' /\ WorldOK' /\ ConsoleOK' /\ ExecOK'
    BY DEF ReportMerge, memory, world, console, MemoryOK, WorldOK, ConsoleOK, ExecOK
  <1>6. PagesOK' /\ pc'[c] = "finishing" /\ job'[c] = job[c]
        /\ \A d \in Callers \ {c} : pc'[d] = pc[d] /\ job'[d] = job[d]
    BY <1>1, GotoType DEF ReportMerge, PageStates
  <1>7. WellFormed'
    BY <1>1, <1>2, <1>6 DEF WellFormed, AttemptStages
  <1> QED
    BY <1>4, <1>5, <1>6, <1>7

LEMMA ConcludeType ==
  ASSUME TypeInv, NEW s \in RecoveryStatuses \cup {"sent"}, Conclude(s), attempt.id # 0
  PROVE  /\ status' \in TaskStatuses /\ attempt' \in AttemptRecords
         /\ attempt'.id = attempt.id /\ attempt'.fp = attempt.fp /\ attempt'.status = s
  BY DEF TypeInv, TypeOK, PersistedOK, Conclude, TaskStatuses, RecoveryStatuses,
         AttemptRecords, AttemptStatuses

LEMMA MarkSentType ==
  ASSUME TypeInv, NEW record \in Nat, NEW seen \in Nat, MarkSent(record, seen),
         attempt.id # 0
  PROVE  /\ history' \in Seq(HistoryRecords) /\ lastSuccessful' \in Fingerprints
         /\ snapshotRecords' \in Nat
  <1> USE DEF TypeInv, TypeOK
  <1>1. [attempt |-> attempt.id, fp |-> attempt.fp, record |-> record] \in HistoryRecords
    BY DEF PersistedOK, AttemptRecords, HistoryRecords
  <1>2. WithHistory(record) \in Seq(HistoryRecords)
    BY <1>1 DEF WithHistory, PersistedOK
  <1> QED
    BY <1>2 DEF MarkSent, PersistedOK, AttemptRecords

LEMMA ConcludingType ==
  ASSUME TypeInv, NEW c \in Callers,
         ReportFinish(c) \/ ReportExpired(c) \/ RecheckCommit(c)
  PROVE  TypeInv'
  <1> USE DEF TypeInv, TypeOK
  <1>1. job[c] \in Jobs /\ job[c].id # 0 /\ job[c].record \in Nat /\ job[c].seen \in Nat
    BY DEF ReportFinish, ReportExpired, RecheckCommit, PagesOK, WellFormed, AttemptStages, Jobs
  <1>2. MemoryOK' /\ WorldOK' /\ ConsoleOK' /\ ExecOK'
    BY DEF ReportFinish, ReportExpired, RecheckCommit, memory, world, console, MemoryOK,
           WorldOK, ConsoleOK, ExecOK
  <1>3. PagesOK' /\ pc'[c] = "idle"
        /\ \A d \in Callers \ {c} : pc'[d] = pc[d] /\ job'[d] = job[d]
    BY NoJobType, GotoType DEF ReportFinish, ReportExpired, RecheckCommit, Leave, PageStates
  <1>4. \/ attempt.id = job[c].id /\ MarkSent(job[c].record, job[c].seen)
           /\ confirmed' \in {confirmed, attempt.fp}
        \/ /\ attempt.id = job[c].id
           /\ \E s \in RecoveryStatuses : Conclude(s)
           /\ UNCHANGED <<confirmed, lastSuccessful, history, snapshotRecords>>
        \/ UNCHANGED <<status, attempt, confirmed, lastSuccessful, history, snapshotRecords>>
    <2>1. ckpt \in Checkpoints /\ FailureStatus(ckpt) \in RecoveryStatuses
          /\ "result_unknown" \in RecoveryStatuses
      BY FailureStatusType DEF PersistedOK, RecoveryStatuses
    <2> QED
      BY <2>1 DEF ReportFinish, ReportExpired, RecheckCommit
  <1>5. UNCHANGED <<draft, version, preview, ckpt>>
    BY DEF ReportFinish, ReportExpired, RecheckCommit
  <1>6. CASE attempt.id = job[c].id /\ MarkSent(job[c].record, job[c].seen)
             /\ confirmed' \in {confirmed, attempt.fp}
    <2>1. Conclude("sent") /\ attempt.id # 0
      BY <1>1, <1>6 DEF MarkSent
    <2>2. PersistedOK'
      BY <1>1, <1>5, <1>6, <2>1, ConcludeType, MarkSentType DEF PersistedOK, WellFormed
    <2>3. WellFormed'
      BY <1>3, <2>1, ConcludeType DEF WellFormed, AttemptStages
    <2> QED
      BY <1>2, <1>3, <2>2, <2>3
  <1>7. CASE /\ attempt.id = job[c].id
             /\ \E s \in RecoveryStatuses : Conclude(s)
             /\ UNCHANGED <<confirmed, lastSuccessful, history, snapshotRecords>>
    <2>1. PersistedOK'
      BY <1>1, <1>5, <1>7, ConcludeType DEF PersistedOK
    <2>2. WellFormed'
      BY <1>1, <1>3, <1>7, ConcludeType DEF WellFormed, AttemptStages
    <2> QED
      BY <1>2, <1>3, <2>1, <2>2
  <1>8. CASE UNCHANGED <<status, attempt, confirmed, lastSuccessful, history,
                         snapshotRecords>>
    BY <1>2, <1>3, <1>5, <1>8 DEF PersistedOK, WellFormed, AttemptStages
  <1> QED
    BY <1>4, <1>6, <1>7, <1>8

LEMMA RecheckType ==
  ASSUME TypeInv, NEW c \in Callers,
         PrepareRecheck(c) \/ HelperRecheck(c) \/ RecheckRead(c) \/ GiveUp(c) \/ Collide(c)
  PROVE  TypeInv'
  <1> USE DEF TypeInv, TypeOK
  <1>1. PersistedOK' /\ MemoryOK' /\ WorldOK' /\ ConsoleOK' /\ ExecOK' /\ UNCHANGED attempt
    BY DEF PrepareRecheck, HelperRecheck, RecheckRead, GiveUp, Collide, persisted, memory,
           world, console, PersistedOK, MemoryOK, WorldOK, ConsoleOK, ExecOK
  <1>2. job[c] \in Jobs /\ visible \in Nat
    BY DEF PagesOK, ConsoleOK
  <1>3. PICK place \in {"idle", "rechecking", "rechecked", "reconciling"}, locals \in Jobs :
          /\ Goto(c, place, locals)
          /\ place = "reconciling" => locals.id # 0
    <2>1. CASE PrepareRecheck(c)
      <3>1. [NoJob EXCEPT !.kind = attempt.kind, !.ckpt = ckpt] \in Jobs
        BY NoJobType DEF Jobs, PersistedOK, AttemptRecords
      <3> QED
        BY <2>1, <3>1 DEF PrepareRecheck
    <2>2. CASE HelperRecheck(c)
      <3> DEFINE match == AttemptSendRecord(ledger, visible, job[c].kind,
                                            job[c].ckpt.before, job[c].ckpt.started)
      <3>1. Goto(c, "rechecked", [job[c] EXCEPT !.seen = visible, !.record = match])
        BY <2>2 DEF HelperRecheck
      <3>2. match \in Nat
        BY <1>2, AttemptSendRecordType
      <3> HIDE DEF match
      <3>3. [job[c] EXCEPT !.seen = visible, !.record = match] \in Jobs
        BY <1>2, <3>2 DEF Jobs
      <3> QED
        BY <3>1, <3>3
    <2>3. CASE RecheckRead(c)
      <3>1. [job[c] EXCEPT !.id = attempt.id] \in Jobs
            /\ [job[c] EXCEPT !.id = attempt.id].id = attempt.id
        BY <1>2 DEF Jobs, PersistedOK, AttemptRecords
      <3> QED
        BY <2>3, <3>1, NoJobType DEF RecheckRead, Leave
    <2>4. CASE GiveUp(c) \/ Collide(c)
      BY <2>4, NoJobType DEF GiveUp, Collide, Leave
    <2> QED
      BY <2>1, <2>2, <2>3, <2>4
  <1>4. PagesOK' /\ pc'[c] = place /\ job'[c] = locals
        /\ \A d \in Callers \ {c} : pc'[d] = pc[d] /\ job'[d] = job[d]
    BY <1>3, GotoType DEF PageStates
  <1>5. WellFormed'
    BY <1>1, <1>3, <1>4 DEF WellFormed, AttemptStages
  <1> QED
    BY <1>1, <1>4, <1>5

LEMMA EnvironmentType ==
  ASSUME TypeInv, Environment
  PROVE  TypeInv'
  <1> USE DEF TypeInv, TypeOK
  <1>1. CASE PreviewExpires
    BY <1>1, BoundsAssumption
    DEF PreviewExpires, persisted, world, console, PersistedOK, MemoryOK, WorldOK, PagesOK,
        ExecOK, ConsoleOK, WellFormed, Tokens
  <1>2. CASE LocalExecutionExpires
    <2>1. attempt' \in AttemptRecords /\ attempt'.id = attempt.id /\ attempt'.fp = attempt.fp
          /\ attempt'.status = attempt.status
      BY <1>2 DEF LocalExecutionExpires, PersistedOK, AttemptRecords
    <2> QED
      BY <1>2, <2>1
      DEF LocalExecutionExpires, memory, world, console, PersistedOK, MemoryOK, WorldOK,
          PagesOK, ExecOK, ConsoleOK, WellFormed
  <1>3. CASE RecordAppears \/ ForeignSend
    <2>1. ConsoleOK'
      <3>1. CASE RecordAppears
        BY <3>1 DEF RecordAppears, ConsoleOK
      <3>2. CASE ForeignSend
        <4>1. PICK r \in LedgerRecords : ledger' = Append(ledger, r)
          BY <3>2, BoundsAssumption DEF ForeignSend, LedgerRecords, Kinds, SendIds
        <4> QED
          BY <3>2, <4>1 DEF ForeignSend, ConsoleOK
      <3> QED
        BY <1>3, <3>1, <3>2
    <2> QED
      BY <1>3, <2>1
      DEF RecordAppears, ForeignSend, persisted, memory, world, PersistedOK, MemoryOK,
          WorldOK, PagesOK, ExecOK, WellFormed
  <1>4. CASE RequirementChanges
    <2>1. requirement' \in Nat /\ schedule' \in Nat
      BY <1>4 DEF RequirementChanges, WorldOK
    <2>2. pendingChange' \in BOOLEAN
      BY <1>4 DEF RequirementChanges, WorldOK
    <2> QED
      BY <1>4, <2>1, <2>2
      DEF RequirementChanges, persisted, memory, console, PersistedOK, MemoryOK,
          WorldOK, PagesOK, ExecOK, ConsoleOK, WellFormed
  <1>5. CASE ServerRestart
    <2>1. PersistedOK' /\ MemoryOK' /\ WorldOK' /\ ExecOK' /\ ConsoleOK' /\ UNCHANGED attempt
      BY <1>5, BoundsAssumption
      DEF ServerRestart, persisted, world, console, PersistedOK, MemoryOK, WorldOK,
          ExecOK, ConsoleOK, Tokens
    <2>2. PagesOK' /\ \A c \in Callers : \/ pc'[c] = "idle"
                                         \/ pc'[c] = pc[c] /\ job'[c] = job[c]
      BY <1>5, NoJobType DEF ServerRestart, PagesOK, PageStates
    <2>3. WellFormed'
      BY <2>1, <2>2 DEF WellFormed, AttemptStages
    <2> QED
      BY <2>1, <2>2, <2>3
  <1> QED
    BY <1>1, <1>2, <1>3, <1>4, <1>5 DEF Environment

LEMMA TypeStep == TypeInv /\ [Next]_vars => TypeInv'
  <1> SUFFICES ASSUME TypeInv, [Next]_vars PROVE TypeInv'
    OBVIOUS
  <1>1. CASE \E content \in Contents : Edit(content)
    BY <1>1, EditType
  <1>2. ASSUME NEW c \in Callers, Serve(c) PROVE TypeInv'
    <2>1. CASE PreparePreview(c) \/ HelperInspect(c) \/ PreviewBegin(c)
      BY <2>1, PreviewType
    <2>2. CASE RecognizeInitialSend(c)
      BY <2>2, AdoptionType
    <2>3. CASE PreviewCommit(c)
      BY <2>3, CommitType
    <2>4. CASE Send(c) \/ SendRejected(c)
      BY <2>4, SendType
    <2>5. CASE HelperBegin(c)
      <3>1. 1 \in 1..MaxSends
        BY <2>5, BoundsAssumption
        DEF HelperBegin, TypeInv, TypeOK, PagesOK, WellFormed, AttemptStages, Jobs, SendIds
      <3> QED
        BY <2>5, <3>1, HelperType
    <2>6. CASE Report(c)
      BY <2>6, ReportType
    <2>7. CASE ReportMerge(c)
      BY <2>7, MergeType
    <2>8. CASE ReportFinish(c) \/ ReportExpired(c) \/ RecheckCommit(c)
      BY <2>8, ConcludingType
    <2>9. CASE PrepareRecheck(c) \/ HelperRecheck(c) \/ RecheckRead(c) \/ GiveUp(c) \/ Collide(c)
      BY <2>9, RecheckType
    <2> QED
      BY <1>2, <2>1, <2>2, <2>3, <2>4, <2>5, <2>6, <2>7, <2>8, <2>9 DEF Serve
  <1>3. ASSUME NEW c \in Callers, NEW i \in 1..MaxSends, Run(c, i) PROVE TypeInv'
    BY <1>3, HelperType
  <1>4. CASE Environment
    BY <1>4, EnvironmentType
  <1>5. CASE UNCHANGED vars
    BY <1>5
    DEF vars, persisted, memory, world, console, TypeInv, TypeOK, PersistedOK, MemoryOK,
        WorldOK, PagesOK, ExecOK, ConsoleOK, WellFormed
  <1> QED
    BY <1>1, <1>2, <1>3, <1>4, <1>5 DEF Next

(* The type invariant holds of every behaviour: the persisted key, the       *)
(* handlers' locals, the helpers' progress and the console's ledger keep to  *)
(* the values operation_personnel_task_service.mjs gives them.               *)
THEOREM TypeCorrect == Spec => []TypeOK
  <1>1. TypeInv => TypeOK
    BY DEF TypeInv
  <1> QED
    BY <1>1, TypeInit, TypeStep, PTL DEF Spec
-----------------------------------------------------------------------------
(* What a failed attempt may still be used for, and what enters the send    *)
(* history.                                                                 *)

(* A failed attempt that may be resumed never reached the boundary.          *)
BoundaryInv == attempt.status = "failed_resumable" => ckpt.submit = "none"

(* The last successful content is the last one recorded, ids are issued in   *)
(* order, and the attempt at hand is recorded exactly if its content is the  *)
(* last successful one.                                                      *)
HistoryInv ==
    /\ attempt.id <= issued.sends
    /\ \A k \in DOMAIN history :
          history[k].attempt <= issued.sends /\ history[k].fp # None
    /\ history = <<>> => lastSuccessful = None
    /\ history # <<>> => lastSuccessful = history[Len(history)].fp
    /\ attempt.id # 0 => (InHistory(attempt.id) <=> attempt.fp = lastSuccessful)
    /\ HistoryOncePerAttempt
    /\ NoRepeatedContent

SafetyInv == TypeInv /\ BoundaryInv /\ HistoryInv

(* Every step is one of five kinds: it leaves the attempt alone but for      *)
(* recovery and expiry, or it adopts a foreign send, accepts a send, merges  *)
(* a report or concludes an attempt.                                         *)
Quiet ==
    /\ UNCHANGED <<ckpt, lastSuccessful, history>>
    /\ issued'.sends = issued.sends
    /\ activeAttemptIds' \subseteq activeAttemptIds
    /\ status' = "result_unknown" => status = "result_unknown"
    /\ attempt' \in {attempt, RecoveredAttempt, [attempt EXCEPT !.expired = TRUE]}

Adopting == \E c \in Callers : RecognizeInitialSend(c)
Sending == \E c \in Callers : Send(c)
Merging == \E c \in Callers : ReportMerge(c)
Concluding ==
    \E c \in Callers : ReportFinish(c) \/ ReportExpired(c) \/ RecheckCommit(c)

LEMMA StepKinds ==
  ASSUME TypeInv, [Next]_vars
  PROVE  Quiet \/ Adopting \/ Sending \/ Merging \/ Concluding
  <1>1. CASE \E content \in Contents : Edit(content)
    <2>1. PICK content \in Contents : Edit(content)
      BY <1>1
    <2>2. status' # "result_unknown"
      BY <2>1 DEF Edit, buildStatus, RecoveryStatuses
    <2> QED
      BY <2>1, <2>2 DEF Edit, Quiet
  <1>2. ASSUME NEW c \in Callers, Serve(c)
        PROVE  Quiet \/ Adopting \/ Sending \/ Merging \/ Concluding
    <2>1. CASE PreparePreview(c) \/ HelperInspect(c) \/ PreviewBegin(c) \/ HelperBegin(c)
               \/ Report(c) \/ PrepareRecheck(c) \/ HelperRecheck(c) \/ RecheckRead(c)
               \/ GiveUp(c) \/ Collide(c)
      BY <2>1
      DEF PreparePreview, HelperInspect, PreviewBegin, HelperBegin, Report, PrepareRecheck,
          HelperRecheck, RecheckRead, GiveUp, Collide, persisted, memory, Quiet
    <2>2. CASE PreviewCommit(c)
      <3>1. issued'.sends = issued.sends
        BY <2>2 DEF PreviewCommit, TypeInv, TypeOK, MemoryOK
      <3>2. status' = "result_unknown" => status = "result_unknown"
        BY <2>2 DEF PreviewCommit, buildStatus, RecoveryStatuses
      <3> QED
        BY <2>2, <3>1, <3>2 DEF PreviewCommit, Quiet
    <2>3. CASE SendRejected(c)
      BY <2>3 DEF SendRejected, SendIdle, Quiet
    <2> QED
      BY <1>2, <2>1, <2>2, <2>3 DEF Serve, Adopting, Sending, Merging, Concluding
  <1>3. ASSUME NEW c \in Callers, NEW i \in 1..MaxSends, Run(c, i) PROVE Quiet
    BY <1>3
    DEF Run, HelperReadRecords, HelperSubmit, HelperClick, HelperVerify, HelperFail,
        persisted, memory, Quiet
  <1>4. CASE Environment
    BY <1>4
    DEF Environment, PreviewExpires, LocalExecutionExpires, RecordAppears, ForeignSend,
        RequirementChanges, ServerRestart, persisted, memory, Quiet
  <1>5. CASE UNCHANGED vars
    BY <1>5 DEF vars, persisted, memory, Quiet
  <1> QED
    BY <1>1, <1>2, <1>3, <1>4, <1>5 DEF Next

LEMMA RecoveredStatus ==
  ASSUME TypeInv, BoundaryInv
  PROVE  /\ AttemptStatus = "failed_resumable" => ckpt.submit = "none"
         /\ RecoveredAttempt.status = AttemptStatus
  BY DEF TypeInv, TypeOK, PersistedOK, AttemptRecords, BoundaryInv, RecoveredAttempt,
         AttemptStatus, recoveredAttemptStatus, FailureStatus, irreversibleBoundaryReached

LEMMA QuietAttempt ==
  ASSUME TypeInv, Quiet
  PROVE  /\ attempt'.id = attempt.id /\ attempt'.fp = attempt.fp
         /\ attempt'.status \in {attempt.status, AttemptStatus}
  BY RecoveredAttemptType DEF TypeInv, TypeOK, PersistedOK, AttemptRecords, Quiet, RecoveredAttempt

(* What send makes of the attempt: a new one, or the failed one taken up     *)
(* again for the same content.                                               *)
LEMMA SendEffect ==
  ASSUME TypeInv, NEW c \in Callers, Send(c)
  PROVE  /\ SendIdle /\ lastSuccessful # draft
         /\ UNCHANGED <<lastSuccessful, history>>
         /\ issued'.sends = issued.sends + 1
         /\ attempt'.fp = draft /\ attempt'.status = "queued"
         /\ activeAttemptIds' = activeAttemptIds \cup {attempt'.id}
         /\ \/ attempt'.id = issued.sends + 1
            \/ attempt'.id = attempt.id /\ AttemptStatus = "failed_resumable" /\ attempt.fp = draft
  <1>1. PICK resume \in {FALSE, AttemptMatchesPreview} :
          LET n == issued.sends + 1
              id == IF resume THEN attempt.id ELSE n
          IN  /\ attempt' = [id |-> id, completion |-> n, kind |-> preview.kind,
                             fp |-> draft, version |-> version,
                             requirement |-> preview.requirement,
                             status |-> "queued", expired |-> FALSE]
              /\ activeAttemptIds' = activeAttemptIds \cup {id}
    BY Zenon DEF Send
  <1>2. resume => AttemptStatus = "failed_resumable" /\ attempt.fp = draft
    <2>1. AttemptMatchesPreview => AttemptStatus = "failed_resumable" /\ attempt.fp = draft
      BY DEF AttemptMatchesPreview
    <2> QED
      BY <2>1
  <1>3. attempt'.id = IF resume THEN attempt.id ELSE issued.sends + 1
    BY <1>1
  <1>4. attempt'.fp = draft /\ attempt'.status = "queued"
        /\ activeAttemptIds' = activeAttemptIds \cup {attempt'.id}
    BY <1>1
  <1>5. issued'.sends = issued.sends + 1
    BY DEF Send, TypeInv, TypeOK, MemoryOK
  <1>6. SendIdle /\ lastSuccessful # draft /\ UNCHANGED <<lastSuccessful, history>>
    BY DEF Send, SendAllowed, ContentChanged
  <1> QED
    BY <1>2, <1>3, <1>4, <1>5, <1>6

LEMMA BoundaryStep ==
  ASSUME TypeInv, BoundaryInv, [Next]_vars
  PROVE  BoundaryInv'
  <1>1. CASE Quiet
    BY <1>1, QuietAttempt, RecoveredStatus DEF Quiet, BoundaryInv
  <1>2. CASE Adopting
    BY <1>2 DEF Adopting, RecognizeInitialSend, BoundaryInv, NoAttempt
  <1>3. CASE Sending
    <2>1. attempt'.status = "queued"
      BY <1>3, SendEffect DEF Sending
    <2> QED
      BY <2>1 DEF BoundaryInv
  <1>4. CASE Merging
    <2>1. PICK c \in Callers : ReportMerge(c)
      BY <1>4 DEF Merging
    <2>2. CASE attempt.id = job[c].id
      <3>1. attempt'.status = "running"
        BY <2>1, <2>2 DEF ReportMerge, TypeInv, TypeOK, PersistedOK, AttemptRecords
      <3> QED
        BY <3>1 DEF BoundaryInv
    <2>3. CASE attempt.id # job[c].id
      BY <2>1, <2>3 DEF ReportMerge, BoundaryInv
    <2> QED
      BY <2>2, <2>3
  <1>5. CASE Concluding
    <2>1. PICK c \in Callers : ReportFinish(c) \/ ReportExpired(c) \/ RecheckCommit(c)
      BY <1>5 DEF Concluding
    <2>2. ckpt' = ckpt
      BY <2>1 DEF ReportFinish, ReportExpired, RecheckCommit
    <2>3. attempt' = attempt \/ \E s \in {"sent", "result_unknown", FailureStatus(ckpt)} :
                                   attempt'.status = s
      BY <2>1
      DEF ReportFinish, ReportExpired, RecheckCommit, MarkSent, Conclude, TypeInv, TypeOK,
          PersistedOK, AttemptRecords
    <2> QED
      BY <2>2, <2>3 DEF BoundaryInv, FailureStatus, irreversibleBoundaryReached
  <1> QED
    BY <1>1, <1>2, <1>3, <1>4, <1>5, StepKinds

(* Once the server knows that the boundary was reached, no report, expiry,   *)
(* collision or restart ever offers the attempt for resumption (failAttempt, *)
(* recoverOrphanedAttempt).                                                  *)
THEOREM BoundaryHolds == Spec => []BoundaryNeverResumable
  <1>1. Init => BoundaryInv
    BY DEF Init, BoundaryInv, NoAttempt
  <1>2. TypeInv /\ BoundaryInv /\ [Next]_vars => (TypeInv /\ BoundaryInv)'
    BY TypeStep, BoundaryStep
  <1>3. TypeInv /\ BoundaryInv => BoundaryNeverResumable
    BY RecoveredStatus DEF BoundaryNeverResumable, irreversibleBoundaryReached
  <1> QED
    BY <1>1, <1>2, <1>3, TypeInit, PTL DEF Spec

-----------------------------------------------------------------------------
(* Recording the attempt at hand: it is appended unless it is there already. *)
LEMMA RecordStep ==
  ASSUME TypeInv, HistoryInv, attempt.id # 0, NEW record \in Nat,
         history' = WithHistory(record), lastSuccessful' = attempt.fp,
         attempt'.id = attempt.id, attempt'.fp = attempt.fp, issued'.sends = issued.sends
  PROVE  HistoryInv'
  <1> DEFINE entry == [attempt |-> attempt.id, fp |-> attempt.fp, record |-> record]
  <1>1. attempt.fp \in Contents /\ attempt.fp # None
    BY ContentsAssumption DEF TypeInv, WellFormed
  <1>2. history \in Seq(HistoryRecords) /\ entry \in HistoryRecords
    BY DEF TypeInv, TypeOK, PersistedOK, HistoryRecords, AttemptRecords
  <1>3. CASE InHistory(attempt.id)
    <2>1. history' = history /\ lastSuccessful' = lastSuccessful
      BY <1>3 DEF WithHistory, HistoryInv
    <2> QED
      BY <2>1 DEF HistoryInv, InHistory, HistoryOncePerAttempt, NoRepeatedContent
  <1>4. CASE ~InHistory(attempt.id)
    <2>1. history' = Append(history, entry)
      BY <1>4 DEF WithHistory
    <2>2. /\ Len(history') = Len(history) + 1 /\ Len(history) \in Nat
          /\ DOMAIN history' = 1..(Len(history) + 1) /\ DOMAIN history = 1..Len(history)
          /\ \A k \in 1..Len(history) : history'[k] = history[k]
          /\ history'[Len(history) + 1] = entry
      BY <1>2, <2>1
    <2>3. attempt.fp # lastSuccessful
      BY <1>4 DEF HistoryInv
    <2> HIDE DEF entry
    <2>4. entry.attempt = attempt.id /\ entry.fp = attempt.fp
      BY DEF entry
    <2>5. \A k \in DOMAIN history' :
             history'[k].attempt <= issued'.sends /\ history'[k].fp # None
      BY <1>1, <2>2, <2>4 DEF HistoryInv
    <2>6. history' # <<>> /\ lastSuccessful' = history'[Len(history')].fp
      BY <2>2, <2>4
    <2>7. InHistory(attempt.id)'
      BY <2>2, <2>4 DEF InHistory
    <2>8. HistoryOncePerAttempt'
      BY <1>4, <2>2, <2>4 DEF HistoryInv, HistoryOncePerAttempt, InHistory
    <2>9. NoRepeatedContent'
      <3>1. history # <<>> => history[Len(history)].fp # entry.fp
        BY <2>3, <2>4 DEF HistoryInv
      <3>2. Len(history) # 0 => history # <<>>
        BY <2>2
      <3> QED
        BY <2>2, <3>1, <3>2 DEF HistoryInv, NoRepeatedContent
    <2> QED
      BY <2>5, <2>6, <2>7, <2>8, <2>9 DEF HistoryInv, InHistory
  <1> QED
    BY <1>3, <1>4

LEMMA AdoptionStep ==
  ASSUME TypeInv, HistoryInv, Adopting
  PROVE  /\ HistoryInv' /\ history = <<>>
         /\ \E i \in Nat : history' = <<[attempt |-> 0, fp |-> External, record |-> i]>>
         /\ attempt' = NoAttempt
  <1>1. PICK c \in Callers : RecognizeInitialSend(c)
    BY DEF Adopting
  <1>2. history = <<>>
    <2>1. ASSUME history # <<>> PROVE FALSE
      <3>1. Len(history) \in DOMAIN history
        BY <2>1 DEF TypeInv, TypeOK, PersistedOK
      <3> QED
        BY <1>1, <2>1, <3>1 DEF HistoryInv, RecognizeInitialSend
    <2> QED
      BY <2>1
  <1>3. PICK i \in InitialRecords(job[c]) :
          history' = Append(history, [attempt |-> 0, fp |-> External, record |-> i])
    BY <1>1 DEF RecognizeInitialSend
  <1>4. i \in Nat
    BY DEF InitialRecords, TypeInv, TypeOK, PagesOK, Jobs
  <1>5. history' = <<[attempt |-> 0, fp |-> External, record |-> i]>>
    BY <1>2, <1>3
  <1>6. /\ Len(history') = 1 /\ DOMAIN history' = {1} /\ history' # <<>>
        /\ history'[1].attempt = 0 /\ history'[1].fp = External
    BY <1>5
  <1>7. attempt' = NoAttempt /\ lastSuccessful' = External /\ issued' = issued
    BY <1>1 DEF RecognizeInitialSend, memory
  <1>8. attempt'.id = 0 /\ issued'.sends \in Nat
    BY <1>7 DEF NoAttempt, TypeInv, TypeOK, MemoryOK, SendIds
  <1>9. HistoryInv'
    BY <1>6, <1>7, <1>8, ContentsAssumption
    DEF HistoryInv, HistoryOncePerAttempt, NoRepeatedContent
  <1> QED
    BY <1>2, <1>4, <1>5, <1>7, <1>9

LEMMA HistoryStep ==
  ASSUME TypeInv, HistoryInv, [Next]_vars
  PROVE  HistoryInv'
  <1>1. CASE Quiet
    BY <1>1, QuietAttempt
    DEF Quiet, HistoryInv, InHistory, HistoryOncePerAttempt, NoRepeatedContent
  <1>2. CASE Adopting
    BY <1>2, AdoptionStep
  <1>3. CASE Sending
    <2>1. PICK c \in Callers : Send(c)
      BY <1>3 DEF Sending
    <2>2. /\ UNCHANGED <<lastSuccessful, history>>
          /\ issued'.sends = issued.sends + 1 /\ issued.sends \in Nat
          /\ attempt'.fp = draft /\ lastSuccessful # draft
          /\ attempt'.id = issued.sends + 1 \/ (attempt'.id = attempt.id /\ attempt.fp = draft)
      BY <2>1, SendEffect DEF TypeInv, TypeOK, MemoryOK, SendIds
    <2>3. attempt.id \in Nat /\ \A k \in DOMAIN history : history[k].attempt \in Nat
      <3>1. attempt \in AttemptRecords /\ history \in Seq(HistoryRecords)
        BY DEF TypeInv, TypeOK, PersistedOK
      <3>2. attempt.id \in Nat
        BY <3>1 DEF AttemptRecords, SendIds
      <3>3. \A k \in DOMAIN history : history[k] \in HistoryRecords
        BY <3>1
      <3> QED
        BY <3>2, <3>3 DEF HistoryRecords, SendIds
    <2>4. attempt'.id <= issued'.sends
          /\ \A k \in DOMAIN history' : history'[k].attempt <= issued'.sends
      BY <2>2, <2>3 DEF HistoryInv
    <2>5. attempt'.id # 0 => ~InHistory(attempt'.id)
      BY <2>2, <2>3 DEF HistoryInv, InHistory
    <2> QED
      BY <2>2, <2>4, <2>5 DEF HistoryInv, InHistory, HistoryOncePerAttempt, NoRepeatedContent
  <1>4. CASE Merging
    <2>1. PICK c \in Callers : ReportMerge(c)
      BY <1>4 DEF Merging
    <2>2. attempt'.id = attempt.id /\ attempt'.fp = attempt.fp
          /\ UNCHANGED <<lastSuccessful, history, issued>>
      BY <2>1 DEF ReportMerge, memory, TypeInv, TypeOK, PersistedOK, AttemptRecords
    <2> QED
      BY <2>2 DEF HistoryInv, InHistory, HistoryOncePerAttempt, NoRepeatedContent
  <1>5. CASE Concluding
    <2>1. PICK c \in Callers : ReportFinish(c) \/ ReportExpired(c) \/ RecheckCommit(c)
      BY <1>5 DEF Concluding
    <2>2. /\ job[c].id # 0 /\ job[c].record \in Nat
          /\ issued' = issued
      BY <2>1
      DEF ReportFinish, ReportExpired, RecheckCommit, TypeInv, TypeOK, PagesOK, WellFormed,
          AttemptStages, Jobs, memory
    <2>3. \/ attempt.id = job[c].id /\ MarkSent(job[c].record, job[c].seen)
          \/ /\ \E s \in AttemptStatuses : Conclude(s)
             /\ UNCHANGED <<lastSuccessful, history>>
          \/ UNCHANGED <<attempt, lastSuccessful, history>>
      <3>1. ckpt \in Checkpoints /\ FailureStatus(ckpt) \in AttemptStatuses
            /\ "result_unknown" \in AttemptStatuses
        BY FailureStatusType
        DEF TypeInv, TypeOK, PersistedOK, AttemptStatuses, RecoveryStatuses
      <3> QED
        BY <2>1, <3>1 DEF ReportFinish, ReportExpired, RecheckCommit
    <2>4. CASE attempt.id = job[c].id /\ MarkSent(job[c].record, job[c].seen)
      <3>1. attempt'.id = attempt.id /\ attempt'.fp = attempt.fp
        BY <2>4 DEF MarkSent, Conclude, TypeInv, TypeOK, PersistedOK, AttemptRecords
      <3> QED
        BY <2>2, <2>4, <3>1, RecordStep DEF MarkSent
    <2>5. CASE /\ \E s \in AttemptStatuses : Conclude(s)
               /\ UNCHANGED <<lastSuccessful, history>>
      <3>1. attempt'.id = attempt.id /\ attempt'.fp = attempt.fp
        BY <2>5 DEF Conclude, TypeInv, TypeOK, PersistedOK, AttemptRecords
      <3> QED
        BY <2>2, <2>5, <3>1
        DEF HistoryInv, InHistory, HistoryOncePerAttempt, NoRepeatedContent
    <2>6. CASE UNCHANGED <<attempt, lastSuccessful, history>>
      BY <2>2, <2>6 DEF HistoryInv, InHistory, HistoryOncePerAttempt, NoRepeatedContent
    <2> QED
      BY <2>3, <2>4, <2>5, <2>6
  <1> QED
    BY <1>1, <1>2, <1>3, <1>4, <1>5, StepKinds

LEMMA SafetyInit == Init => SafetyInv
  <1>1. Init => BoundaryInv
    BY DEF Init, BoundaryInv, NoAttempt
  <1>2. Init => HistoryInv
    BY DEF Init, HistoryInv, NoAttempt, HistoryOncePerAttempt, NoRepeatedContent
  <1> QED
    BY <1>1, <1>2, TypeInit DEF SafetyInv

LEMMA SafetyStep == SafetyInv /\ [Next]_vars => SafetyInv'
  BY TypeStep, BoundaryStep, HistoryStep DEF SafetyInv

(* No interleaving of previews, sends, reports, rechecks and restarts makes  *)
(* the service record the same content as sent twice in a row.               *)
THEOREM NoRepeatedContentHolds == Spec => []NoRepeatedContent
  <1>1. SafetyInv => NoRepeatedContent
    BY DEF SafetyInv, HistoryInv
  <1> QED
    BY <1>1, SafetyInit, SafetyStep, PTL DEF Spec

(* However often an attempt is reported, resumed, recovered and rechecked,   *)
(* it enters the send history once.                                          *)
THEOREM HistoryOncePerAttemptHolds == Spec => []HistoryOncePerAttempt
  <1>1. SafetyInv => HistoryOncePerAttempt
    BY DEF SafetyInv, HistoryInv
  <1> QED
    BY <1>1, SafetyInit, SafetyStep, PTL DEF Spec
-----------------------------------------------------------------------------
(* Unknown attempts, the send ledger step by step, and what the history has *)
(* behind it.                                                               *)

(* What the stored attempt tells of its own progress: an id runs only while  *)
(* its attempt is active, a result is known only past the boundary, and the  *)
(* task is in doubt only together with its attempt.                          *)
ProgressInv ==
    /\ \A id \in activeAttemptIds : id # 0
    /\ attempt.id \in activeAttemptIds => attempt.status \in ActiveStatuses
    /\ attempt.id # 0 => attempt.status # "none"
    /\ attempt.status \in {"sent", "result_unknown"} => irreversibleBoundaryReached(ckpt)
    /\ attempt.status = "sent" => attempt.fp = lastSuccessful
    /\ status = "result_unknown" => attempt.status = "result_unknown"

(* Answers that speak of the click carry the checkpoint of the click: in the *)
(* helper, in the page that posts them and, once merged, in the task; and a  *)
(* recheck resolves an attempt that is in doubt, or was until another did.   *)
Answers == {"sent", "unknown"}
PageInv ==
    /\ \A c \in Callers, i \in 1..MaxSends :
          exec[c][i].stage \in Answers => irreversibleBoundaryReached(exec[c][i].ckpt)
    /\ \A c \in Callers :
          /\ job[c].id <= issued.sends
          /\ pc[c] = "merging" /\ job[c].outcome \in Answers =>
                irreversibleBoundaryReached(job[c].ckpt)
          /\ pc[c] = "finishing" /\ job[c].outcome \in Answers /\ job[c].id = attempt.id =>
                irreversibleBoundaryReached(ckpt)
          /\ pc[c] = "reconciling" /\ job[c].id = attempt.id =>
                /\ AttemptStatus \in {"result_unknown", "sent"}
                /\ irreversibleBoundaryReached(ckpt)

LedgerInv == SafetyInv /\ ProgressInv /\ PageInv

-----------------------------------------------------------------------------
LEMMA StatusKinds ==
  ASSUME LedgerInv
  PROVE  /\ AttemptStatus \in {"result_unknown", "sent"} => irreversibleBoundaryReached(ckpt)
         /\ AttemptStatus = "failed_resumable" => ~irreversibleBoundaryReached(ckpt)
         /\ AttemptStatus \notin ActiveStatuses => attempt.id \notin activeAttemptIds
         /\ AttemptStatus \in ActiveStatuses =>
               AttemptStatus = attempt.status /\ attempt.id \in activeAttemptIds
         /\ attempt.id # 0 => AttemptStatus # "none"
         /\ AttemptStatus = "sent" <=> attempt.status = "sent"
         /\ AttemptStatus \in ActiveStatuses
               \cup {"result_unknown", "sent", "none", "failed_resumable"}
         /\ TaskStatus = "result_unknown" => AttemptStatus = "result_unknown"
  <1>1. attempt.status \in AttemptStatuses
    BY DEF LedgerInv, SafetyInv, TypeInv, TypeOK, PersistedOK, AttemptRecords
  <1>2. AttemptStatus =
          IF attempt.status \in ActiveStatuses /\ attempt.id \notin activeAttemptIds
          THEN FailureStatus(ckpt) ELSE attempt.status
    BY DEF AttemptStatus, recoveredAttemptStatus
  <1>3. FailureStatus(ckpt) \in {"result_unknown", "failed_resumable"}
        /\ (FailureStatus(ckpt) = "result_unknown" <=> irreversibleBoundaryReached(ckpt))
    BY DEF FailureStatus
  <1>4. AttemptStatus = "failed_resumable" => ~irreversibleBoundaryReached(ckpt)
    BY RecoveredStatus DEF LedgerInv, SafetyInv, irreversibleBoundaryReached
  <1>5. TaskStatus = "result_unknown" => AttemptStatus = "result_unknown"
    BY <1>2 DEF TaskStatus, normalizedStatus, LedgerInv, ProgressInv, ActiveStatuses
  <1> QED
    BY <1>1, <1>2, <1>3, <1>4, <1>5
    DEF LedgerInv, ProgressInv, AttemptStatuses, ActiveStatuses, RecoveryStatuses

(* A quiet step leaves the status as it is, or it orphans an active attempt. *)
LEMMA QuietEffect ==
  ASSUME LedgerInv, Quiet
  PROVE  /\ attempt'.id = attempt.id /\ attempt'.fp = attempt.fp
         /\ UNCHANGED <<ckpt, lastSuccessful, history>>
         /\ \/ AttemptStatus' = AttemptStatus
            \/ AttemptStatus \in ActiveStatuses /\ AttemptStatus' = FailureStatus(ckpt)
  <1>1. /\ attempt'.id = attempt.id /\ attempt'.fp = attempt.fp
        /\ attempt'.status \in {attempt.status, AttemptStatus}
    BY QuietAttempt DEF LedgerInv, SafetyInv
  <1>2. attempt.id \in activeAttemptIds' => attempt.id \in activeAttemptIds
    BY DEF Quiet
  <1> QED
    BY <1>1, <1>2
    DEF Quiet, AttemptStatus, recoveredAttemptStatus, FailureStatus, ActiveStatuses

(* The conclusion of an attempt: left alone, recorded as sent, or given the  *)
(* status its checkpoints allow; a concluded attempt does not run.           *)
LEMMA ConcludeEffect ==
  ASSUME LedgerInv, Concluding
  PROVE  /\ attempt'.id = attempt.id /\ attempt'.fp = attempt.fp
         /\ ckpt' = ckpt /\ issued' = issued
         /\ activeAttemptIds' \subseteq activeAttemptIds
         /\ \/ /\ UNCHANGED <<status, attempt, lastSuccessful, history>>
               /\ AttemptStatus' = AttemptStatus
            \/ /\ attempt.id # 0 /\ attempt.id \notin activeAttemptIds'
               /\ status' = attempt'.status /\ AttemptStatus' = attempt'.status
               /\ \/ /\ attempt'.status = "sent" /\ irreversibleBoundaryReached(ckpt)
                     /\ lastSuccessful' = attempt.fp
                     /\ \E record \in Nat : history' = WithHistory(record)
                  \/ /\ attempt'.status = FailureStatus(ckpt)
                     /\ UNCHANGED <<lastSuccessful, history>>
  <1>1. PICK c \in Callers : ReportFinish(c) \/ ReportExpired(c) \/ RecheckCommit(c)
    BY DEF Concluding
  <1>2. TypeInv /\ ProgressInv
    BY DEF LedgerInv, SafetyInv
  <1>3. /\ job[c].id # 0 /\ job[c].record \in Nat /\ ckpt' = ckpt /\ issued' = issued
        /\ activeAttemptIds' \in {activeAttemptIds, activeAttemptIds \ {job[c].id}}
        /\ pc[c] # "reconciling" => activeAttemptIds' = activeAttemptIds \ {job[c].id}
    BY <1>1, <1>2
    DEF ReportFinish, ReportExpired, RecheckCommit, TypeInv, TypeOK, PagesOK, WellFormed,
        AttemptStages, Jobs, memory
  <1>4. \/ attempt.id = job[c].id /\ MarkSent(job[c].record, job[c].seen)
           /\ irreversibleBoundaryReached(ckpt)
        \/ /\ attempt.id = job[c].id /\ Conclude(FailureStatus(ckpt))
           /\ UNCHANGED <<lastSuccessful, history>>
        \/ attempt.id # job[c].id /\ UNCHANGED <<status, attempt, lastSuccessful, history>>
    <2>1. irreversibleBoundaryReached(ckpt) => FailureStatus(ckpt) = "result_unknown"
      BY DEF FailureStatus
    <2>2. CASE ReportFinish(c)
      BY <2>1, <2>2 DEF ReportFinish, LedgerInv, PageInv, Answers
    <2>3. CASE ReportExpired(c)
      BY <2>3 DEF ReportExpired
    <2>4. CASE RecheckCommit(c)
      BY <2>1, <2>4 DEF RecheckCommit, LedgerInv, PageInv
    <2> QED
      BY <1>1, <2>2, <2>3, <2>4
  <1>5. attempt.id = job[c].id => attempt.id \notin activeAttemptIds'
    <2>1. CASE pc[c] = "reconciling"
      BY <1>3, <2>1, StatusKinds DEF LedgerInv, PageInv, ActiveStatuses
    <2>2. CASE pc[c] # "reconciling"
      BY <1>3, <2>2
    <2> QED
      BY <2>1, <2>2
  <1>6. CASE attempt.id = job[c].id /\ MarkSent(job[c].record, job[c].seen)
             /\ irreversibleBoundaryReached(ckpt)
    <2>1. /\ attempt'.id = attempt.id /\ attempt'.fp = attempt.fp
          /\ attempt'.status = "sent" /\ status' = "sent"
      BY <1>2, <1>6 DEF MarkSent, Conclude, TypeInv, TypeOK, PersistedOK, AttemptRecords
    <2>2. AttemptStatus' = "sent"
      BY <2>1 DEF AttemptStatus, recoveredAttemptStatus, ActiveStatuses
    <2>3. lastSuccessful' = attempt.fp /\ \E record \in Nat : history' = WithHistory(record)
      BY <1>3, <1>6 DEF MarkSent
    <2> QED
      BY <1>3, <1>5, <1>6, <2>1, <2>2, <2>3
  <1>7. CASE /\ attempt.id = job[c].id /\ Conclude(FailureStatus(ckpt))
             /\ UNCHANGED <<lastSuccessful, history>>
    <2>1. /\ attempt'.id = attempt.id /\ attempt'.fp = attempt.fp
          /\ attempt'.status = FailureStatus(ckpt) /\ status' = FailureStatus(ckpt)
      BY <1>2, <1>7 DEF Conclude, TypeInv, TypeOK, PersistedOK, AttemptRecords
    <2>2. AttemptStatus' = FailureStatus(ckpt)
      BY <2>1 DEF AttemptStatus, recoveredAttemptStatus, ActiveStatuses, FailureStatus
    <2> QED
      BY <1>3, <1>5, <1>7, <2>1, <2>2
  <1>8. CASE attempt.id # job[c].id /\ UNCHANGED <<status, attempt, lastSuccessful, history>>
    BY <1>3, <1>8 DEF AttemptStatus
  <1> QED
    BY <1>4, <1>6, <1>7, <1>8

(* A merge leaves a running attempt running; merged into an attempt nobody   *)
(* runs any more, it can only cast doubt on it.                              *)
LEMMA MergeEffect ==
  ASSUME LedgerInv, NEW c \in Callers, ReportMerge(c)
  PROVE  /\ attempt'.id = attempt.id /\ attempt'.fp = attempt.fp
         /\ UNCHANGED <<lastSuccessful, history, issued, activeAttemptIds>>
         /\ irreversibleBoundaryReached(ckpt) => irreversibleBoundaryReached(ckpt')
         /\ \/ UNCHANGED <<status, attempt, ckpt>> /\ attempt.id # job[c].id
            \/ attempt'.status = "running" /\ status' = "applying_config"
               /\ attempt.id = job[c].id /\ ckpt' = MergedCheckpoints(job[c])
         /\ \/ AttemptStatus' = AttemptStatus
            \/ AttemptStatus \in ActiveStatuses /\ AttemptStatus' \in ActiveStatuses
            \/ /\ AttemptStatus \in {"failed_resumable", "sent"}
               /\ AttemptStatus' = "result_unknown" /\ irreversibleBoundaryReached(ckpt')
  <1>1. TypeInv /\ ProgressInv
    BY DEF LedgerInv, SafetyInv
  <1>2. UNCHANGED <<lastSuccessful, history, issued, activeAttemptIds>>
    BY DEF ReportMerge, memory
  <1>3. CASE attempt.id # job[c].id
    <2>1. UNCHANGED <<status, attempt, ckpt>>
      BY <1>3 DEF ReportMerge
    <2> QED
      BY <1>2, <1>3, <2>1 DEF AttemptStatus
  <1>4. CASE attempt.id = job[c].id
    <2>1. /\ attempt'.id = attempt.id /\ attempt'.fp = attempt.fp /\ attempt.id # 0
          /\ attempt'.status = "running" /\ status' = "applying_config"
          /\ ckpt' = MergedCheckpoints(job[c])
      BY <1>1, <1>4
      DEF ReportMerge, TypeInv, TypeOK, PersistedOK, AttemptRecords, WellFormed, AttemptStages
    <2>2. irreversibleBoundaryReached(ckpt) => irreversibleBoundaryReached(ckpt')
      BY <2>1 DEF MergedCheckpoints, irreversibleBoundaryReached
    <2>3. AttemptStatus' =
            IF attempt.id \notin activeAttemptIds THEN FailureStatus(ckpt') ELSE "running"
      BY <1>2, <2>1 DEF AttemptStatus, recoveredAttemptStatus, ActiveStatuses
    <2>4. CASE attempt.id \in activeAttemptIds
      <3>1. AttemptStatus \in ActiveStatuses
        BY <2>4, StatusKinds
      <3> QED
        BY <1>2, <1>4, <2>1, <2>2, <2>3, <2>4, <3>1 DEF ActiveStatuses
    <2>5. CASE attempt.id \notin activeAttemptIds
      <3>1. AttemptStatus \in {"failed_resumable", "sent", "result_unknown"}
        BY <2>1, <2>5, StatusKinds
      <3>2. CASE irreversibleBoundaryReached(ckpt')
        BY <1>2, <1>4, <2>1, <2>2, <2>3, <2>5, <3>1, <3>2 DEF FailureStatus
      <3>3. CASE ~irreversibleBoundaryReached(ckpt')
        <4>1. AttemptStatus = "failed_resumable" /\ AttemptStatus' = "failed_resumable"
          BY <2>2, <2>3, <2>5, <3>1, <3>3, StatusKinds DEF FailureStatus
        <4> QED
          BY <1>2, <1>4, <2>1, <2>2, <4>1
      <3> QED
        BY <3>2, <3>3
    <2> QED
      BY <2>4, <2>5
  <1> QED
    BY <1>3, <1>4

(* An accepted send is active, and took the place of an attempt that was     *)
(* neither active nor in doubt.                                              *)
LEMMA AcceptEffect ==
  ASSUME LedgerInv, NEW c \in Callers, Send(c)
  PROVE  /\ AttemptStatus \in {"none", "failed_resumable", "sent"}
         /\ AttemptStatus' = "queued"
         /\ attempt'.id # 0 /\ attempt'.id \in activeAttemptIds'
         /\ attempt'.id # attempt.id => attempt'.id = issued.sends + 1
         /\ attempt'.id = attempt.id =>
               AttemptStatus = "failed_resumable" \/ attempt'.id = issued.sends + 1
         /\ status' = "ready"
         /\ activeAttemptIds' = activeAttemptIds \cup {attempt'.id}
         /\ attempt'.id = attempt.id => ~irreversibleBoundaryReached(ckpt)
         /\ ~irreversibleBoundaryReached(ckpt')
  <1>1. /\ SendIdle /\ attempt'.status = "queued"
        /\ activeAttemptIds' = activeAttemptIds \cup {attempt'.id}
        /\ \/ attempt'.id = issued.sends + 1
           \/ attempt'.id = attempt.id /\ AttemptStatus = "failed_resumable"
    BY SendEffect DEF LedgerInv, SafetyInv
  <1>2. AttemptStatus \in {"none", "failed_resumable", "sent"}
    BY <1>1, StatusKinds DEF SendIdle, TaskStatus, normalizedStatus, RecoveryStatuses
  <1>3. AttemptStatus' = "queued"
    BY <1>1 DEF AttemptStatus, recoveredAttemptStatus
  <1>4. attempt.id \in Nat /\ issued.sends \in Nat /\ attempt.id <= issued.sends
    BY DEF LedgerInv, SafetyInv, HistoryInv, TypeInv, TypeOK, PersistedOK, MemoryOK,
           AttemptRecords, SendIds
  <1>5. AttemptStatus = "failed_resumable" => attempt.id # 0
    BY RecoveredAttemptType DEF LedgerInv, SafetyInv
  <1>6. status' = "ready"
    BY DEF Send
  <1>7. ~irreversibleBoundaryReached(ckpt')
    <2>1. PICK resume \in {FALSE, AttemptMatchesPreview} :
            ckpt' = IF resume THEN ckpt ELSE NoCheckpoints
      BY Zenon DEF Send
    <2>2. resume => AttemptStatus = "failed_resumable"
      <3>1. AttemptMatchesPreview => AttemptStatus = "failed_resumable"
        BY DEF AttemptMatchesPreview
      <3> QED
        BY <3>1
    <2>3. ~irreversibleBoundaryReached(NoCheckpoints)
      BY DEF irreversibleBoundaryReached, NoCheckpoints
    <2> QED
      BY <2>1, <2>2, <2>3, StatusKinds
  <1> QED
    BY <1>1, <1>2, <1>3, <1>4, <1>5, <1>6, <1>7, StatusKinds

LEMMA AdoptEffect ==
  ASSUME LedgerInv, Adopting
  PROVE  /\ attempt' = NoAttempt /\ AttemptStatus' = "none"
         /\ UNCHANGED <<ckpt, memory>> /\ lastSuccessful' = External
         /\ status' \in {"sent", "changes_pending"}
         /\ history = <<>>
         /\ \E i \in Nat : history' = <<[attempt |-> 0, fp |-> External, record |-> i]>>
  <1>1. /\ attempt' = NoAttempt /\ history = <<>>
        /\ \E i \in Nat : history' = <<[attempt |-> 0, fp |-> External, record |-> i]>>
    BY AdoptionStep DEF LedgerInv, SafetyInv
  <1>2. AttemptStatus' = "none"
    BY <1>1 DEF AttemptStatus, recoveredAttemptStatus, NoAttempt, ActiveStatuses
  <1> QED
    BY <1>1, <1>2 DEF Adopting, RecognizeInitialSend

LEMMA ProgressStep ==
  ASSUME LedgerInv, [Next]_vars
  PROVE  ProgressInv'
  <1>1. CASE Quiet
    <2>1. attempt'.status \in {attempt.status, AttemptStatus} /\ attempt'.id = attempt.id
          /\ attempt'.fp = attempt.fp
      BY <1>1, QuietAttempt DEF LedgerInv, SafetyInv
    <2>2. ckpt' = ckpt /\ lastSuccessful' = lastSuccessful
          /\ activeAttemptIds' \subseteq activeAttemptIds
          /\ (status' = "result_unknown" => status = "result_unknown")
      BY <1>1 DEF Quiet
    <2>3. attempt.status = "result_unknown" => AttemptStatus = "result_unknown"
      BY DEF AttemptStatus, recoveredAttemptStatus, ActiveStatuses
    <2> QED
      BY <2>1, <2>2, <2>3, StatusKinds
      DEF LedgerInv, ProgressInv, irreversibleBoundaryReached, ActiveStatuses
  <1>2. CASE Adopting
    BY <1>2, AdoptEffect DEF LedgerInv, ProgressInv, NoAttempt, memory
  <1>3. CASE Sending
    <2>1. PICK c \in Callers : Send(c)
      BY <1>3 DEF Sending
    <2>2. attempt'.status = "queued"
      BY <2>1, SendEffect DEF LedgerInv, SafetyInv
    <2> QED
      BY <2>1, <2>2, AcceptEffect DEF LedgerInv, ProgressInv, ActiveStatuses
  <1>4. CASE Merging
    <2>1. PICK c \in Callers : ReportMerge(c)
      BY <1>4 DEF Merging
    <2> QED
      BY <2>1, MergeEffect
      DEF LedgerInv, ProgressInv, ActiveStatuses, irreversibleBoundaryReached
  <1>5. CASE Concluding
    <2>1. FailureStatus(ckpt) \in {"result_unknown", "failed_resumable"}
          /\ (FailureStatus(ckpt) = "result_unknown" => irreversibleBoundaryReached(ckpt))
      BY DEF FailureStatus
    <2> QED
      BY <1>5, <2>1, ConcludeEffect
      DEF LedgerInv, ProgressInv, irreversibleBoundaryReached
  <1> QED
    BY <1>1, <1>2, <1>3, <1>4, <1>5, StepKinds DEF LedgerInv, SafetyInv

-----------------------------------------------------------------------------
(* What was known of an attempt at hand stays known, whatever happens next:  *)
(* ids are not given twice, the boundary is not forgotten, and doubt is only *)
(* resolved, never lifted.                                                   *)
LEMMA KnowledgeKept ==
  ASSUME LedgerInv, [Next]_vars
  PROVE  /\ issued.sends <= issued'.sends
         /\ attempt'.id # 0 /\ attempt'.id <= issued.sends =>
               /\ attempt'.id = attempt.id
               /\ irreversibleBoundaryReached(ckpt) => irreversibleBoundaryReached(ckpt')
               /\ AttemptStatus \in {"result_unknown", "sent"} =>
                     AttemptStatus' \in {"result_unknown", "sent"}
  <1>1. issued.sends \in Nat
    BY DEF LedgerInv, SafetyInv, TypeInv, TypeOK, MemoryOK, SendIds
  <1>2. CASE Quiet
    BY <1>1, <1>2, QuietEffect DEF Quiet, ActiveStatuses
  <1>3. CASE Adopting
    BY <1>1, <1>3, AdoptEffect DEF NoAttempt, memory
  <1>4. CASE Sending
    <2>1. PICK c \in Callers : Send(c)
      BY <1>4 DEF Sending
    <2>2. issued'.sends = issued.sends + 1
      BY <2>1, SendEffect DEF LedgerInv, SafetyInv
    <2>3. ~(attempt'.id = issued.sends + 1 /\ attempt'.id <= issued.sends)
      BY <1>1
    <2> QED
      BY <1>1, <2>1, <2>2, <2>3, AcceptEffect
  <1>5. CASE Merging
    <2>1. PICK c \in Callers : ReportMerge(c)
      BY <1>5 DEF Merging
    <2> QED
      BY <1>1, <2>1, MergeEffect DEF ActiveStatuses
  <1>6. CASE Concluding
    <2>1. AttemptStatus \in {"result_unknown", "sent"} => FailureStatus(ckpt) = "result_unknown"
      BY StatusKinds DEF FailureStatus
    <2> QED
      BY <1>1, <1>6, <2>1, ConcludeEffect
  <1> QED
    BY <1>2, <1>3, <1>4, <1>5, <1>6, StepKinds DEF LedgerInv, SafetyInv

(* What a step makes of a page: nothing, or it moves it on, keeping the      *)
(* attempt the page is about unless the page has just sent or rechecked.     *)
Watched == {"sending", "merging", "finishing", "rechecking", "rechecked", "reconciling"}
Found(j) == AttemptSendRecord(ledger, visible, j.kind, j.ckpt.before, j.ckpt.started)
PageMoves(c) ==
    \/ pc'[c] = pc[c] /\ job'[c] = job[c]
    \/ pc'[c] \notin Watched /\ job'[c].id \in {0, job[c].id}
    \/ Send(c) /\ pc'[c] = "sending" /\ job'[c].id = attempt'.id
       /\ job'[c].ckpt = NoCheckpoints
    \/ Report(c) /\ pc'[c] = "merging" /\ job'[c].id = job[c].id
       /\ job'[c] \in {Envelope(c), [job[c] EXCEPT !.outcome = "error"]}
    \/ ReportMerge(c) /\ pc'[c] = "finishing" /\ job'[c] = job[c]
    \/ PrepareRecheck(c) /\ pc'[c] = "rechecking" /\ job'[c].id = 0 /\ job'[c].ckpt = ckpt
    \/ HelperRecheck(c) /\ pc'[c] = "rechecked" /\ job'[c].id = job[c].id
       /\ job'[c].record = Found(job[c])
    \/ RecheckRead(c) /\ pc'[c] = "reconciling" /\ job'[c].id = attempt.id
       /\ job'[c].record = job[c].record /\ TaskStatus = "result_unknown"

LEMMA PageStepKinds ==
  ASSUME TypeInv, [Next]_vars, NEW c \in Callers
  PROVE  PageMoves(c)
  <1>1. CASE UNCHANGED <<pc, job>>
    BY <1>1 DEF PageMoves
  <1>2. ASSUME NEW d \in Callers, Serve(d) PROVE PageMoves(c) \/ UNCHANGED <<pc, job>>
    <2>1. PagesOK /\ job[d] \in Jobs
      BY DEF TypeInv, TypeOK, PagesOK
    <2>2. ASSUME NEW place, NEW locals, Goto(d, place, locals)
          PROVE  /\ c # d => pc'[c] = pc[c] /\ job'[c] = job[c]
                 /\ c = d => pc'[c] = place /\ job'[c] = locals
      BY <2>1, <2>2 DEF Goto, PagesOK
    <2>3. ASSUME Leave(d) PROVE PageMoves(c)
      BY <2>2, <2>3 DEF Leave, NoJob, PageMoves, Watched
    <2>4. ASSUME NEW place, place \notin Watched, NEW locals,
                 locals.id \in {0, job[d].id}, Goto(d, place, locals)
          PROVE  PageMoves(c)
      BY <2>2, <2>4 DEF PageMoves
    <2>5. CASE PreparePreview(d) \/ PrepareRecheck(d)
      <3> DEFINE read == [NoJob EXCEPT !.draft = confirmed, !.base = lastSuccessful]
                 asked == [NoJob EXCEPT !.kind = attempt.kind, !.ckpt = ckpt]
      <3>1. read.id = 0 /\ asked.id = 0 /\ asked.ckpt = ckpt
        BY DEF NoJob
      <3>2. \/ Goto(d, "inspecting", read)
            \/ PrepareRecheck(d) /\ Goto(d, "rechecking", asked)
        BY <2>5 DEF PreparePreview, PrepareRecheck
      <3> HIDE DEF read, asked
      <3>3. "inspecting" \notin Watched
        BY DEF Watched
      <3>4. CASE PrepareRecheck(d) /\ Goto(d, "rechecking", asked)
        BY <2>2, <3>1, <3>4 DEF PageMoves
      <3> QED
        BY <2>4, <3>1, <3>2, <3>3, <3>4
    <2>6. CASE HelperInspect(d) \/ HelperRecheck(d)
      <3> DEFINE seen == [job[d] EXCEPT !.seen = visible]
                 found == [job[d] EXCEPT !.seen = visible, !.record = Found(job[d])]
      <3>1. seen.id = job[d].id /\ found.id = job[d].id /\ found.record = Found(job[d])
        BY <2>1 DEF Jobs
      <3>2. \/ Goto(d, "inspected", seen)
            \/ HelperRecheck(d) /\ Goto(d, "rechecked", found)
        <4>1. CASE HelperInspect(d)
          BY <4>1 DEF HelperInspect
        <4>2. CASE HelperRecheck(d)
          BY <4>2 DEF HelperRecheck, Found
        <4> QED
          BY <2>6, <4>1, <4>2
      <3> HIDE DEF seen, found
      <3>3. "inspected" \notin Watched
        BY DEF Watched
      <3>4. CASE HelperRecheck(d) /\ Goto(d, "rechecked", found)
        BY <2>2, <3>1, <3>4 DEF PageMoves
      <3> QED
        BY <2>4, <3>1, <3>2, <3>3, <3>4
    <2>7. CASE PreviewBegin(d)
      <3> DEFINE read == [job[d] EXCEPT !.draft = confirmed, !.base = lastSuccessful,
                                !.kind = IF HasSent THEN "resend" ELSE "initial",
                                !.requirement = requirement, !.schedule = schedule,
                                !.records = snapshotRecords]
      <3>1. read.id = job[d].id
        BY <2>1 DEF Jobs
      <3>2. Goto(d, "previewing", read) \/ Leave(d)
        BY <2>7 DEF PreviewBegin
      <3> HIDE DEF read
      <3> QED
        BY <2>3, <2>4, <3>1, <3>2 DEF Watched
    <2>8. CASE PreviewCommit(d)
      <3> DEFINE held == [NoJob EXCEPT !.token = issued.previews + 1, !.version = version]
      <3>1. held.id = 0 /\ Goto(d, "previewed", held)
        BY <2>8 DEF PreviewCommit, NoJob
      <3> HIDE DEF held
      <3> QED
        BY <2>4, <3>1 DEF Watched
    <2>9. CASE Send(d)
      <3>1. PICK n, id, kind : /\ attempt'.id = id
                               /\ Goto(d, "sending", [NoJob EXCEPT !.id = id, !.completion = n,
                                                                    !.kind = kind])
        <4>1. PICK resume \in {FALSE, AttemptMatchesPreview} :
          LET n == issued.sends + 1
              id == IF resume THEN attempt.id ELSE n
          IN  /\ attempt' = [id |-> id, completion |-> n, kind |-> preview.kind,
                             fp |-> draft, version |-> version,
                             requirement |-> preview.requirement,
                             status |-> "queued", expired |-> FALSE]
              /\ Goto(d, "sending", [NoJob EXCEPT !.id = id, !.completion = n,
                                                  !.kind = preview.kind])
          BY <2>9, Zenon DEF Send
        <4> QED
          BY <4>1
      <3> DEFINE held == [NoJob EXCEPT !.id = id, !.completion = n, !.kind = kind]
      <3>2. /\ held.id = attempt'.id /\ held.ckpt = NoCheckpoints
            /\ Goto(d, "sending", held)
        BY <3>1 DEF NoJob
      <3> HIDE DEF held
      <3> QED
        BY <2>2, <2>9, <3>2 DEF PageMoves
    <2>10. CASE RecognizeInitialSend(d) \/ SendRejected(d) \/ ReportFinish(d)
                \/ ReportExpired(d) \/ Collide(d) \/ RecheckCommit(d) \/ GiveUp(d)
      <3>1. Leave(d)
        BY <2>10
        DEF RecognizeInitialSend, SendRejected, ReportFinish, ReportExpired, Collide,
            RecheckCommit, GiveUp
      <3> QED
        BY <2>3, <3>1
    <2>11. CASE HelperBegin(d)
      BY <2>11 DEF HelperBegin
    <2>12. CASE Report(d)
      <3>1. /\ Envelope(d).id = job[d].id
            /\ [job[d] EXCEPT !.outcome = "error"].id = job[d].id
        BY <2>1, <2>12, EnvelopeType DEF Report, Jobs
      <3>2. \/ Leave(d)
            \/ Goto(d, "expiring", [job[d] EXCEPT !.outcome = "error"])
            \/ \E posted \in {Envelope(d), [job[d] EXCEPT !.outcome = "error"]} :
                  Goto(d, "merging", posted)
        BY <2>12 DEF Report
      <3>3. CASE Goto(d, "expiring", [job[d] EXCEPT !.outcome = "error"])
        <4> DEFINE failed == [job[d] EXCEPT !.outcome = "error"]
        <4>1. failed.id = job[d].id /\ Goto(d, "expiring", failed)
          BY <3>1, <3>3
        <4> HIDE DEF failed
        <4>2. "expiring" \notin Watched
          BY DEF Watched
        <4> QED
          BY <2>4, <4>1, <4>2
      <3>4. ASSUME NEW posted \in {Envelope(d), [job[d] EXCEPT !.outcome = "error"]},
                   Goto(d, "merging", posted)
            PROVE  PageMoves(c)
        BY <2>2, <2>12, <3>1, <3>4 DEF PageMoves
      <3> QED
        BY <2>3, <3>2, <3>3, <3>4
    <2>13. CASE ReportMerge(d)
      BY <2>2, <2>13 DEF ReportMerge, PageMoves
    <2>14. CASE RecheckRead(d)
      <3> DEFINE found == [job[d] EXCEPT !.id = attempt.id]
      <3>1. found.id = attempt.id /\ found.record = job[d].record
        BY <2>1 DEF Jobs
      <3>2. \/ Leave(d)
            \/ TaskStatus = "result_unknown" /\ Goto(d, "reconciling", found)
        BY <2>14 DEF RecheckRead
      <3> HIDE DEF found
      <3>3. CASE TaskStatus = "result_unknown" /\ Goto(d, "reconciling", found)
        BY <2>2, <2>14, <3>1, <3>3 DEF PageMoves
      <3> QED
        BY <2>3, <3>2, <3>3
    <2> QED
      BY <1>2, <2>5, <2>6, <2>7, <2>8, <2>9, <2>10, <2>11, <2>12, <2>13, <2>14 DEF Serve
  <1>3. ASSUME NEW d \in Callers, NEW i \in 1..MaxSends, Run(d, i) PROVE UNCHANGED <<pc, job>>
    BY <1>3
    DEF Run, HelperReadRecords, HelperSubmit, HelperClick, HelperVerify, HelperFail
  <1>4. CASE ServerRestart
    <2>1. \/ pc'[c] = pc[c] /\ job'[c] = job[c]
          \/ pc'[c] = "idle" /\ job'[c] = NoJob
      BY <1>4 DEF ServerRestart
    <2> QED
      BY <2>1 DEF PageMoves, Watched, NoJob
  <1>5. CASE \/ PreviewExpires \/ LocalExecutionExpires \/ RecordAppears \/ ForeignSend
             \/ RequirementChanges
    BY <1>1, <1>5
    DEF PreviewExpires, LocalExecutionExpires, RecordAppears, ForeignSend, RequirementChanges
  <1>6. ASSUME NEW content \in Contents, Edit(content) PROVE UNCHANGED <<pc, job>>
    BY <1>6 DEF Edit
  <1>7. CASE UNCHANGED vars
    BY <1>1, <1>7 DEF vars
  <1> QED
    BY <1>1, <1>2, <1>3, <1>4, <1>5, <1>6, <1>7 DEF Next, Environment

(* A record found for an attempt came into view after its click was prepared. *)
LEMMA AttemptSendRecordAfter ==
  ASSUME NEW l, NEW v \in Nat, NEW kind, NEW before \in Nat, NEW started,
         AttemptSendRecord(l, v, kind, before, started) # 0
  PROVE  before < AttemptSendRecord(l, v, kind, before, started)
  <1> DEFINE found == Candidates(l, v, kind, before, started)
  <1>1. \A i \in found : before < i
    BY DEF Candidates
  <1> HIDE DEF found
  <1>2. /\ AttemptSendRecord(l, v, kind, before, started) = CHOOSE i \in found : TRUE
        /\ \E i \in found : found = {i}
    BY DEF AttemptSendRecord, found
  <1> QED
    BY <1>1, <1>2

(* Only the helpers move their own executions on.                            *)
LEMMA ExecStep ==
  ASSUME [Next]_vars
  PROVE  \/ exec' = exec
         \/ \E d \in Callers : HelperBegin(d)
         \/ \E d \in Callers, k \in 1..MaxSends : Run(d, k)
  <1>1. ASSUME NEW d \in Callers, Serve(d) PROVE exec' = exec \/ HelperBegin(d)
    BY <1>1
    DEF Serve, PreparePreview, HelperInspect, PreviewBegin, RecognizeInitialSend, PreviewCommit,
        Send, SendRejected, Report, ReportMerge, ReportFinish, ReportExpired, Collide,
        PrepareRecheck, HelperRecheck, RecheckRead, RecheckCommit, GiveUp
  <1>2. CASE Environment
    BY <1>2
    DEF Environment, PreviewExpires, LocalExecutionExpires, RecordAppears, ForeignSend,
        RequirementChanges, ServerRestart
  <1>3. ASSUME NEW content \in Contents, Edit(content) PROVE exec' = exec
    BY <1>3 DEF Edit
  <1>4. CASE UNCHANGED vars
    BY <1>4 DEF vars
  <1> QED
    BY <1>1, <1>2, <1>3, <1>4 DEF Next

(* An execution moves on without answering, keeping what it has seen; or it  *)
(* answers once it has completed the checkpoint of the click, with what the  *)
(* console shows it then.                                                    *)
Prepared(e) ==
    \/ e.stage \in {"ready", "submitting", "clicked", "sent", "unknown"}
    \/ irreversibleBoundaryReached(e.ckpt)
HelperMoves(old, new) ==
    /\ \/ new = old
       \/ new.stage \notin Answers \cup {"none"} /\ new.record \in {0, old.record}
          /\ new.seen \in {0, old.seen}
       \/ /\ new.stage \in Answers /\ irreversibleBoundaryReached(new.ckpt)
          /\ new.seen = visible /\ new.record \in 0..visible
          /\ new.stage = "sent" => new.record # 0 /\ new.ckpt.before < new.record
    /\ Prepared(new) =>
          \/ new.ckpt.before = visible
          \/ Prepared(old) /\ new.ckpt.before = old.ckpt.before

LEMMA HelperStepKinds ==
  ASSUME TypeInv, [Next]_vars, NEW c \in Callers, NEW i \in 1..MaxSends
  PROVE  /\ HelperMoves(exec[c][i], exec'[c][i])
         /\ exec[c][i].stage = "none" /\ exec'[c][i].stage # "none" => job[c].id = i
  <1> DEFINE Answered(e) == /\ HelperMoves(exec[c][i], e)
                            /\ exec[c][i].stage = "none" /\ e.stage # "none" => job[c].id = i
  <1>1. exec \in [Callers -> [1..MaxSends -> Execs]] /\ exec[c][i] \in Execs
    BY DEF TypeInv, TypeOK, ExecOK
  <1>2. Answered(exec[c][i])
    BY DEF HelperMoves
  <1>3. ASSUME NEW d \in Callers, NEW k \in 1..MaxSends, NEW e, SetExec(d, k, e),
               d = c /\ k = i => Answered(e)
        PROVE  Answered(exec'[c][i])
    BY <1>1, <1>2, <1>3 DEF SetExec
  <1> HIDE DEF Answered
  <1>4. CASE exec' = exec
    BY <1>2, <1>4 DEF Answered, HelperMoves
  <1>5. ASSUME NEW d \in Callers, HelperBegin(d) PROVE Answered(exec'[c][i])
    <2>1. PICK stage \in {"config", "failed"} :
            SetExec(d, job[d].id, [NoExec EXCEPT !.stage = stage, !.kind = job[d].kind])
      BY <1>5 DEF HelperBegin
    <2>2. job[d].id \in 1..MaxSends
      BY <1>5, BoundsAssumption
      DEF HelperBegin, TypeInv, TypeOK, PagesOK, WellFormed,
          AttemptStages, Jobs, SendIds
    <2>3. d = c /\ job[d].id = i => Answered([NoExec EXCEPT !.stage = stage, !.kind = job[d].kind])
      BY DEF Answered, HelperMoves, Prepared, Answers, NoExec, NoCheckpoints,
             irreversibleBoundaryReached
    <2> QED
      BY <1>3, <2>1, <2>2, <2>3
  <1>6. ASSUME NEW d \in Callers, NEW k \in 1..MaxSends, Run(d, k)
        PROVE  Answered(exec'[c][i])
    <2>1. exec[d][k] \in Execs
      BY <1>1
    <2>2. CASE HelperReadRecords(d, k)
      <3> DEFINE e == [exec[d][k] EXCEPT !.stage = IF exec[d][k].kind = "initial" /\ visible > 0
                                                   THEN "failed" ELSE "ready",
                                         !.ckpt.before = visible]
      <3>1. SetExec(d, k, e) /\ exec[d][k].stage # "none"
        BY <2>2 DEF HelperReadRecords
      <3>2. d = c /\ k = i => Answered(e)
        BY <2>1, <2>2, <3>1 DEF HelperReadRecords, Answered, HelperMoves, Prepared, Answers, Execs, Checkpoints,
                    irreversibleBoundaryReached
      <3> HIDE DEF e
      <3> QED
        BY <1>3, <3>1, <3>2
    <2>3. CASE HelperSubmit(d, k)
      <3> DEFINE e == [exec[d][k] EXCEPT !.stage = "submitting", !.ckpt.submit = "running",
                                         !.ckpt.started = Len(ledger)]
      <3>1. SetExec(d, k, e) /\ exec[d][k].stage # "none"
        BY <2>3 DEF HelperSubmit
      <3>2. d = c /\ k = i => Answered(e)
        BY <2>1, <2>3, <3>1 DEF HelperSubmit, Answered, HelperMoves, Prepared, Answers, Execs, Checkpoints,
                    irreversibleBoundaryReached
      <3> HIDE DEF e
      <3> QED
        BY <1>3, <3>1, <3>2
    <2>4. CASE HelperClick(d, k)
      <3> DEFINE e == [exec[d][k] EXCEPT !.stage = "clicked"]
      <3>1. SetExec(d, k, e) /\ exec[d][k].stage # "none"
        BY <2>4 DEF HelperClick
      <3>2. d = c /\ k = i => Answered(e)
        BY <2>1, <2>4, <3>1 DEF HelperClick, Answered, HelperMoves, Prepared, Answers, Execs, Checkpoints,
                    irreversibleBoundaryReached
      <3> HIDE DEF e
      <3> QED
        BY <1>3, <3>1, <3>2
    <2>5. CASE HelperVerify(d, k)
      <3> DEFINE match == AttemptSendRecord(ledger, visible, exec[d][k].kind,
                                            exec[d][k].ckpt.before, exec[d][k].ckpt.started)
                 e == [exec[d][k] EXCEPT !.stage = IF match # 0 THEN "sent" ELSE "unknown",
                                         !.ckpt.submit = "completed",
                                         !.record = match, !.seen = visible]
      <3>1. SetExec(d, k, e) /\ exec[d][k].stage # "none"
        BY <2>5 DEF HelperVerify
      <3>3. match \in 0..visible /\ (match # 0 => exec[d][k].ckpt.before < match)
        <4>1. visible \in Nat
          BY DEF TypeInv, TypeOK, ConsoleOK
        <4> QED
          BY <2>1, <4>1, AttemptSendRecordType, AttemptSendRecordAfter DEF Execs, Checkpoints
      <3> HIDE DEF match
      <3>2. d = c /\ k = i => Answered(e)
        BY <2>1, <2>5, <3>1, <3>3
        DEF HelperVerify, Answered, HelperMoves, Prepared, Answers, irreversibleBoundaryReached,
            Execs, Checkpoints
      <3> HIDE DEF e
      <3> QED
        BY <1>3, <3>1, <3>2
    <2>6. CASE HelperFail(d, k)
      <3> DEFINE e == [exec[d][k] EXCEPT !.stage = "failed"]
      <3>1. SetExec(d, k, e) /\ exec[d][k].stage # "none"
        BY <2>6 DEF HelperFail
      <3>2. d = c /\ k = i => Answered(e)
        BY <2>1, <2>6, <3>1 DEF HelperFail, Answered, HelperMoves, Prepared, Answers, Execs, Checkpoints,
                    irreversibleBoundaryReached
      <3> HIDE DEF e
      <3> QED
        BY <1>3, <3>1, <3>2
    <2> QED
      BY <1>6, <2>2, <2>3, <2>4, <2>5, <2>6 DEF Run
  <1>7. exec' = exec \/ (\E d \in Callers : HelperBegin(d))
        \/ \E d \in Callers, k \in 1..MaxSends : Run(d, k)
    BY ExecStep
  <1>8. Answered(exec'[c][i])
    BY <1>4, <1>5, <1>6, <1>7 DEF Answered
  <1> QED
    BY <1>8 DEF Answered

LEMMA PageStep ==
  ASSUME LedgerInv, [Next]_vars
  PROVE  PageInv'
  <1>1. ASSUME NEW c \in Callers
        PROVE  /\ job'[c].id <= issued'.sends
               /\ pc'[c] = "merging" /\ job'[c].outcome \in Answers =>
                     irreversibleBoundaryReached(job'[c].ckpt)
               /\ pc'[c] = "finishing" /\ job'[c].outcome \in Answers
                     /\ job'[c].id = attempt'.id => irreversibleBoundaryReached(ckpt')
               /\ pc'[c] = "reconciling" /\ job'[c].id = attempt'.id =>
                     /\ AttemptStatus' \in {"result_unknown", "sent"}
                     /\ irreversibleBoundaryReached(ckpt')
    <2>1. PageMoves(c)
      BY PageStepKinds DEF LedgerInv, SafetyInv
    <2>2. job[c] \in Jobs /\ job[c].id \in Nat /\ job[c].id <= issued.sends
          /\ issued.sends \in Nat /\ issued'.sends \in Nat
      BY TypeStep
      DEF LedgerInv, SafetyInv, TypeInv, TypeOK, PagesOK, MemoryOK, Jobs, SendIds, PageInv
    <2>3. CASE pc'[c] = pc[c] /\ job'[c] = job[c]
      <3>1. pc[c] \in {"merging", "finishing", "reconciling"} => job[c].id # 0
        BY DEF LedgerInv, SafetyInv, TypeInv, WellFormed, AttemptStages
      <3> QED
        BY <2>2, <2>3, <3>1, KnowledgeKept DEF LedgerInv, PageInv
    <2>4. CASE pc'[c] \notin Watched /\ job'[c].id \in {0, job[c].id}
      BY <2>2, <2>4, KnowledgeKept DEF Watched
    <2>5. CASE Send(c) /\ pc'[c] = "sending" /\ job'[c].id = attempt'.id
      <3>1. attempt'.id <= issued'.sends
        BY HistoryStep DEF LedgerInv, SafetyInv, HistoryInv
      <3> QED
        BY <2>5, <3>1 DEF Watched
    <2>6. CASE Report(c) /\ pc'[c] = "merging" /\ job'[c].id = job[c].id
               /\ job'[c] \in {Envelope(c), [job[c] EXCEPT !.outcome = "error"]}
      <3>1. job[c].id \in 1..MaxSends
        BY <2>2, <2>6, BoundsAssumption
        DEF Report, LedgerInv, SafetyInv, TypeInv, WellFormed, AttemptStages, Jobs, SendIds
      <3>2. exec[c][job[c].id].stage \in Answers =>
              irreversibleBoundaryReached(exec[c][job[c].id].ckpt)
        BY <3>1 DEF LedgerInv, PageInv
      <3>3. [job[c] EXCEPT !.outcome = "error"].outcome = "error"
        BY <2>2 DEF Jobs
      <3> DEFINE e == exec[c][job[c].id]
                 posted == [job[c] EXCEPT !.outcome = e.stage, !.ckpt = e.ckpt,
                                          !.record = e.record, !.seen = e.seen]
      <3>4. posted.outcome = e.stage /\ posted.ckpt = e.ckpt
        BY <2>2 DEF Jobs
      <3>5. Envelope(c) \in {posted, [job[c] EXCEPT !.outcome = "error"]}
        BY DEF Envelope
      <3> HIDE DEF posted
      <3>6. job'[c].outcome \in Answers => irreversibleBoundaryReached(job'[c].ckpt)
        BY <2>6, <3>2, <3>3, <3>4, <3>5 DEF Answers
      <3> QED
        BY <2>2, <2>6, <3>6, KnowledgeKept
    <2>7. CASE ReportMerge(c) /\ pc'[c] = "finishing" /\ job'[c] = job[c]
      <3>1. pc[c] = "merging"
        BY <2>7 DEF ReportMerge
      <3>2. job[c].outcome \in Answers => irreversibleBoundaryReached(MergedCheckpoints(job[c]))
        BY <3>1 DEF LedgerInv, PageInv, MergedCheckpoints, irreversibleBoundaryReached
      <3> QED
        BY <2>2, <2>7, <3>2, KnowledgeKept, MergeEffect
    <2>8. CASE RecheckRead(c) /\ pc'[c] = "reconciling" /\ job'[c].id = attempt.id
               /\ job'[c].record = job[c].record /\ TaskStatus = "result_unknown"
      <3>1. UNCHANGED <<attempt, ckpt, issued, AttemptStatus>>
        BY <2>8 DEF RecheckRead, persisted, memory, AttemptStatus
      <3>2. attempt.id <= issued.sends
        BY DEF LedgerInv, SafetyInv, HistoryInv
      <3> QED
        BY <2>8, <3>1, <3>2, StatusKinds
    <2>9. CASE \/ pc'[c] = "rechecking" /\ job'[c].id = 0
               \/ pc'[c] = "rechecked" /\ job'[c].id = job[c].id
      BY <2>2, <2>9, KnowledgeKept
    <2> QED
      BY <2>1, <2>3, <2>4, <2>5, <2>6, <2>7, <2>8, <2>9 DEF PageMoves
  <1>2. ASSUME NEW c \in Callers, NEW i \in 1..MaxSends, exec'[c][i].stage \in Answers
        PROVE  irreversibleBoundaryReached(exec'[c][i].ckpt)
    BY <1>2, HelperStepKinds DEF HelperMoves, LedgerInv, SafetyInv, PageInv
  <1> QED
    BY <1>1, <1>2 DEF PageInv

LEMMA LedgerInit == Init => LedgerInv
  <1> SUFFICES ASSUME Init PROVE LedgerInv
    OBVIOUS
  <1>1. ProgressInv
    BY DEF Init, ProgressInv, NoAttempt, irreversibleBoundaryReached
  <1>2. PageInv
    <2>1. \A c \in Callers, i \in 1..MaxSends : exec[c][i].stage = "none"
      BY DEF Init, NoExec
    <2>2. \A c \in Callers : pc[c] = "idle" /\ job[c].id = 0 /\ issued.sends = 0
      BY DEF Init, NoJob
    <2> QED
      BY <2>1, <2>2 DEF PageInv, Answers
  <1> QED
    BY <1>1, <1>2, SafetyInit DEF LedgerInv

LEMMA LedgerStep == LedgerInv /\ [Next]_vars => LedgerInv'
  BY SafetyStep, ProgressStep, PageStep DEF LedgerInv

(* An unknown result is only ever resolved by evidence: from one step to the *)
(* next it stays unknown, is found sent, or gives way to a first send found  *)
(* in the console.                                                           *)
THEOREM UnknownOnlyResolvedHolds == Spec => UnknownOnlyResolved
  <1> DEFINE Resolves ==
        AttemptStatus = "result_unknown" =>
          \/ attempt'.id = attempt.id /\ AttemptStatus' \in {"result_unknown", "sent"}
          \/ attempt'.id = 0 /\ lastSuccessful' = External
  <1>1. ASSUME LedgerInv, [Next]_vars PROVE Resolves
    <2>1. AttemptStatus = "result_unknown" => FailureStatus(ckpt) = "result_unknown"
      BY <1>1, StatusKinds DEF FailureStatus
    <2>2. CASE Quiet
      BY <1>1, <2>2, QuietEffect DEF ActiveStatuses
    <2>3. CASE Adopting
      BY <1>1, <2>3, AdoptEffect DEF NoAttempt
    <2>4. CASE Sending
      BY <1>1, <2>4, AcceptEffect DEF Sending
    <2>5. CASE Merging
      BY <1>1, <2>5, MergeEffect DEF Merging, ActiveStatuses
    <2>6. CASE Concluding
      BY <1>1, <2>1, <2>6, ConcludeEffect
    <2> QED
      BY <1>1, <2>2, <2>3, <2>4, <2>5, <2>6, StepKinds DEF LedgerInv, SafetyInv
  <1>2. LedgerInv /\ [Next]_vars => [Resolves]_vars
    BY <1>1
  <1>3. Spec => [][Resolves]_vars
    BY <1>2, LedgerInit, LedgerStep, PTL DEF Spec
  <1> QED
    BY <1>3 DEF UnknownOnlyResolved

-----------------------------------------------------------------------------
(* The refinement of the send ledger.                                        *)
RecordedOf(h) == [k \in DOMAIN h |-> h[k].fp]

LEMMA RecordedType ==
  ASSUME NEW h \in Seq(HistoryRecords)
  PROVE  /\ RecordedOf(h) \in Seq(Fingerprints)
         /\ Len(RecordedOf(h)) = Len(h) /\ Len(h) \in Nat
         /\ \A k \in 1..Len(h) : RecordedOf(h)[k] = h[k].fp
  <1>1. DOMAIN h = 1..Len(h) /\ Len(h) \in Nat /\ \A k \in 1..Len(h) : h[k] \in HistoryRecords
    OBVIOUS
  <1>2. RecordedOf(h) \in [1..Len(h) -> Fingerprints]
    BY <1>1 DEF RecordedOf, HistoryRecords
  <1>3. RecordedOf(h) \in Seq(Fingerprints)
    BY <1>1, <1>2, SeqDef
  <1>4. Len(RecordedOf(h)) = Len(h)
    BY <1>1, <1>2, <1>3, LenProperties
  <1> QED
    BY <1>1, <1>3, <1>4 DEF RecordedOf

LEMMA RecordedAppend ==
  ASSUME NEW h \in Seq(HistoryRecords), NEW e \in HistoryRecords
  PROVE  RecordedOf(Append(h, e)) = Append(RecordedOf(h), e.fp)
  <1> DEFINE s == RecordedOf(Append(h, e))
             t == Append(RecordedOf(h), e.fp)
  <1>1. e.fp \in Fingerprints
    BY DEF HistoryRecords
  <1>2. /\ Append(h, e) \in Seq(HistoryRecords) /\ Len(Append(h, e)) = Len(h) + 1
        /\ \A k \in 1..Len(h) : Append(h, e)[k] = h[k]
        /\ Append(h, e)[Len(h) + 1] = e
    OBVIOUS
  <1>3. /\ s \in Seq(Fingerprints) /\ Len(s) = Len(h) + 1
        /\ \A k \in 1..(Len(h) + 1) : s[k] = Append(h, e)[k].fp
    BY <1>2, RecordedType
  <1>4. /\ t \in Seq(Fingerprints) /\ Len(t) = Len(h) + 1 /\ Len(h) \in Nat
        /\ \A k \in 1..Len(h) : t[k] = h[k].fp
        /\ t[Len(h) + 1] = e.fp
    BY <1>1, RecordedType
  <1> HIDE DEF s, t
  <1>5. \A k \in 1..Len(s) : s[k] = t[k]
    <2> TAKE k \in 1..Len(s)
    <2>1. k \in 1..Len(h) \/ k = Len(h) + 1
      BY <1>3, <1>4
    <2> QED
      BY <1>2, <1>3, <1>4, <2>1
  <1>6. s = t
    BY <1>3, <1>4, <1>5, SeqEqual
  <1> QED
    BY <1>6 DEF s, t

LEMMA RecordedLast ==
  ASSUME LedgerInv
  PROVE  /\ SendLedger!LastRecorded = lastSuccessful
         /\ history \in Seq(HistoryRecords)
         /\ history = <<>> <=> RecordedOf(history) = <<>>
  <1>1. history \in Seq(HistoryRecords)
    BY DEF LedgerInv, SafetyInv, TypeInv, TypeOK, PersistedOK
  <1>2. history = <<>> <=> RecordedOf(history) = <<>>
    <2>1. \A S : \A q \in Seq(S) : q = <<>> <=> Len(q) = 0
      OBVIOUS
    <2> QED
      BY <1>1, <2>1, RecordedType
  <1>3. SendLedger!LastRecorded =
          IF RecordedOf(history) = <<>> THEN None
          ELSE RecordedOf(history)[Len(RecordedOf(history))]
    BY DEF SendLedger!LastRecorded, RecordedOf
  <1>4. history # <<>> => RecordedOf(history)[Len(RecordedOf(history))] = history[Len(history)].fp
    BY <1>1, RecordedType
  <1> QED
    BY <1>1, <1>2, <1>3, <1>4 DEF LedgerInv, SafetyInv, HistoryInv

(* What each phase of the ledger is in terms of the status of the attempt.   *)
PhaseOf(s) ==
    CASE s \in ActiveStatuses     -> "active"
      [] s = "failed_resumable"   -> "resumable"
      [] s = "result_unknown"     -> "unknown"
      [] s = "sent"               -> "sent"
      [] OTHER                    -> "idle"

LEMMA Phases ==
  /\ PhaseOf("queued") = "active" /\ PhaseOf("running") = "active"
  /\ PhaseOf("failed_resumable") = "resumable" /\ PhaseOf("result_unknown") = "unknown"
  /\ PhaseOf("sent") = "sent" /\ PhaseOf("none") = "idle"
  BY DEF PhaseOf, ActiveStatuses

LEMMA LedgerInitial == Init => SendLedger!Init
  <1> SUFFICES ASSUME Init PROVE SendLedger!Init
    OBVIOUS
  <1>1. AttemptPhase = "idle"
    BY DEF Init, NoAttempt, AttemptPhase, AttemptStatus, recoveredAttemptStatus, ActiveStatuses
  <1>2. RecordedOf(history) = <<>>
    BY LedgerInit, RecordedLast DEF Init
  <1>3. attempt.fp = None
    BY DEF Init, NoAttempt
  <1> QED
    BY <1>1, <1>2, <1>3 DEF SendLedger!Init, RecordedOf

LEMMA LedgerSimulation ==
  ASSUME LedgerInv, [Next]_vars
  PROVE  [SendLedger!Next]_(SendLedger!ledgerVars)
  <1> DEFINE recorded == RecordedOf(history)
  <1> SUFFICES \/ SendLedger!Accept \/ SendLedger!Fail \/ SendLedger!Doubt
               \/ SendLedger!Confirm \/ SendLedger!Adopt
               \/ UNCHANGED <<AttemptPhase, attempt.fp, recorded>>
    BY DEF SendLedger!Next, SendLedger!ledgerVars, RecordedOf
  <1>1. AttemptPhase = PhaseOf(AttemptStatus) /\ AttemptPhase' = PhaseOf(AttemptStatus')
    BY DEF AttemptPhase, PhaseOf
  <1>2. history' = history => recorded' = recorded
    OBVIOUS
  <1>3. CASE Quiet
    <2>1. UNCHANGED <<attempt.fp, recorded>>
      BY <1>2, <1>3, QuietEffect
    <2>2. CASE AttemptStatus' = AttemptStatus
      BY <1>1, <2>1, <2>2
    <2>3. CASE AttemptStatus \in ActiveStatuses /\ AttemptStatus' = FailureStatus(ckpt)
      <3>1. AttemptPhase = "active" /\ AttemptPhase' \in {"resumable", "unknown"}
        BY <1>1, <2>3, Phases DEF ActiveStatuses, FailureStatus
      <3> QED
        BY <2>1, <3>1 DEF SendLedger!Fail, SendLedger!Doubt, RecordedOf
    <2> QED
      BY <1>3, <2>2, <2>3, QuietEffect
  <1>4. CASE Adopting
    <2>1. /\ AttemptPhase' = "idle" /\ attempt'.fp = None /\ history = <<>>
      BY <1>1, <1>4, AdoptEffect, Phases DEF NoAttempt
    <2>2. PICK i \in Nat : history' = <<[attempt |-> 0, fp |-> External, record |-> i]>>
      BY <1>4, AdoptEffect
    <2>3. recorded = <<>> /\ recorded' = <<External>>
      <3> DEFINE e == [attempt |-> 0, fp |-> External, record |-> i]
      <3>1. e \in HistoryRecords /\ history \in Seq(HistoryRecords)
        BY BoundsAssumption
        DEF HistoryRecords, SendIds, Fingerprints, LedgerInv, SafetyInv, TypeInv, TypeOK,
            PersistedOK
      <3>2. e.fp = External /\ history' = Append(history, e)
        BY <2>1, <2>2
      <3> HIDE DEF e
      <3>3. recorded = <<>>
        BY <2>1, RecordedLast
      <3>4. recorded' = Append(recorded, External)
        BY <3>1, <3>2, RecordedAppend
      <3> QED
        BY <3>3, <3>4
    <2> QED
      BY <2>1, <2>3 DEF SendLedger!Adopt, RecordedOf
  <1>5. CASE Sending
    <2>1. PICK c \in Callers : Send(c)
      BY <1>5 DEF Sending
    <2>2. AttemptPhase \in {"idle", "resumable", "sent"} /\ AttemptPhase' = "active"
      BY <1>1, <2>1, AcceptEffect, Phases
    <2>3. attempt'.fp = draft /\ lastSuccessful # draft /\ history' = history
      BY <2>1, SendEffect DEF LedgerInv, SafetyInv
    <2>4. draft \in Contents
      BY DEF LedgerInv, SafetyInv, TypeInv, TypeOK, PersistedOK
    <2> QED
      BY <1>2, <2>2, <2>3, <2>4, RecordedLast DEF SendLedger!Accept, RecordedOf
  <1>6. CASE Merging
    <2>1. UNCHANGED <<attempt.fp, recorded>>
      BY <1>2, <1>6, MergeEffect DEF Merging
    <2>2. \/ AttemptPhase' = AttemptPhase
          \/ AttemptPhase \in {"resumable", "sent"} /\ AttemptPhase' = "unknown"
      BY <1>1, <1>6, MergeEffect, Phases DEF Merging, ActiveStatuses
    <2> QED
      BY <2>1, <2>2 DEF SendLedger!Doubt, RecordedOf
  <1>7. CASE Concluding
    <2>1. attempt'.fp = attempt.fp
      BY <1>7, ConcludeEffect
    <2>2. CASE UNCHANGED <<status, attempt, lastSuccessful, history>>
               /\ AttemptStatus' = AttemptStatus
      BY <1>1, <1>2, <2>1, <2>2
    <2>3. CASE /\ attempt.id # 0 /\ AttemptStatus' = FailureStatus(ckpt)
               /\ UNCHANGED <<lastSuccessful, history>>
      <3>1. \/ AttemptPhase' = AttemptPhase
            \/ AttemptPhase \in {"active", "resumable", "sent"} /\ AttemptPhase' = "unknown"
            \/ AttemptPhase = "active" /\ AttemptPhase' = "resumable"
        BY <1>1, <2>3, StatusKinds, Phases DEF FailureStatus, ActiveStatuses
      <3> QED
        BY <1>2, <2>1, <2>3, <3>1 DEF SendLedger!Fail, SendLedger!Doubt, RecordedOf
    <2>4. CASE /\ attempt.id # 0 /\ AttemptStatus' = "sent"
               /\ \E record \in Nat : history' = WithHistory(record)
      <3>1. AttemptPhase \in {"active", "resumable", "unknown", "sent"} /\ AttemptPhase' = "sent"
        BY <1>1, <2>4, StatusKinds, Phases DEF ActiveStatuses
      <3>2. InHistory(attempt.id) <=> attempt.fp = lastSuccessful
        BY <2>4 DEF LedgerInv, SafetyInv, HistoryInv
      <3>3. recorded' = IF lastSuccessful = attempt.fp THEN recorded
                        ELSE Append(recorded, attempt.fp)
        <4>1. PICK record \in Nat : history' = WithHistory(record)
          BY <2>4
        <4> DEFINE e == [attempt |-> attempt.id, fp |-> attempt.fp, record |-> record]
        <4>2. e \in HistoryRecords /\ e.fp = attempt.fp
          BY DEF HistoryRecords, LedgerInv, SafetyInv, TypeInv, TypeOK, PersistedOK, AttemptRecords
        <4>3. history' = IF InHistory(attempt.id) THEN history ELSE Append(history, e)
          BY <4>1 DEF WithHistory
        <4> HIDE DEF e
        <4> QED
          BY <1>2, <3>2, <4>2, <4>3, RecordedAppend, RecordedLast
      <3>4. AttemptStatus = "sent" => lastSuccessful = attempt.fp
        BY StatusKinds DEF LedgerInv, ProgressInv
      <3>5. AttemptPhase = "sent" => AttemptStatus = "sent"
        BY <1>1, StatusKinds, Phases DEF ActiveStatuses
      <3>6. CASE AttemptPhase = "sent"
        BY <2>1, <3>1, <3>3, <3>4, <3>5, <3>6
      <3>7. CASE AttemptPhase # "sent"
        BY <2>1, <3>1, <3>3, <3>7, RecordedLast DEF SendLedger!Confirm, RecordedOf
      <3> QED
        BY <3>6, <3>7
    <2> QED
      BY <1>7, <2>2, <2>3, <2>4, ConcludeEffect
  <1> QED
    BY <1>3, <1>4, <1>5, <1>6, <1>7, StepKinds DEF LedgerInv, SafetyInv

(* The service implements the send ledger: whatever the pages, helpers and   *)
(* restarts do, contents are accepted one at a time, a content in doubt      *)
(* blocks the others, and only an accepted content is recorded.              *)
THEOREM ImplementsSendLedgerHolds == Spec => ImplementsSendLedger
  BY LedgerInit, LedgerStep, LedgerInitial, LedgerSimulation, PTL
  DEF Spec, ImplementsSendLedger, SendLedger!Spec

-----------------------------------------------------------------------------
(* Evidence in the console.  What a helper or a recheck has seen of the      *)
(* console is still there, and an answer "sent" names a record of it.        *)
Reporting == {"merging", "finishing"}
Seen(x) == x.record <= visible /\ x.seen <= visible
BackedInv ==
    /\ \A c \in Callers, i \in 1..MaxSends :
          Seen(exec[c][i]) /\ (exec[c][i].stage = "sent" => exec[c][i].record # 0)
    /\ \A c \in Callers :
          /\ Seen(job[c])
          /\ pc[c] \in Reporting /\ job[c].outcome = "sent" => job[c].record # 0
    /\ HistoryBacked

(* The console only gains records, and only more of them become visible.     *)
LEMMA ConsoleGrows ==
  ASSUME TypeInv, [Next]_vars
  PROVE  /\ visible' \in {visible, visible + 1} /\ visible \in Nat
         /\ visible <= Len(ledger) /\ Len(ledger) \in Nat
         /\ \A k \in 1..Len(ledger) : ledger'[k] = ledger[k]
  <1>1. visible \in Nat /\ visible <= Len(ledger) /\ Len(ledger) \in Nat
        /\ ledger \in Seq(LedgerRecords)
    BY DEF TypeInv, TypeOK, ConsoleOK
  <1>2. \A r : \A k \in 1..Len(ledger) : Append(ledger, r)[k] = ledger[k]
    BY <1>1
  <1>3. ASSUME NEW d \in Callers, Serve(d) PROVE UNCHANGED <<ledger, visible>>
    BY <1>3
    DEF Serve, PreparePreview, HelperInspect, PreviewBegin, RecognizeInitialSend, PreviewCommit,
        Send, SendRejected, HelperBegin, Report, ReportMerge, ReportFinish, ReportExpired,
        Collide, PrepareRecheck, HelperRecheck, RecheckRead, RecheckCommit, GiveUp, console
  <1>4. ASSUME NEW d \in Callers, NEW i \in 1..MaxSends, Run(d, i)
        PROVE  visible' = visible /\ (ledger' = ledger \/ \E r : ledger' = Append(ledger, r))
    BY <1>4
    DEF Run, HelperReadRecords, HelperSubmit, HelperClick, HelperVerify, HelperFail, console
  <1>5. CASE Environment
    <2>1. /\ visible' = visible \/ visible' = visible + 1
          /\ ledger' = ledger \/ \E r : ledger' = Append(ledger, r)
      BY <1>5
      DEF Environment, PreviewExpires, LocalExecutionExpires, RecordAppears, ForeignSend,
          RequirementChanges, ServerRestart, console
    <2> QED
      BY <1>1, <1>2, <2>1
  <1>6. ASSUME NEW content \in Contents, Edit(content) PROVE UNCHANGED <<ledger, visible>>
    BY <1>6 DEF Edit, console
  <1>7. CASE UNCHANGED vars
    BY <1>1, <1>7 DEF vars, console
  <1>8. CASE \/ \E content \in Contents : Edit(content)
             \/ \E d \in Callers : Serve(d)
             \/ \E d \in Callers, i \in 1..MaxSends : Run(d, i)
    BY <1>1, <1>2, <1>3, <1>4, <1>6, <1>8
  <1> QED
    BY <1>5, <1>7, <1>8 DEF Next

LEMMA BackedPages ==
  ASSUME TypeInv, BackedInv, [Next]_vars, NEW c \in Callers
  PROVE  /\ job'[c].record <= visible' /\ job'[c].seen <= visible'
         /\ pc'[c] \in Reporting /\ job'[c].outcome = "sent" => job'[c].record # 0
  <1> DEFINE Fits(p, j) == j.record <= visible /\ j.seen <= visible
                           /\ (p \in Reporting /\ j.outcome = "sent" => j.record # 0)
  <1>1. PagesOK /\ \A d \in Callers : job[d] \in Jobs /\ Fits(pc[d], job[d])
    BY DEF TypeInv, TypeOK, PagesOK, BackedInv, Seen
  <1>2. Fits("idle", NoJob) /\ visible \in Nat /\ visible' \in {visible, visible + 1}
    BY ConsoleGrows DEF NoJob
  <1>3. Fits(pc'[c], job'[c])
    <2>1. CASE UNCHANGED <<pc, job>>
      BY <1>1, <2>1
    <2>2. ASSUME NEW d \in Callers, Serve(d)
          PROVE  Fits(pc'[c], job'[c]) \/ UNCHANGED <<pc, job>>
      <3>1. ASSUME NEW place, NEW locals, Goto(d, place, locals), Fits(place, locals)
            PROVE  Fits(pc'[c], job'[c])
        BY <1>1, <3>1 DEF Goto, PagesOK
      <3>2. ASSUME Leave(d) PROVE Fits(pc'[c], job'[c])
        BY <1>2, <3>1, <3>2 DEF Leave
      <3>3. job[d] \in Jobs /\ Fits(pc[d], job[d])
        BY <1>1
      <3>4. CASE PreparePreview(d) \/ PrepareRecheck(d)
        <4> DEFINE read == [NoJob EXCEPT !.draft = confirmed, !.base = lastSuccessful]
                   asked == [NoJob EXCEPT !.kind = attempt.kind, !.ckpt = ckpt]
        <4>1. Fits("inspecting", read) /\ Fits("rechecking", asked)
          BY <1>2 DEF NoJob, Reporting
        <4>2. Goto(d, "inspecting", read) \/ Goto(d, "rechecking", asked)
          BY <3>4 DEF PreparePreview, PrepareRecheck
        <4> HIDE DEF read, asked, Fits
        <4> QED
          BY <3>1, <4>1, <4>2
      <3>5. CASE HelperInspect(d) \/ HelperRecheck(d)
        <4> DEFINE match == AttemptSendRecord(ledger, visible, job[d].kind,
                                              job[d].ckpt.before, job[d].ckpt.started)
                   seen == [job[d] EXCEPT !.seen = visible]
                   found == [job[d] EXCEPT !.seen = visible, !.record = match]
        <4>1. match \in 0..visible
          BY <1>2, AttemptSendRecordType
        <4>2. Goto(d, "inspected", seen) \/ Goto(d, "rechecked", found)
          BY <3>5 DEF HelperInspect, HelperRecheck
        <4> HIDE DEF match
        <4>3. Fits("inspected", seen) /\ Fits("rechecked", found)
          BY <1>2, <3>3, <4>1 DEF Jobs, Reporting
        <4> HIDE DEF seen, found, Fits
        <4> QED
          BY <3>1, <4>2, <4>3
      <3>6. CASE PreviewBegin(d)
        <4> DEFINE read == [job[d] EXCEPT !.draft = confirmed, !.base = lastSuccessful,
                                !.kind = IF HasSent THEN "resend" ELSE "initial",
                                !.requirement = requirement, !.schedule = schedule,
                                !.records = snapshotRecords]
        <4>1. Fits("previewing", read)
          BY <3>3 DEF Jobs, Reporting
        <4>2. Goto(d, "previewing", read) \/ Leave(d)
          BY <3>6 DEF PreviewBegin
        <4> HIDE DEF read, Fits
        <4> QED
          BY <3>1, <3>2, <4>1, <4>2
      <3>7. CASE PreviewCommit(d)
        <4> DEFINE held == [NoJob EXCEPT !.token = issued.previews + 1, !.version = version]
        <4>1. Fits("previewed", held) /\ Goto(d, "previewed", held)
          BY <1>2, <3>7 DEF PreviewCommit, NoJob, Reporting
        <4> HIDE DEF held, Fits
        <4> QED
          BY <3>1, <4>1
      <3>8. CASE Send(d)
        <4>1. PICK n, id, kind :
                Goto(d, "sending", [NoJob EXCEPT !.id = id, !.completion = n, !.kind = kind])
          <5>1. PICK resume \in {FALSE, AttemptMatchesPreview} :
            LET n == issued.sends + 1
                id == IF resume THEN attempt.id ELSE n
            IN  Goto(d, "sending", [NoJob EXCEPT !.id = id, !.completion = n,
                                                !.kind = preview.kind])
            BY <3>8, Zenon DEF Send
          <5> QED
            BY <5>1
        <4> DEFINE held == [NoJob EXCEPT !.id = id, !.completion = n, !.kind = kind]
        <4>2. Fits("sending", held) /\ Goto(d, "sending", held)
          BY <1>2, <4>1 DEF NoJob, Reporting
        <4> HIDE DEF held, Fits
        <4> QED
          BY <3>1, <4>2
      <3>9. CASE RecognizeInitialSend(d) \/ SendRejected(d) \/ ReportFinish(d)
                 \/ ReportExpired(d) \/ Collide(d) \/ RecheckCommit(d) \/ GiveUp(d)
        BY <3>2, <3>9
        DEF RecognizeInitialSend, SendRejected, ReportFinish, ReportExpired, Collide,
            RecheckCommit, GiveUp
      <3>10. CASE HelperBegin(d)
        BY <3>10 DEF HelperBegin
      <3>11. CASE Report(d)
        <4> DEFINE e == exec[d][job[d].id]
                   lost == [job[d] EXCEPT !.outcome = "error"]
                   posted == [job[d] EXCEPT !.outcome = e.stage, !.ckpt = e.ckpt,
                                            !.record = e.record, !.seen = e.seen]
        <4>1. job[d].id \in 1..MaxSends
          BY <3>3, <3>11, BoundsAssumption
          DEF Report, TypeInv, WellFormed, AttemptStages, Jobs, SendIds
        <4>2. Seen(e) /\ (e.stage = "sent" => e.record # 0)
          BY <4>1 DEF BackedInv
        <4>3. Fits("merging", posted) /\ Fits("merging", lost) /\ Fits("expiring", lost)
          BY <3>3, <4>2 DEF Jobs, Seen, Reporting
        <4>4. \/ Leave(d) \/ Goto(d, "expiring", lost) \/ Goto(d, "merging", lost)
              \/ Goto(d, "merging", posted)
          BY <3>11 DEF Report, Envelope
        <4> HIDE DEF lost, posted, Fits
        <4> QED
          BY <3>1, <3>2, <4>3, <4>4
      <3>12. CASE ReportMerge(d)
        <4>1. Fits("finishing", job[d]) /\ Goto(d, "finishing", job[d])
          BY <3>3, <3>12 DEF ReportMerge, Reporting
        <4> HIDE DEF Fits
        <4> QED
          BY <3>1, <4>1
      <3>13. CASE RecheckRead(d)
        <4> DEFINE found == [job[d] EXCEPT !.id = attempt.id]
        <4>1. Fits("reconciling", found)
          BY <3>3 DEF Jobs, Reporting
        <4>2. Goto(d, "reconciling", found) \/ Leave(d)
          BY <3>13 DEF RecheckRead
        <4> HIDE DEF found, Fits
        <4> QED
          BY <3>1, <3>2, <4>1, <4>2
      <3> QED
        BY <2>2, <3>4, <3>5, <3>6, <3>7, <3>8, <3>9, <3>10, <3>11, <3>12, <3>13 DEF Serve
    <2>3. ASSUME NEW d \in Callers, NEW i \in 1..MaxSends, Run(d, i)
          PROVE  UNCHANGED <<pc, job>>
      BY <2>3
      DEF Run, HelperReadRecords, HelperSubmit, HelperClick, HelperVerify, HelperFail
    <2>4. CASE ServerRestart
      BY <1>1, <1>2, <2>4 DEF ServerRestart
    <2>5. CASE \/ PreviewExpires \/ LocalExecutionExpires \/ RecordAppears \/ ForeignSend
               \/ RequirementChanges
      BY <2>1, <2>5
      DEF PreviewExpires, LocalExecutionExpires, RecordAppears, ForeignSend,
          RequirementChanges
    <2>6. ASSUME NEW content \in Contents, Edit(content) PROVE UNCHANGED <<pc, job>>
      BY <2>6 DEF Edit
    <2>7. CASE UNCHANGED vars
      BY <2>1, <2>7 DEF vars
    <2> QED
      BY <2>1, <2>2, <2>3, <2>4, <2>5, <2>6, <2>7 DEF Next, Environment
  <1>4. job'[c] \in Jobs
    BY TypeStep DEF TypeInv, TypeOK, PagesOK
  <1> QED
    BY <1>1, <1>2, <1>3, <1>4 DEF Jobs

(* Recording an attempt, or adopting a send, names a record of the console.  *)
LEMMA BackedHistory ==
  ASSUME TypeInv, BackedInv, [Next]_vars
  PROVE  HistoryBacked'
  <1> DEFINE Rests(e) == /\ e.record \in 1..visible
                         /\ e.attempt = 0 => ledger[e.record].type = "initial"
  <1>1. /\ history \in Seq(HistoryRecords) /\ \A k \in DOMAIN history : Rests(history[k])
        /\ \A r \in HistoryRecords : Rests(r) => r.record \in 1..visible'
              /\ (r.attempt = 0 => ledger'[r.record].type = "initial")
    <2>1. history \in Seq(HistoryRecords)
      BY DEF TypeInv, TypeOK, PersistedOK
    <2>2. visible' \in {visible, visible + 1} /\ visible \in Nat /\ visible <= Len(ledger)
          /\ Len(ledger) \in Nat /\ \A k \in 1..Len(ledger) : ledger'[k] = ledger[k]
      BY ConsoleGrows
    <2> QED
      BY <2>1, <2>2 DEF BackedInv, HistoryBacked
  <1>2. ASSUME history' = history \/ \E e \in HistoryRecords : Rests(e) /\ history' = Append(history, e)
        PROVE  HistoryBacked'
    <2>1. CASE history' = history
      BY <1>1, <2>1 DEF HistoryBacked
    <2>2. ASSUME NEW e \in HistoryRecords, Rests(e), history' = Append(history, e)
          PROVE  HistoryBacked'
      <3>1. DOMAIN history' = 1..(Len(history) + 1) /\ Len(history) \in Nat
            /\ DOMAIN history = 1..Len(history)
            /\ \A k \in 1..Len(history) : history'[k] = history[k] /\ history[k] \in HistoryRecords
            /\ history'[Len(history) + 1] = e
        BY <1>1, <2>2
      <3>2. \A k \in DOMAIN history' : history'[k] \in HistoryRecords /\ Rests(history'[k])
        BY <1>1, <2>2, <3>1
      <3> QED
        BY <1>1, <3>2 DEF HistoryBacked
    <2> QED
      BY <1>2, <2>1, <2>2
  <1> HIDE DEF Rests
  <1>3. CASE Quiet \/ Sending \/ Merging
    BY <1>2, <1>3 DEF Quiet, Sending, Merging, Send, ReportMerge
  <1>4. CASE Adopting
    <2>1. PICK c \in Callers : RecognizeInitialSend(c)
      BY <1>4 DEF Adopting
    <2>2. PICK i \in InitialRecords(job[c]) :
            history' = Append(history, [attempt |-> 0, fp |-> External, record |-> i])
      BY <2>1 DEF RecognizeInitialSend
    <2>3. i \in 1..visible /\ ledger[i].type = "initial"
      <3>1. job[c].seen \in Nat /\ job[c].seen <= visible /\ visible \in Nat
        BY DEF BackedInv, Seen, TypeInv, TypeOK, PagesOK, ConsoleOK, Jobs
      <3> QED
        BY <3>1 DEF InitialRecords
    <2> DEFINE e == [attempt |-> 0, fp |-> External, record |-> i]
    <2>4. e \in HistoryRecords /\ Rests(e)
      BY <2>3, BoundsAssumption DEF HistoryRecords, SendIds, Fingerprints, Rests
    <2> QED
      BY <1>2, <2>2, <2>4
  <1>5. CASE Concluding
    <2>1. PICK c \in Callers : ReportFinish(c) \/ ReportExpired(c) \/ RecheckCommit(c)
      BY <1>5 DEF Concluding
    <2>2. \/ history' = history
          \/ /\ job[c].record # 0 /\ attempt.id = job[c].id
             /\ history' = WithHistory(job[c].record)
      BY <2>1 DEF ReportFinish, ReportExpired, RecheckCommit, MarkSent, BackedInv, Reporting
    <2>3. CASE /\ job[c].record # 0 /\ attempt.id = job[c].id
               /\ history' = WithHistory(job[c].record)
      <3>1. /\ job[c].record \in Nat /\ job[c].record <= visible /\ visible \in Nat
            /\ attempt \in AttemptRecords
        BY DEF BackedInv, Seen, TypeInv, TypeOK, PersistedOK, PagesOK, ConsoleOK, Jobs
      <3>2. attempt.id # 0
        BY <2>1, <2>3
        DEF TypeInv, WellFormed, AttemptStages, ReportFinish, ReportExpired, RecheckCommit
      <3> DEFINE e == [attempt |-> attempt.id, fp |-> attempt.fp, record |-> job[c].record]
      <3>3. e \in HistoryRecords /\ Rests(e)
        BY <2>3, <3>1, <3>2 DEF HistoryRecords, AttemptRecords, Rests
      <3> QED
        BY <1>2, <2>3, <3>3 DEF WithHistory
    <2> QED
      BY <1>2, <2>2, <2>3
  <1> QED
    BY <1>3, <1>4, <1>5, StepKinds

LEMMA BackedInit == Init => BackedInv
  BY DEF Init, BackedInv, Seen, HistoryBacked, NoExec, NoJob

LEMMA BackedStep == TypeInv /\ BackedInv /\ [Next]_vars => BackedInv'
  <1> SUFFICES ASSUME TypeInv, BackedInv, [Next]_vars PROVE BackedInv'
    OBVIOUS
  <1>1. ASSUME NEW c \in Callers, NEW i \in 1..MaxSends
        PROVE  /\ exec'[c][i].record <= visible' /\ exec'[c][i].seen <= visible'
               /\ exec'[c][i].stage = "sent" => exec'[c][i].record # 0
    <2>1. visible' \in {visible, visible + 1} /\ visible \in Nat
      BY ConsoleGrows
    <2>2. exec[c][i] \in Execs /\ exec'[c][i] \in Execs
      BY TypeStep DEF TypeInv, TypeOK, ExecOK
    <2>3. HelperMoves(exec[c][i], exec'[c][i])
      BY HelperStepKinds
    <2>4. /\ exec[c][i].record <= visible /\ exec[c][i].seen <= visible
          /\ exec[c][i].stage = "sent" => exec[c][i].record # 0
      BY DEF BackedInv, Seen
    <2> QED
      BY <2>1, <2>2, <2>3, <2>4 DEF HelperMoves, Execs, Answers
  <1> QED
    BY <1>1, BackedPages, BackedHistory DEF BackedInv, Seen

(* Every entry of the send history, at any time, rests on a record that the  *)
(* console shows, and an adopted one on a first send: neither a report that  *)
(* comes late nor a recheck of another attempt enters without evidence.      *)
THEOREM HistoryBackedHolds == Spec => []HistoryBacked
  <1>1. BackedInv => HistoryBacked
    BY DEF BackedInv
  <1> QED
    BY <1>1, TypeInit, TypeStep, BackedInit, BackedStep, PTL DEF Spec

-----------------------------------------------------------------------------
(* One page at work.  Whatever evidence is gathered for the attempt at hand  *)
(* lies after everything the history rests on, until it is recorded itself.  *)
OnePage == \A c, d \in Callers : c = d

RecordedBy(r) == \A k \in DOMAIN history : history[k].record <= r
RecordedBefore(r) == \A k \in DOMAIN history : history[k].record < r
Unrecorded == attempt.id # 0 /\ ~InHistory(attempt.id)

PageFresh(c) ==
    /\ pc[c] \in Reporting /\ job[c].id = attempt.id =>
          /\ irreversibleBoundaryReached(job[c].ckpt) => RecordedBy(job[c].ckpt.before)
          /\ job[c].outcome = "sent" => RecordedBefore(job[c].record)
    /\ pc[c] = "rechecking" => RecordedBy(job[c].ckpt.before)
    /\ pc[c] \in {"rechecked", "reconciling"} /\ job[c].record # 0 =>
          RecordedBefore(job[c].record)
FreshInv ==
    Unrecorded =>
        /\ irreversibleBoundaryReached(ckpt) => RecordedBy(ckpt.before)
        /\ \A c \in Callers :
              /\ Prepared(exec[c][attempt.id]) => RecordedBy(exec[c][attempt.id].ckpt.before)
              /\ PageFresh(c)
OrderInv ==
    /\ HistoryInConsoleOrder
    /\ \A c \in Callers, i \in 1..MaxSends :
          /\ i > issued.sends => exec[c][i].stage = "none"
          /\ exec[c][i].stage = "none" => exec[c][i].ckpt = NoCheckpoints
          /\ exec[c][i].stage = "sent" => exec[c][i].ckpt.before < exec[c][i].record
                                          /\ Prepared(exec[c][i])
    /\ \A c \in Callers : pc[c] = "sending" => job[c].ckpt = NoCheckpoints
    /\ FreshInv

LEMMA OrderInit == Init => OrderInv
  BY DEF Init, OrderInv, FreshInv, HistoryInConsoleOrder, Unrecorded, NoAttempt, NoExec

LEMMA OrderExec ==
  ASSUME LedgerInv, OrderInv, [Next]_vars, NEW c \in Callers, NEW i \in 1..MaxSends
  PROVE  /\ i > issued'.sends => exec'[c][i].stage = "none"
         /\ exec'[c][i].stage = "none" => exec'[c][i].ckpt = NoCheckpoints
         /\ exec'[c][i].stage = "sent" => exec'[c][i].ckpt.before < exec'[c][i].record
                                          /\ Prepared(exec'[c][i])
  <1>1. /\ HelperMoves(exec[c][i], exec'[c][i])
        /\ exec[c][i].stage = "none" /\ exec'[c][i].stage # "none" => job[c].id = i
    BY HelperStepKinds DEF LedgerInv, SafetyInv
  <1>2. /\ job[c].id <= issued.sends /\ issued.sends <= issued'.sends
        /\ job[c].id \in Nat /\ issued.sends \in Nat /\ issued'.sends \in Nat
    BY KnowledgeKept, TypeStep
    DEF LedgerInv, SafetyInv, TypeInv, TypeOK, PagesOK, MemoryOK, Jobs, SendIds, PageInv
  <1>3. /\ i > issued.sends => exec[c][i].stage = "none"
        /\ exec[c][i].stage = "none" => exec[c][i].ckpt = NoCheckpoints
        /\ exec[c][i].stage = "sent" => exec[c][i].ckpt.before < exec[c][i].record
                                        /\ Prepared(exec[c][i])
    BY DEF OrderInv
  <1>4. i > issued'.sends => exec'[c][i].stage = "none"
    BY <1>1, <1>2, <1>3
  <1>5. exec'[c][i].stage = "none" => exec'[c][i].ckpt = NoCheckpoints
    BY <1>1, <1>3 DEF HelperMoves, Answers
  <1>6. exec'[c][i].stage = "sent" => exec'[c][i].ckpt.before < exec'[c][i].record
                                      /\ Prepared(exec'[c][i])
    BY <1>1, <1>3 DEF HelperMoves, Answers, Prepared
  <1> QED
    BY <1>4, <1>5, <1>6

(* An entry enters the history only with evidence that lies after all of it, *)
(* and nothing is then left to be recorded.                                  *)
LEMMA OrderHistory ==
  ASSUME LedgerInv, BackedInv, OrderInv, [Next]_vars, history' # history
  PROVE  HistoryInConsoleOrder' /\ ~Unrecorded'
  <1>1. TypeInv /\ history \in Seq(HistoryRecords) /\ Len(history) \in Nat
        /\ DOMAIN history = 1..Len(history)
    BY DEF LedgerInv, SafetyInv, TypeInv, TypeOK, PersistedOK
  <1>2. ASSUME NEW e \in HistoryRecords, RecordedBefore(e.record), history' = Append(history, e)
        PROVE  HistoryInConsoleOrder' /\ \E k \in DOMAIN history' : history'[k].attempt = e.attempt
    <2>1. DOMAIN history' = 1..(Len(history) + 1) /\ history'[Len(history) + 1] = e
          /\ \A k \in 1..Len(history) : history'[k] = history[k]
      <3>1. /\ history' \in Seq(HistoryRecords) /\ Len(history') = Len(history) + 1
            /\ history'[Len(history) + 1] = e
            /\ \A k \in 1..Len(history) : history'[k] = history[k]
        BY <1>1, <1>2, AppendProperties
      <3>2. DOMAIN history' = 1..Len(history')
        BY <3>1, LenProperties
      <3> QED
        BY <3>1, <3>2
    <2>2. ASSUME NEW k \in DOMAIN history', NEW l \in DOMAIN history', k < l
          PROVE  history'[k].record < history'[l].record
      <3>1. k \in 1..Len(history) /\ history'[k] = history[k]
        BY <1>1, <2>1, <2>2
      <3>2. CASE l = Len(history) + 1
        BY <1>1, <1>2, <2>1, <3>1, <3>2 DEF RecordedBefore
      <3>3. CASE l # Len(history) + 1
        BY <1>1, <2>1, <2>2, <3>1, <3>3 DEF OrderInv, HistoryInConsoleOrder
      <3> QED
        BY <3>2, <3>3
    <2>3. \E k \in DOMAIN history' : history'[k].attempt = e.attempt
      BY <1>1, <2>1
    <2> QED
      BY <2>2, <2>3 DEF HistoryInConsoleOrder
  <1>3. CASE Quiet \/ Sending \/ Merging
    BY <1>3 DEF Quiet, Sending, Merging, Send, ReportMerge
  <1>4. CASE Adopting
    <2>1. PICK c \in Callers : RecognizeInitialSend(c)
      BY <1>4 DEF Adopting
    <2>2. history = <<>>
      <3>1. lastSuccessful = None
        BY <2>1 DEF RecognizeInitialSend
      <3>2. history # <<>> => /\ lastSuccessful = history[Len(history)].fp
                              /\ \A k \in DOMAIN history : history[k].fp # None
        BY DEF LedgerInv, SafetyInv, HistoryInv
      <3>3. history # <<>> => Len(history) \in DOMAIN history
        BY <1>1, EmptySeq
      <3> QED
        BY <3>1, <3>2, <3>3
    <2>3. attempt'.id = 0 /\ \E i : history' = Append(history, [attempt |-> 0, fp |-> External, record |-> i])
      BY <2>1 DEF RecognizeInitialSend, NoAttempt
    <2>4. DOMAIN history' = 1..1
      BY <2>2, <2>3
    <2> QED
      BY <2>3, <2>4 DEF HistoryInConsoleOrder, Unrecorded
  <1>5. CASE Concluding
    <2>1. PICK c \in Callers : ReportFinish(c) \/ ReportExpired(c) \/ RecheckCommit(c)
      BY <1>5 DEF Concluding
    <2>2. /\ attempt.id = job[c].id /\ attempt'.id = attempt.id
          /\ history' = WithHistory(job[c].record)
          /\ \/ pc[c] = "finishing" /\ job[c].outcome = "sent"
             \/ pc[c] = "reconciling" /\ job[c].record # 0
      <3>1. attempt'.id = attempt.id
        BY <1>5, ConcludeEffect
      <3> QED
        BY <2>1, <3>1 DEF ReportFinish, ReportExpired, RecheckCommit, MarkSent
    <2>3. job[c].id # 0 /\ job[c].record \in Nat /\ attempt \in AttemptRecords
      BY <1>1, <2>1
      DEF TypeInv, TypeOK, PersistedOK, PagesOK, WellFormed, AttemptStages, Jobs,
          ReportFinish, ReportExpired, RecheckCommit
    <2>4. ~InHistory(attempt.id)
      BY <2>2 DEF WithHistory
    <2>5. RecordedBefore(job[c].record)
      BY <2>2, <2>3, <2>4 DEF OrderInv, FreshInv, PageFresh, Unrecorded, Reporting
    <2> DEFINE e == [attempt |-> attempt.id, fp |-> attempt.fp, record |-> job[c].record]
    <2>6. e \in HistoryRecords /\ history' = Append(history, e)
      BY <2>2, <2>3, <2>4 DEF HistoryRecords, AttemptRecords, WithHistory
    <2>7. e.attempt = attempt'.id /\ RecordedBefore(e.record)
      BY <2>2, <2>5
    <2> HIDE DEF e
    <2> QED
      BY <1>2, <2>6, <2>7 DEF Unrecorded, InHistory
  <1> QED
    BY <1>1, <1>3, <1>4, <1>5, StepKinds

(* An accepted send starts with nothing gathered, or resumes what is fresh;  *)
(* the only page is the one that sent it.                                    *)
LEMMA FreshAccepted ==
  ASSUME OnePage, LedgerInv, OrderInv, [Next]_vars, history' = history, Sending, Unrecorded'
  PROVE  /\ irreversibleBoundaryReached(ckpt') => RecordedBy(ckpt'.before)
         /\ \A c \in Callers :
               /\ Prepared(exec'[c][attempt'.id]) => RecordedBy(exec'[c][attempt'.id].ckpt.before)
               /\ PageFresh(c)'
  <1>1. TypeInv /\ TypeInv'
    BY TypeStep DEF LedgerInv, SafetyInv
  <1>2. PICK d \in Callers : Send(d)
    BY DEF Sending
  <1>3. /\ ~irreversibleBoundaryReached(ckpt') /\ exec' = exec
        /\ attempt'.id = attempt.id \/ attempt'.id = issued.sends + 1
    BY <1>2, AcceptEffect DEF Send
  <1>4. attempt'.id \in 1..MaxSends /\ issued.sends \in Nat
    BY <1>1, BoundsAssumption
    DEF TypeInv, TypeOK, PersistedOK, MemoryOK, AttemptRecords, SendIds, Unrecorded
  <1>5. ASSUME NEW c \in Callers, Prepared(exec[c][attempt'.id])
        PROVE  RecordedBy(exec[c][attempt'.id].ckpt.before)
    <2>1. CASE attempt'.id = attempt.id
      <3>1. Unrecorded
        BY <2>1 DEF Unrecorded, InHistory
      <3> QED
        BY <1>5, <2>1, <3>1 DEF OrderInv, FreshInv
    <2>2. CASE attempt'.id = issued.sends + 1
      <3>1. exec[c][attempt'.id].stage = "none" /\ exec[c][attempt'.id].ckpt = NoCheckpoints
        BY <1>4, <2>2 DEF OrderInv
      <3> QED
        BY <1>5, <3>1 DEF Prepared, NoCheckpoints, irreversibleBoundaryReached
    <2> QED
      BY <1>3, <2>1, <2>2
  <1>6. ASSUME NEW c \in Callers PROVE PageFresh(c)'
    <2>1. c = d
      BY DEF OnePage
    <2>2. pc'[c] = "sending"
      BY <1>1, <1>2, <2>1 DEF Send, Goto, TypeInv, TypeOK, PagesOK
    <2> QED
      BY <2>2 DEF PageFresh, Reporting
  <1> QED
    BY <1>3, <1>5, <1>6

(* Any other step that records nothing gathers only fresh evidence: records  *)
(* seen by a helper that looks now, or answers found after those.            *)
LEMMA FreshKept ==
  ASSUME LedgerInv, BackedInv, OrderInv, [Next]_vars, history' = history,
         Quiet \/ Merging \/ Concluding, Unrecorded'
  PROVE  /\ irreversibleBoundaryReached(ckpt') => RecordedBy(ckpt'.before)
         /\ \A c \in Callers :
               /\ Prepared(exec'[c][attempt'.id]) => RecordedBy(exec'[c][attempt'.id].ckpt.before)
               /\ PageFresh(c)'
  <1>1. TypeInv /\ TypeInv'
    BY TypeStep DEF LedgerInv, SafetyInv
  <1>2. /\ attempt'.id = attempt.id
        /\ \/ ckpt' = ckpt
           \/ \E d \in Callers : /\ pc[d] = "merging" /\ job[d].id = attempt.id
                                 /\ ckpt' = MergedCheckpoints(job[d])
    <2>1. CASE Quiet
      BY <2>1, QuietEffect
    <2>2. CASE Concluding
      BY <2>2, ConcludeEffect
    <2>3. CASE Merging
      <3>1. PICK d \in Callers : ReportMerge(d)
        BY <2>3 DEF Merging
      <3>2. pc[d] = "merging"
        BY <3>1 DEF ReportMerge
      <3> QED
        BY <3>1, <3>2, MergeEffect
    <2> QED
      BY <2>1, <2>2, <2>3
  <1>3. Unrecorded
    BY <1>2 DEF Unrecorded, InHistory
  <1>4. /\ irreversibleBoundaryReached(ckpt) => RecordedBy(ckpt.before)
        /\ \A c \in Callers :
              /\ Prepared(exec[c][attempt.id]) => RecordedBy(exec[c][attempt.id].ckpt.before)
              /\ PageFresh(c)
    BY <1>3 DEF OrderInv, FreshInv
  <1>5. attempt.id \in 1..MaxSends
    BY <1>1, <1>3, BoundsAssumption
    DEF TypeInv, TypeOK, PersistedOK, AttemptRecords, SendIds, Unrecorded
  <1>6. /\ visible \in Nat /\ RecordedBy(visible)
        /\ \A k \in DOMAIN history : history[k].record \in Nat
    BY <1>1 DEF TypeInv, TypeOK, ConsoleOK, BackedInv, HistoryBacked, RecordedBy
  <1>7. irreversibleBoundaryReached(ckpt') => RecordedBy(ckpt'.before)
    BY <1>2, <1>4 DEF MergedCheckpoints, PageFresh, Reporting, irreversibleBoundaryReached
  <1>8. ASSUME NEW c \in Callers
        PROVE  Prepared(exec'[c][attempt.id]) => RecordedBy(exec'[c][attempt.id].ckpt.before)
    BY <1>1, <1>4, <1>5, <1>6, HelperStepKinds DEF HelperMoves
  <1>9. ASSUME NEW c \in Callers PROVE PageFresh(c)'
    <2>1. PageFresh(c) /\ PageMoves(c) /\ job[c] \in Jobs
      BY <1>1, <1>4, PageStepKinds DEF TypeInv, TypeOK, PagesOK
    <2>2. \A r : /\ RecordedBy(r)' <=> RecordedBy(r)
                 /\ RecordedBefore(r)' <=> RecordedBefore(r)
      BY DEF RecordedBy, RecordedBefore
    <2>3. CASE pc'[c] = pc[c] /\ job'[c] = job[c]
      BY <1>2, <2>1, <2>2, <2>3 DEF PageFresh
    <2>4. CASE pc'[c] \notin Watched \/ pc'[c] = "sending"
      BY <2>4 DEF PageFresh, Watched, Reporting
    <2>5. CASE Report(c) /\ pc'[c] = "merging" /\ job'[c].id = job[c].id
               /\ job'[c] \in {Envelope(c), [job[c] EXCEPT !.outcome = "error"]}
      <3> SUFFICES ASSUME job[c].id = attempt.id
                   PROVE  /\ irreversibleBoundaryReached(job'[c].ckpt) =>
                                RecordedBy(job'[c].ckpt.before)
                          /\ job'[c].outcome = "sent" => RecordedBefore(job'[c].record)
        BY <1>2, <2>2, <2>5 DEF PageFresh
      <3>1. job[c].ckpt = NoCheckpoints
        BY <2>5 DEF Report, OrderInv
      <3> DEFINE e == exec[c][attempt.id]
                 posted == [job[c] EXCEPT !.outcome = e.stage, !.ckpt = e.ckpt,
                                          !.record = e.record, !.seen = e.seen]
                 lost == [job[c] EXCEPT !.outcome = "error"]
      <3>2. /\ posted.outcome = e.stage /\ posted.ckpt = e.ckpt /\ posted.record = e.record
            /\ lost.outcome = "error" /\ lost.ckpt = NoCheckpoints
        BY <2>1, <3>1 DEF Jobs
      <3>3. job'[c] \in {posted, lost}
        BY <2>5 DEF Envelope
      <3> HIDE DEF posted, lost, e
      <3>4. irreversibleBoundaryReached(e.ckpt) => RecordedBy(e.ckpt.before)
        BY <1>4 DEF Prepared, e
      <3>5. e.stage = "sent" => RecordedBefore(e.record)
        <4>1. e \in Execs
          BY <1>1, <1>5 DEF TypeInv, TypeOK, ExecOK, e
        <4>2. e.stage = "sent" => e.ckpt.before < e.record /\ RecordedBy(e.ckpt.before)
          BY <1>4, <1>5 DEF OrderInv, e
        <4> QED
          BY <1>6, <4>1, <4>2 DEF RecordedBy, RecordedBefore, Execs, Checkpoints
      <3> QED
        BY <3>2, <3>3, <3>4, <3>5 DEF irreversibleBoundaryReached, NoCheckpoints
    <2>6. CASE ReportMerge(c) /\ pc'[c] = "finishing" /\ job'[c] = job[c]
      <3>1. pc[c] = "merging"
        BY <2>6 DEF ReportMerge
      <3> QED
        BY <1>2, <2>1, <2>2, <2>6, <3>1 DEF PageFresh, Reporting
    <2>7. CASE PrepareRecheck(c) /\ pc'[c] = "rechecking" /\ job'[c].ckpt = ckpt
      <3>1. TaskStatus = "result_unknown"
        BY <2>7 DEF PrepareRecheck
      <3>2. RecordedBy(ckpt.before)
        BY <1>4, <3>1, StatusKinds
      <3> QED
        BY <2>2, <2>7, <3>2 DEF PageFresh, Reporting
    <2>8. CASE HelperRecheck(c) /\ pc'[c] = "rechecked" /\ job'[c].record = Found(job[c])
      <3>1. RecordedBy(job[c].ckpt.before)
        BY <2>1, <2>8 DEF HelperRecheck, PageFresh
      <3>2. Found(job[c]) # 0 => job[c].ckpt.before < Found(job[c])
        BY <1>6, <2>1, AttemptSendRecordAfter DEF Found, Jobs, Checkpoints
      <3>3. Found(job[c]) \in Nat /\ job[c].ckpt.before \in Nat
        BY <1>6, <2>1, AttemptSendRecordType DEF Found, Jobs, Checkpoints
      <3>4. Found(job[c]) # 0 => RecordedBefore(Found(job[c]))
        BY <1>6, <3>1, <3>2, <3>3 DEF RecordedBy, RecordedBefore
      <3> QED
        BY <2>2, <2>8, <3>4 DEF PageFresh, Reporting
    <2>9. CASE RecheckRead(c) /\ pc'[c] = "reconciling" /\ job'[c].record = job[c].record
      <3>1. pc[c] = "rechecked"
        BY <2>9 DEF RecheckRead
      <3> QED
        BY <2>1, <2>2, <2>9, <3>1 DEF PageFresh, Reporting
    <2> QED
      BY <2>1, <2>3, <2>4, <2>5, <2>6, <2>7, <2>8, <2>9 DEF PageMoves
  <1> QED
    BY <1>2, <1>7, <1>8, <1>9

(* So what is gathered for the attempt at hand stays fresh until recorded.   *)
LEMMA OrderFresh ==
  ASSUME OnePage, LedgerInv, BackedInv, OrderInv, [Next]_vars, history' = history
  PROVE  FreshInv'
  <1> SUFFICES ASSUME Unrecorded'
               PROVE  /\ irreversibleBoundaryReached(ckpt') => RecordedBy(ckpt'.before)
                      /\ \A c \in Callers :
                            /\ Prepared(exec'[c][attempt'.id]) =>
                                  RecordedBy(exec'[c][attempt'.id].ckpt.before)
                            /\ PageFresh(c)'
    BY DEF FreshInv, RecordedBy
  <1>1. TypeInv /\ TypeInv'
    BY TypeStep DEF LedgerInv, SafetyInv
  <1>2. CASE Sending
    BY <1>1, <1>2, FreshAccepted
  <1>3. CASE Quiet \/ Merging \/ Concluding
    BY <1>1, <1>3, FreshKept
  <1>4. ~Adopting
    BY AdoptEffect DEF NoAttempt, Unrecorded
  <1> QED
    BY <1>1, <1>2, <1>3, <1>4, StepKinds

LEMMA OrderStep ==
  ASSUME OnePage, LedgerInv, BackedInv, OrderInv, [Next]_vars
  PROVE  OrderInv'
  <1>1. HistoryInConsoleOrder' /\ FreshInv'
    <2>1. CASE history' = history
      BY <2>1, OrderFresh DEF OrderInv, HistoryInConsoleOrder
    <2>2. CASE history' # history
      BY <2>2, OrderHistory DEF FreshInv
    <2> QED
      BY <2>1, <2>2
  <1>2. ASSUME NEW c \in Callers, pc'[c] = "sending" PROVE job'[c].ckpt = NoCheckpoints
    BY <1>2, PageStepKinds DEF PageMoves, Watched, OrderInv, LedgerInv, SafetyInv
  <1> QED
    BY <1>1, <1>2, OrderExec DEF OrderInv

(* With one page at work no console record, foreign ones included, is taken  *)
(* as evidence for two sends, and evidence is taken in the console's order.  *)
THEOREM HistoryInConsoleOrderHolds ==
  ASSUME OnePage
  PROVE  Spec => []HistoryInConsoleOrder
  <1>1. LedgerInv => TypeInv
    BY DEF LedgerInv, SafetyInv
  <1>2. LedgerInv /\ BackedInv /\ OrderInv /\ [Next]_vars => OrderInv'
    BY OrderStep
  <1>3. OrderInv => HistoryInConsoleOrder
    BY DEF OrderInv
  <1> QED
    BY <1>1, <1>2, <1>3, LedgerInit, LedgerStep, BackedInit, BackedStep, OrderInit, PTL
    DEF Spec
=============================================================================
