----------------------------- MODULE LocalHelper -----------------------------
(***************************************************************************)
(* The helper that runs on an operator's computer (fanwei_local_helper.mjs *)
(* and its _cli and _update): an HTTP server that works in the operator's  *)
(* own browser, remembers what it has been asked to do, and replaces its   *)
(* own program when the pages tell it of a newer one.                      *)
(*                                                                         *)
(* A handler runs alone until it awaits; between two awaits any other may  *)
(* run.                                                                    *)
(***************************************************************************)
EXTENDS Integers, Sequences, FiniteSets

CONSTANTS
    Handlers,      \* operation requests the helper has in hand at once
    Requests,      \* request ids that pages ask for, and ask for again
    Updates,       \* update requests
    MaxVersion,    \* bound: versions of the helper
    MaxExecutions, \* bound: executions, of all requests
    MaxCrashes     \* bound: deaths of the process that no update asked for

Versions == 1..MaxVersion
None == 0

ASSUME HelperAssumption ==
    /\ IsFiniteSet(Handlers)
    /\ MaxVersion \in Nat \ {0} /\ MaxExecutions \in Nat \ {0} /\ MaxCrashes \in Nat

VARIABLES
    proc,      \* the process: "up", "closing" (before its exit) or "down"
    version,   \* the version of the program that runs
    updating,  \* updateInProgress
    listening, \* the one-shot listener of helper-update-applied is there
    at, asked, \* per handler: where it is, and the request it was asked for
    awaits,    \* per handler: the execution it waits for, or None
    entry,     \* operationBatchRequests: the execution remembered for a request, or None
    expired,   \* requests whose entry is past its thirty minutes
    runs,      \* the executions of requests, oldest first
    step,      \* per update request: where it is
    target,    \* per update request under way: the version it brings
    backup,    \* per update request under way: the version it moved aside, or None
    installed, \* the version in the installed program directory, or None
    crashes,   \* deaths that no update asked for, so far
    slipped,   \* history: requests in hand, admitted while an update read its body
    forgotten, \* history: requests whose entry expired, or died with a process
    outlived,  \* history: requests whose entry expired while its execution ran
    overlapped, \* history: two updates were past their checks at once
    halfway,   \* history: the process died between two renames of an update
    unheard    \* history: nobody heard that the answer to an update had ended

requests == <<at, asked, awaits, entry, expired>>
marks == <<updating, listening>>
updates == <<step, target, backup>>
history == <<slipped, forgotten, outlived, overlapped, halfway, unheard>>
helperVars == <<proc, version, crashes, requests, marks, runs, updates, installed, history>>

NoRequest == "none"

HelperInit ==
    /\ proc = "up" /\ version = 1 /\ crashes = 0
    /\ at = [h \in Handlers |-> "idle"] /\ asked = [h \in Handlers |-> NoRequest]
    /\ awaits = [h \in Handlers |-> None]
    /\ entry = [r \in Requests |-> None] /\ expired = {}
    /\ updating = FALSE /\ listening = TRUE
    /\ runs = <<>>
    /\ step = [u \in Updates |-> "idle"]
    /\ target = [u \in Updates |-> None] /\ backup = [u \in Updates |-> None]
    /\ installed = 1
    /\ slipped = {} /\ forgotten = {} /\ outlived = {}
    /\ overlapped = FALSE /\ halfway = FALSE /\ unheard = FALSE

Running == proc \in {"up", "closing"}
Goes(h, place) == at' = [at EXCEPT ![h] = place]
Steps(u, place) == step' = [step EXCEPT ![u] = place]
IsOver(u) ==
    /\ Steps(u, "over")
    /\ target' = [target EXCEPT ![u] = None] /\ backup' = [backup EXCEPT ![u] = None]

(* Updates that have passed the checks of their handler and are not over.    *)
PastChecks == {"body", "working", "staged", "moved", "placed", "rolling", "applied"}
Passed == {u \in Updates : step[u] \in PastChecks}

-----------------------------------------------------------------------------
(* An operation request.                                                     *)

activeOperationRequests == Cardinality({h \in Handlers : at[h] # "idle"})

RequestStep == UNCHANGED <<proc, version, crashes, marks, updates, installed>>

Admitted == ~updating

(* Until an update is known, the request is counted, and its body awaited.   *)
Arrive(h, r) ==
    /\ Running /\ at[h] = "idle" /\ Admitted
    /\ Goes(h, "body") /\ asked' = [asked EXCEPT ![h] = r]
    /\ slipped' = IF \E u \in Updates : step[u] = "body" THEN slipped \cup {h} ELSE slipped
    /\ RequestStep
    /\ UNCHANGED <<awaits, entry, expired, runs, forgotten, outlived, overlapped, halfway,
                   unheard>>

Leaves(h) ==
    /\ Goes(h, "idle") /\ slipped' = slipped \ {h}
    /\ asked' = [asked EXCEPT ![h] = NoRequest] /\ awaits' = [awaits EXCEPT ![h] = None]

(* A body that never comes, or makes no sense.                               *)
Reject(h) ==
    /\ Running /\ at[h] = "body"
    /\ Leaves(h)
    /\ RequestStep /\ UNCHANGED <<entry, expired, runs, forgotten, outlived, overlapped,
                                  halfway, unheard>>

(* Mutant: only what has ended is remembered.                                *)
RememberedWhenDone(r) == entry[r] # None /\ r \notin expired /\ runs[entry[r]].at # "running"

Remembered(r) == entry[r] # None /\ r \notin expired

(* Expired entries are purged, of this request and of every other; what is   *)
(* still remembered is waited for, whether it runs, succeeded or failed.     *)
Purged == [r \in Requests |-> IF r \in expired THEN None ELSE entry[r]]

Join(h) ==
    LET r == asked[h] IN
    /\ Running /\ at[h] = "body" /\ Remembered(r)
    /\ entry' = Purged /\ expired' = {}
    /\ Goes(h, "waiting") /\ awaits' = [awaits EXCEPT ![h] = entry[r]]
    /\ RequestStep /\ UNCHANGED <<asked, runs, history>>

Execute(h) ==
    LET r == asked[h] IN
    /\ Running /\ at[h] = "body" /\ ~Remembered(r)
    /\ Len(runs) < MaxExecutions
    /\ runs' = Append(runs, [of |-> r, at |-> "running"])
    /\ entry' = [Purged EXCEPT ![r] = Len(runs) + 1] /\ expired' = {}
    /\ Goes(h, "waiting") /\ awaits' = [awaits EXCEPT ![h] = Len(runs) + 1]
    /\ RequestStep /\ UNCHANGED <<asked, history>>

(* Thirty minutes after it was made, ended or not, an entry may be purged.   *)
Expire(r) ==
    /\ Running /\ Remembered(r)
    /\ expired' = expired \cup {r} /\ forgotten' = forgotten \cup {r}
    /\ outlived' = IF runs[entry[r]].at = "running" THEN outlived \cup {r} ELSE outlived
    /\ RequestStep
    /\ UNCHANGED <<at, asked, awaits, entry, runs, slipped, overlapped, halfway, unheard>>

(* The handler of an execution, or one that joined it, answers at its end.   *)
Answer(h) ==
    /\ Running /\ at[h] = "waiting" /\ runs[awaits[h]].at = "ended"
    /\ Leaves(h)
    /\ RequestStep /\ UNCHANGED <<entry, expired, runs, forgotten, outlived, overlapped,
                                  halfway, unheard>>

(* An execution ends, by success or by failure, and is remembered either way.*)
End(n) ==
    /\ Running /\ n \in DOMAIN runs /\ runs[n].at = "running"
    /\ runs' = [runs EXCEPT ![n].at = "ended"]
    /\ RequestStep /\ UNCHANGED <<requests, history>>

-----------------------------------------------------------------------------
(* An update request.                                                        *)

UpdateStep == UNCHANGED <<proc, version, crashes, requests, runs>>

(* Mutant: running operations are not looked at.                             *)
NotBusyUnlessUpdating == ~updating

NotBusy == ~updating /\ activeOperationRequests = 0

(* The checks come before the body is awaited, the mark after it.            *)
AskUpdate(u) ==
    /\ Running /\ step[u] = "idle" /\ NotBusy
    /\ Steps(u, "body")
    /\ overlapped' = (overlapped \/ Passed # {})
    /\ UpdateStep
    /\ UNCHANGED <<marks, target, backup, installed, slipped, forgotten, outlived, halfway, unheard>>

(* Mutant: any version will do.                                              *)
AnyVersion(v) == TRUE

Newer(v) == v > version

(* A request that is not an update to a newer version is over at once.       *)
BeginUpdate(u) ==
    /\ Running /\ step[u] = "body"
    /\ \/ /\ updating' = TRUE /\ Steps(u, "working")
          /\ \E v \in Versions : Newer(v) /\ target' = [target EXCEPT ![u] = v]
          /\ UNCHANGED backup
       \/ updating' \in {updating, FALSE} /\ IsOver(u)
    /\ UpdateStep /\ UNCHANGED <<listening, installed, history>>

(* Download, digest, extraction, manifest, start of the new program, copy.   *)
Stage(u) ==
    /\ Running /\ step[u] = "working" /\ installed # None
    /\ Steps(u, "staged")
    /\ UpdateStep /\ UNCHANGED <<marks, target, backup, installed, history>>

MoveOldAside(u) ==
    /\ Running /\ step[u] = "staged" /\ installed # None
    /\ backup' = [backup EXCEPT ![u] = installed] /\ installed' = None
    /\ Steps(u, "moved")
    /\ UpdateStep /\ UNCHANGED <<marks, target, history>>

PlaceNew(u) ==
    /\ Running /\ step[u] = "moved" /\ installed = None
    /\ installed' = target[u]
    /\ Steps(u, "placed")
    /\ UpdateStep /\ UNCHANGED <<marks, target, backup, history>>

RecordUpdate(u) ==
    /\ Running /\ step[u] = "placed"
    /\ Steps(u, "applied")
    /\ UpdateStep /\ UNCHANGED <<marks, target, backup, installed, history>>

(* Mutant: a failed update leaves the helper closed to operations.           *)
StillUpdating == updating

AfterFailedUpdate == FALSE

(* An update that fails before it moved the old program aside has nothing to *)
(* undo.                                                                     *)
FailUpdate(u) ==
    /\ Running /\ step[u] \in {"working", "staged"}
    /\ IsOver(u) /\ updating' = AfterFailedUpdate
    /\ UpdateStep /\ UNCHANGED <<listening, installed, history>>

(* Otherwise what is installed is removed, and what was moved aside restored.*)
RemoveNew(u) ==
    /\ Running /\ step[u] \in {"moved", "placed"}
    /\ installed' = None
    /\ Steps(u, "rolling")
    /\ UpdateStep /\ UNCHANGED <<marks, target, backup, history>>

Restored(u) == IF installed = None THEN backup[u] ELSE installed

RestoreOld(u) ==
    /\ Running /\ step[u] = "rolling"
    /\ installed' = Restored(u)
    /\ IsOver(u) /\ updating' = AfterFailedUpdate
    /\ UpdateStep /\ UNCHANGED <<listening, history>>

(* The end of the answer is told to one listener, once: it calls for the     *)
(* restart, or lets operations in again when none can be arranged.  Nobody   *)
(* hears of it when the page has left, or the listener has been used.        *)
AnswerUpdate(u) ==
    /\ Running /\ step[u] = "applied"
    /\ IsOver(u)
    /\ \/ /\ listening /\ listening' = FALSE
          /\ \/ proc' = "closing" /\ UNCHANGED updating
             \/ updating' = FALSE /\ UNCHANGED proc
          /\ UNCHANGED unheard
       \/ unheard' = TRUE /\ UNCHANGED <<proc, updating, listening>>
    /\ UNCHANGED <<version, crashes, requests, runs, installed, slipped, forgotten,
                   outlived, overlapped, halfway>>

-----------------------------------------------------------------------------
(* The process.                                                              *)

CutOff(e) == IF e.at = "running" THEN [e EXCEPT !.at = "cut"] ELSE e

Die ==
    /\ proc' = "down"
    /\ at' = [h \in Handlers |-> "idle"] /\ awaits' = [h \in Handlers |-> None]
    /\ asked' = [h \in Handlers |-> NoRequest]
    /\ entry' = [r \in Requests |-> None] /\ expired' = {}
    /\ updating' = FALSE /\ listening' = TRUE
    /\ runs' = [n \in DOMAIN runs |-> CutOff(runs[n])]
    /\ step' = [u \in Updates |-> IF u \in Passed THEN "over" ELSE step[u]]
    /\ target' = [u \in Updates |-> None] /\ backup' = [u \in Updates |-> None]
    /\ slipped' = {}
    /\ forgotten' = forgotten \cup {r \in Requests : entry[r] # None}
    /\ halfway' = (halfway \/ \E u \in Updates : step[u] \in {"moved", "rolling"})
    /\ unheard' = FALSE
    /\ UNCHANGED <<version, installed, outlived, overlapped>>

(* The restart that an update has called for waits seconds, not for ever.    *)
Exit == proc = "closing" /\ Die /\ UNCHANGED crashes

Crash == Running /\ crashes < MaxCrashes /\ crashes' = crashes + 1 /\ Die

(* launchd, or what the update left behind, starts what is installed.        *)
Start ==
    /\ proc = "down" /\ installed # None
    /\ proc' = "up" /\ version' = installed
    /\ UNCHANGED <<crashes, requests, marks, runs, updates, installed, history>>

Operating ==
    \/ \E h \in Handlers :
        \/ \E r \in Requests : Arrive(h, r)
        \/ Reject(h) \/ Join(h) \/ Execute(h) \/ Answer(h)
    \/ \E r \in Requests : Expire(r)
    \/ \E n \in DOMAIN runs : End(n)

Proceed(u) ==
    \/ BeginUpdate(u) \/ Stage(u) \/ MoveOldAside(u) \/ PlaceNew(u) \/ RecordUpdate(u)
    \/ FailUpdate(u) \/ RemoveNew(u) \/ RestoreOld(u) \/ AnswerUpdate(u)

HelperNext ==
    \/ Operating
    \/ \E u \in Updates : AskUpdate(u) \/ Proceed(u)
    \/ Exit \/ Crash \/ Start

(* Every await of an update has a time limit, and so has the way to its exit.*)
Fairness == (\A u \in Updates : WF_helperVars(Proceed(u))) /\ WF_helperVars(Exit)

HelperSpec == HelperInit /\ [][HelperNext]_helperVars /\ Fairness

-----------------------------------------------------------------------------
(* Values and their types.                                                   *)
Execution == [of : Requests, at : {"running", "ended", "cut"}]
HandlersOK ==
    \A h \in Handlers : /\ at[h] # "idle" => asked[h] \in Requests
                        /\ at[h] = "waiting" => awaits[h] \in DOMAIN runs
HelperTypeOK ==
    /\ proc \in {"up", "closing", "down"} /\ version \in Versions /\ crashes \in 0..MaxCrashes
    /\ at \in [Handlers -> {"idle", "body", "waiting"}] /\ asked \in [Handlers -> Requests \cup {NoRequest}]
    /\ awaits \in [Handlers -> 0..MaxExecutions]
    /\ entry \in [Requests -> 0..MaxExecutions] /\ expired \subseteq Requests
    /\ updating \in BOOLEAN /\ listening \in BOOLEAN
    /\ runs \in Seq(Execution) /\ Len(runs) <= MaxExecutions
    /\ step \in [Updates -> PastChecks \cup {"idle", "over"}]
    /\ target \in [Updates -> 0..MaxVersion] /\ backup \in [Updates -> 0..MaxVersion]
    /\ installed \in 0..MaxVersion 
    /\ slipped \subseteq Handlers /\ forgotten \subseteq Requests /\ outlived \subseteq Requests
    /\ overlapped \in BOOLEAN /\ halfway \in BOOLEAN /\ unheard \in BOOLEAN
    /\ proc = "closing" => ~listening
    /\ HandlersOK
    /\ \A r \in Requests : entry[r] # None => entry[r] \in DOMAIN runs

(* The restart an update calls for cuts an operation off only if the         *)
(* operation came while the update was between its checks and its mark, or   *)
(* if two updates ran at once (/update and the admission of operations).     *)
NotCutOff ==
    proc = "closing" /\ ~overlapped => \A h \in Handlers : at[h] # "idle" => h \in slipped

(* A request that is repeated is executed once more only if its entry had    *)
(* expired or the helper had died; two executions of it run at once only if  *)
(* the entry expired while the first ran (runManagedOperationRequest).       *)
OncePerRequest ==
    \A m, n \in DOMAIN runs : m < n /\ runs[m].of = runs[n].of =>
        /\ runs[n].of \in forgotten
        /\ runs[m].at = "running" => runs[n].of \in outlived

(* No program is installed only while an update is between its renames, or   *)
(* after a death there (applyStagedFanweiHelperUpdate).                      *)
NeverLeftWithout ==
    installed = None => halfway \/ \E u \in Updates : step[u] \in {"moved", "rolling"}

(* Whatever updates overlap, fail or are cut short, the helper never comes   *)
(* back as an older version than the one that ran.                           *)
NoDowngrade == [][version' >= version]_helperVars

(* A helper that is closed to operations for an update opens again, if only  *)
(* by its end, unless nobody heard of the answer (resumeAfterRestartFailure, *)
(* the catch of /update, and the exit of the process).                       *)
UpdateEnds == updating ~> (~updating \/ unheard)
=============================================================================
