------------------------- MODULE PersonnelSendLedger -------------------------
(***************************************************************************)
(* What the personnel-task sender promises to the people who press its     *)
(* button, without pages, helpers, previews or processes: one content at a *)
(* time is accepted for sending; it ends up recorded as sent, refused and  *)
(* resumable, or in doubt; a content in doubt blocks every other one until *)
(* evidence resolves it; the same content is never accepted twice in a     *)
(* row.                                                                    *)
(***************************************************************************)
EXTENDS Sequences, Naturals

CONSTANTS Contents, None, External

VARIABLES
    phase,      \* what became of the content accepted last
    content,    \* that content
    recorded    \* the contents recorded as sent, oldest first

ledgerVars == <<phase, content, recorded>>

LastRecorded == IF recorded = <<>> THEN None ELSE recorded[Len(recorded)]

Init == phase = "idle" /\ content = None /\ recorded = <<>>

(* A content is accepted when nothing is under way or in doubt.              *)
Accept ==
    /\ phase \in {"idle", "resumable", "sent"}
    /\ phase' = "active"
    /\ content' \in Contents \ {LastRecorded}
    /\ UNCHANGED recorded

Fail ==
    /\ phase = "active"
    /\ phase' = "resumable"
    /\ UNCHANGED <<content, recorded>>

(* Nobody knows whether it was sent.  A recheck that found nothing may cast  *)
(* doubt on a content another recheck has just confirmed.                    *)
Doubt ==
    /\ phase \in {"active", "resumable", "sent"}
    /\ phase' = "unknown"
    /\ UNCHANGED <<content, recorded>>

(* Evidence arrived, possibly long after the failure or the doubt.           *)
Confirm ==
    /\ phase \in {"active", "resumable", "unknown"}
    /\ phase' = "sent"
    /\ recorded' = IF LastRecorded = content THEN recorded ELSE Append(recorded, content)
    /\ UNCHANGED content

(* The first send turns out to have been made by hand.                       *)
Adopt ==
    /\ recorded = <<>>
    /\ recorded' = <<External>>
    /\ phase' = "idle"
    /\ content' = None

Next == Accept \/ Fail \/ Doubt \/ Confirm \/ Adopt

Spec == Init /\ [][Next]_ledgerVars
=============================================================================
