--------------------------- MODULE StatusLifecycle ---------------------------
(***************************************************************************)
(* What the status table promises about the stored status of one           *)
(* investigation: it starts QUEUED and every change is one mark() allows.  *)
(* In particular COMPLETED is final.  Investigator implements this module  *)
(* when one worker at a time runs an investigation.                        *)
(***************************************************************************)
EXTENDS InvestigationStatus

VARIABLE status

Init == status = "QUEUED"

mark(s) == MarkAllowed(status, s) /\ status' = s

Next == \E s \in VALID_STATUSES : mark(s)

Spec == Init /\ [][Next]_status
=============================================================================
