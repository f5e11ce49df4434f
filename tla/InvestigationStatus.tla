------------------------- MODULE InvestigationStatus -------------------------
(***************************************************************************)
(* The status table of an investigation: InvestigationRecord of            *)
(* safenestt/investigations/records.py.  Constant-level definitions only,  *)
(* shared by StatusLifecycle (what the table promises) and by Investigator *)
(* (the code that moves an investigation through it).                      *)
(***************************************************************************)

VALID_STATUSES == {"QUEUED", "RUNNING", "ANALYZING", "WAITING_FOR_TOOL",
                   "VERIFYING", "CALCULATING_RISK", "COMPLETED", "FAILED",
                   "CANCELLED"}

TRANSITIONS == [s \in VALID_STATUSES |->
  CASE s = "QUEUED"           -> {"RUNNING", "CANCELLED", "FAILED"}
    [] s = "RUNNING"          -> {"ANALYZING", "WAITING_FOR_TOOL", "VERIFYING",
                                  "FAILED", "CANCELLED"}
    [] s = "ANALYZING"        -> {"WAITING_FOR_TOOL", "FAILED", "CANCELLED"}
    [] s = "WAITING_FOR_TOOL" -> {"RUNNING", "VERIFYING", "FAILED", "CANCELLED"}
    [] s = "VERIFYING"        -> {"CALCULATING_RISK", "FAILED", "CANCELLED"}
    [] s = "CALCULATING_RISK" -> {"COMPLETED", "FAILED", "CANCELLED"}
    [] s = "COMPLETED"        -> {}
    [] s = "FAILED"           -> {"QUEUED"}
    [] s = "CANCELLED"        -> {"QUEUED"}]

(* A mutant: VERIFYING may go back to RUNNING, so that a rerun can resume.  *)
MarkAllowedResuming(from, to) ==
  /\ to \in VALID_STATUSES
  /\ to \in TRANSITIONS[from] \/ to = from \/ from = "VERIFYING"

(* mark(to) on a record whose status is from succeeds; otherwise it raises  *)
(* InvalidStatusError.  Marking the status a record already has succeeds.   *)
MarkAllowed(from, to) ==
  /\ to \in VALID_STATUSES
  /\ to \in TRANSITIONS[from] \/ to = from
=============================================================================
