--------------------------- MODULE MCInvestigator ---------------------------
(* Small instances of Investigator for TLC.                                *)
EXTENDS Investigator

CONSTANTS w1, w2

(* No indicator; a phone only (its lookup is allowed, and the fraud and     *)
(* report agents add a finding each).                                       *)
MCResults == {[findings |-> 0, allowed |-> 0], [findings |-> 3, allowed |-> 1]}
=============================================================================
