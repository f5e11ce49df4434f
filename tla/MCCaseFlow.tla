------------------------------- MODULE MCCaseFlow -------------------------------
(* A key as it should be, a strong one that Fernet rejects, and a weak one  *)
(* that it takes.                                                           *)
EXTENDS CaseFlow

CONSTANTS good, long, weak
=============================================================================
