--------------------------- MODULE MCTaskOrchestrator ---------------------------
(* Instances of TaskOrchestrator: a roster with two sourced agents behind a *)
(* placeholder, one of which can do what is asked for, and an agent that    *)
(* only callers register.                                                   *)
EXTENDS TaskOrchestrator

CONSTANTS place, source, able, other, osint, t1

MCRoster == <<place, source, able>>

MCCan == [a \in Agent |-> IF a = able THEN {osint} ELSE {}]
=============================================================================
