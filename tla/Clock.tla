-------------------------------- MODULE Clock --------------------------------
(***************************************************************************)
(* The clock of the hosts, which the limiters of                           *)
(* safenestt/security/rate_limit.py read, and the length of a window.      *)
(***************************************************************************)
EXTENDS Naturals

CONSTANTS Window,    \* window_seconds
          MaxTime,   \* bound on the clock
          NoWindow   \* no request was ever counted

ASSUME ClockAssumption == Window \in Nat /\ MaxTime \in Nat
ASSUME NoWindowAssumption == NoWindow \notin Nat

VARIABLE clock

Time == 0 .. MaxTime

Passes ==
  /\ clock < MaxTime
  /\ clock' = clock + 1
=============================================================================
