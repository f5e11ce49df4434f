----------------------------- MODULE RateWindow -----------------------------
(***************************************************************************)
(* What a rate limiter promises for one (scope, key): requests are counted *)
(* in windows, a window admits at most Limit requests, and a new window    *)
(* opens only at a time more than Window after the one before it opened.   *)
(* A check is atomic here; PgRateLimiter implements it in several SQL      *)
(* statements that checks of other workers interleave with.                *)
(***************************************************************************)
EXTENDS Naturals

CONSTANTS Limit,      \* requests a window admits
          Window,     \* window_seconds
          Time,       \* the times a clock shows
          NoWindow    \* no request was ever counted

VARIABLES start, used

Init == start = NoWindow /\ used = 0

Expired(t) == start = NoWindow \/ start + Window < t

(* The first request of a new window, refused only when Limit is 0.         *)
CheckNew(t) ==
  /\ Expired(t)
  /\ start' = t
  /\ used' = IF Limit > 0 THEN 1 ELSE 0

CheckCurrent ==
  /\ start # NoWindow
  /\ used < Limit
  /\ used' = used + 1
  /\ UNCHANGED start

Next == CheckCurrent \/ \E t \in Time : CheckNew(t)

Spec == Init /\ [][Next]_<<start, used>>
=============================================================================
