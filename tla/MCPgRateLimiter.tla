--------------------------- MODULE MCPgRateLimiter ---------------------------
(* A small instance of PgRateLimiter for TLC.                               *)
EXTENDS PgRateLimiter

CONSTANTS w1, w2, w3
=============================================================================
