--------------------------- MODULE MCCacheLimiter ---------------------------
(* A small instance of CacheLimiter for TLC. *)
EXTENDS CacheLimiter

CONSTANTS c1, c2, c3

MCClients == {c1, c2, c3}
MCCounts == {3, 5}
=============================================================================
