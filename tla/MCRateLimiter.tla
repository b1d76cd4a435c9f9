--------------------------- MODULE MCRateLimiter ---------------------------
(* RateLimiter for TLC: threads and senders are interchangeable. *)
EXTENDS RateLimiter, TLC

Symmetry == Permutations(Threads) \cup Permutations(Senders)
=============================================================================
