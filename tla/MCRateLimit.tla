---------------------------- MODULE MCRateLimit -----------------------------
(* RateLimit with two handler threads.                                         *)
EXTENDS RateLimit, TLC

CONSTANTS p1, p2, p3, t1, t2

\* Threads and projects are interchangeable.
Symmetric == Permutations({t1, t2}) \cup Permutations(Projects)
=============================================================================
