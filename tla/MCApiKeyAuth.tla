---------------------------- MODULE MCApiKeyAuth ----------------------------
(* ApiKeyAuth on two projects: two workers, or one worker with two threads.    *)
EXTENDS ApiKeyAuth, TLC

CONSTANTS k1, k2, f1, p1, p2, w1, w2, t1, t2

\* One thread in each of two workers, or both threads in one.
TwoWorkers == [t \in {t1, t2} |-> IF t = t1 THEN w1 ELSE w2]
OneWorker  == [t \in {t1, t2} |-> w1]

\* Projects and keys are interchangeable, and so are the threads of one worker.
WorkersSymmetry == Permutations({p1, p2})
ThreadsSymmetry == Permutations({p1, p2}) \cup Permutations({k1, k2}) \cup Permutations({t1, t2})

\* A key without expiry, or one that expires after one or two ticks.
ShortLives == {1, 2, Never}
=============================================================================
