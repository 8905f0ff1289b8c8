----------------------------- MODULE MCRuntime ------------------------------
EXTENDS Runtime, TLC

\* Threads and sessions are interchangeable (safety runs only).
Symmetry == Permutations(Threads) \cup Permutations(Sessions)
=============================================================================
