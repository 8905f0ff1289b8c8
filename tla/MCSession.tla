----------------------------- MODULE MCSession ------------------------------
EXTENDS Session, TLC

\* Callers and buffers are interchangeable (safety runs only).
Symmetry == Permutations(Callers) \cup Permutations(Buffers) \cup Permutations(Closers)
=============================================================================
