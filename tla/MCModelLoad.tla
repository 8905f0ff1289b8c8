----------------------------- MODULE MCModelLoad -----------------------------
EXTENDS ModelLoad, TLC

\* Beyond what a C int of four bits, IntSize = 8, can hold on either side.
MCThreads == {-1, 0, 1, 7, 8, 16}

\* Sessions are interchangeable.
Symmetry == Permutations(Sessions)
=============================================================================
