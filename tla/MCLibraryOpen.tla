---------------------------- MODULE MCLibraryOpen ----------------------------
EXTENDS LibraryOpen, TLC

\* Runtimes are interchangeable.
Symmetry == Permutations(Runtimes)
=============================================================================
