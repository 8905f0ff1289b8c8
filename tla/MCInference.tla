----------------------------- MODULE MCInference -----------------------------
EXTENDS Inference, TLC

\* Sessions whose ports overlap in every way: inputs of one are outputs of
\* another, one has no inputs, one needs more descriptors than another has.
MCArities == {<<1, 1>>, <<0, 2>>, <<1, 2>>}

\* Callers and slices are interchangeable (safety run only).
Symmetry == Permutations(Calls) \cup Permutations(Buffers)
=============================================================================
