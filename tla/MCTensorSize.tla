---------------------------- MODULE MCTensorSize -----------------------------
EXTENDS TensorSize

\* Around the bound of an int of eight bits, MaxInt = 127: factors of it and
\* of its neighbours, and a dimension that only an int64 holds.
MCDims == {-1, 0, 1, 2, 3, 43, 64, 127, 128}
=============================================================================
