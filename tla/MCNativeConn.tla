----------------------------- MODULE MCNativeConn -----------------------------
EXTENDS NativeConn, TLC

CONSTANTS c1, c2, c3

Symmetry == Permutations(Callers)
===============================================================================
