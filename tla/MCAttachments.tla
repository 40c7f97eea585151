---------------------------- MODULE MCAttachments ----------------------------
(* Instances of Attachments for model checking.                               *)
EXTENDS Attachments, TLC

CONSTANTS p, q, t, a

\* One upload and one read at a time, or two.
OneOrTwo == {[read |-> n, write |-> n] : n \in 1..2}

\* Callers are alike: sound without liveness.
Interchangeable == Permutations(Callers)
==============================================================================
