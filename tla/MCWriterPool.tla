---------------------------- MODULE MCWriterPool ----------------------------
(* Instances of the writer pool for model checking.                        *)
EXTENDS WriterPool, TLC

CONSTANTS s1, s2, s3, r1, r2, r3

(* One write of two documents between two writes of one of them each.      *)
CrossedDocuments == (r1 :> {1}) @@ (r2 :> {1, 2}) @@ (r3 :> {2})

(* Two writes that share a document.                                       *)
SharedDocuments == (r1 :> {1}) @@ (r2 :> {1, 2})

(* Slots and serial callers are interchangeable: sound without liveness.   *)
Interchangeable == Permutations(Slots) \cup Permutations(Serials)
=============================================================================
