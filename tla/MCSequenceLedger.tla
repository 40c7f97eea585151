-------------------------- MODULE MCSequenceLedger --------------------------
(* Instances of the sequence ledger for model checking.                    *)
EXTENDS SequenceLedger, TLC
=============================================================================
