---------------------------- MODULE MCAdmission ----------------------------
(* Instances of admission for model checking.                              *)
EXTENDS Admission, TLC

CONSTANTS f1, f2, f3, m1

TwoClasses == <<"foreground", "maintenance">>

(* Three foreground clients against one of maintenance, whose reserved     *)
(* slot they may not use.                                                  *)
Mixed == (m1 :> "maintenance") @@ [c \in Clients \ {m1} |-> "foreground"]

TwoToOne == ("foreground" :> 2) @@ ("maintenance" :> 1)
OneEach  == [k \in {"foreground", "maintenance"} |-> 1]
=============================================================================
