-------------------------- MODULE SharedOrExclusive --------------------------
(* What the attachment coordinator promises: any number of shared holders, or *)
(* one exclusive holder and nobody else.  Who is refused, who waits and in    *)
(* which order is left open.                                                  *)
CONSTANTS Procs, Nobody

VARIABLES sharing,    \* processes with a shared hold, and what each uses it for
          exclusive   \* the process that is alone, or Nobody

holds == <<sharing, exclusive>>

Init == sharing = {} /\ exclusive = Nobody

Share(g) ==
  /\ exclusive = Nobody
  /\ sharing' = sharing \cup {g}
  /\ UNCHANGED exclusive

Leave(g) ==
  /\ g \in sharing
  /\ sharing' = sharing \ {g}
  /\ exclusive' \in IF sharing' = {} THEN Procs \cup {Nobody} ELSE {exclusive}

Alone(p) ==
  /\ sharing = {} /\ exclusive = Nobody
  /\ exclusive' = p
  /\ UNCHANGED sharing

\* The next one may be alone at once.
EndAlone ==
  /\ exclusive # Nobody
  /\ exclusive' \in Procs \cup {Nobody}
  /\ UNCHANGED sharing

\* A restart forgets every hold.
Forget == sharing' = {} /\ exclusive' = Nobody

Next ==
  \/ \E p \in Procs, k \in {"read", "write", "reference"} : Share(<<p, k>>) \/ Leave(<<p, k>>)
  \/ \E p \in Procs : Alone(p)
  \/ EndAlone \/ Forget

Spec == Init /\ [][Next]_holds
==============================================================================
