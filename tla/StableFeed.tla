----------------------------- MODULE StableFeed -----------------------------
(***************************************************************************)
(* What the change feed of one database promises its consumers, with       *)
(* nothing said about how sequences are handed out.  There is a horizon,   *)
(* the highest sequence a reader may be served, and the set of change rows *)
(* at or below it.  The horizon only rises, and a step that raises it may  *)
(* add rows only between the old horizon and the new one: what a reader    *)
(* has been served below a horizon is what every later reader is served    *)
(* below it, across crashes and restarts.  The one exception has a name: a *)
(* write above the horizon may become late, and a late one may still       *)
(* arrive when the horizon has passed it.                                  *)
(***************************************************************************)
EXTENDS Integers

VARIABLES horizon,  \* the watermark W readers are limited to
          feed,     \* the sequences of the change rows at or below it
          late      \* the sequences of writes that may still arrive late

feedVars == <<horizon, feed, late>>

Init == horizon = 0 /\ feed = {} /\ late = {}

Advance ==
  /\ horizon' \in Nat
  /\ horizon' > horizon
  /\ feed \subseteq feed'
  /\ feed' \ feed \subseteq (horizon + 1)..horizon'
  /\ UNCHANGED late

(* Only what no reader may have been served yet becomes late.              *)
Fall ==
  /\ late \subseteq late'
  /\ \A s \in late' \ late : s > horizon
  /\ UNCHANGED <<horizon, feed>>

Arrive ==
  /\ late' \subseteq late
  /\ feed' = feed \cup {s \in late \ late' : s <= horizon}
  /\ UNCHANGED horizon

Next == Advance \/ Fall \/ Arrive

Spec == Init /\ [][Next]_feedVars
=============================================================================
