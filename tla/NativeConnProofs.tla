--------------------------- MODULE NativeConnProofs ---------------------------
(* Theorems about one connection of the native driver, for every number of     *)
(* callers, every limit, and any number of calls, cancels and foreign locks.   *)
EXTENDS NativeConn, TLAPS

-------------------------------------------------------------------------------
(* The schedule: its totals are the sums of its delays.                        *)

(* Lengths of the two tables (lib.rs:31).                                      *)
LEMMA TableLengths == Len(BusyDelays) = 11 /\ Len(BusyTotals) = 12
BY DEF BusyDelays, BusyTotals

(* A delay is a positive number of milliseconds (lib.rs:31-32, 89-92).         *)
LEMMA DelayPositive == ASSUME NEW n \in Nat PROVE Delay(n) \in Nat /\ Delay(n) > 0
<1>1. CASE n < 11
  <2>1. n \in 0..10
    BY <1>1
  <2>2. BusyDelays[n + 1] \in Nat /\ BusyDelays[n + 1] > 0
    BY <2>1 DEF BusyDelays
  <2> QED
    BY <1>1, <2>2, TableLengths DEF Delay
<1>2. CASE ~(n < 11)
  BY <1>2, TableLengths DEF Delay, BusyMaxDelay
<1> QED
  BY <1>1, <1>2

(* What the first n + 1 invocations slept is what the first n slept and the    *)
(* next delay: the sum of lib.rs:82-83, for every count.                       *)
LEMMA WaitedNext ==
  ASSUME NEW n \in Nat
  PROVE  /\ Waited(0) = 0
         /\ Waited(n) \in Nat
         /\ Waited(n + 1) = Waited(n) + Delay(n)
<1>1. Waited(0) = 0
  BY TableLengths DEF Waited, BusyTotals
<1>2. CASE n \in 0..10
  <2>1. /\ BusyTotals[n + 1] \in Nat
        /\ BusyTotals[n + 2] = BusyTotals[n + 1] + BusyDelays[n + 1]
    BY <1>2 DEF BusyTotals, BusyDelays
  <2>2. n < 12 /\ n + 1 < 12 /\ n < 11 /\ (n + 1) + 1 = n + 2
    BY <1>2
  <2> QED
    BY <1>1, <2>1, <2>2, TableLengths DEF Waited, Delay
<1>3. CASE n = 11
  <2>1. BusyTotals[12] = 228
    BY DEF BusyTotals
  <2> QED
    BY <1>1, <1>3, <2>1, TableLengths DEF Waited, Delay, BusyMaxDelay
<1>4. CASE n > 11
  <2>1. BusyTotals[12] = 228
    BY DEF BusyTotals
  <2>2. Waited(n) = 228 + (n - 11) * 50
    BY <1>4, <2>1, TableLengths DEF Waited, BusyMaxDelay
  <2>3. Waited(n + 1) = 228 + (n + 1 - 11) * 50
    BY <1>4, <2>1, TableLengths DEF Waited, BusyMaxDelay
  <2>4. Delay(n) = 50
    BY <1>4, TableLengths DEF Delay, BusyMaxDelay
  <2> QED
    BY <1>1, <1>4, <2>2, <2>3, <2>4
<1> QED
  BY <1>1, <1>2, <1>3, <1>4

(* A nap is as long as its delay, or ends at the limit (lib.rs:89-93).         *)
LEMMA NapBounds ==
  ASSUME NEW n \in Nat, NEW t \in Nat, Waited(n) < t
  PROVE  /\ Nap(n, t) \in Nat
         /\ Nap(n, t) <= Delay(n)
         /\ Nap(n, t) <= t - Waited(n)
         /\ Nap(n, t) = Delay(n) \/ Nap(n, t) = t - Waited(n)
BY DelayPositive, WaitedNext DEF Nap

-------------------------------------------------------------------------------
(* Types.                                                                      *)

LEMMA FreshTyped ==
  ASSUME NEW n \in 0..2, NEW h \in BOOLEAN PROVE Fresh(n, h) \in Statement
BY DEF Fresh, Statement

LEMMA NothingTyped == Fresh(0, FALSE) \in Statement
BY DEF Fresh, Statement

LEMMA PlacesFacts ==
  /\ InStatement \subseteq InMutex /\ InMutex \subseteq Places
  /\ {"idle", "lock", "interrupting", "closing"} \subseteq Places
  /\ "entered" \notin InStatement /\ "entered" \in InMutex
  /\ {"running", "busy", "asleep"} \subseteq InStatement
  /\ \A p \in {"idle", "lock", "interrupting", "closing"} : p \notin InMutex
BY DEF InStatement, InMutex, Places

LEMMA ReturnTyped ==
  ASSUME TypeOK, NEW c \in Callers, Return(c)
  PROVE  /\ pc' \in [Callers -> Places]
         /\ owner' \in Callers \cup {NoCaller}
         /\ stmt' \in Statement
<1>1. pc' \in [Callers -> Places]
  BY PlacesFacts DEF TypeOK, Return, Goes
<1>2. owner' \in Callers \cup {NoCaller}
  BY DEF TypeOK, Return
<1>3. stmt' \in Statement
  BY NothingTyped DEF TypeOK, Return
<1> QED
  BY <1>1, <1>2, <1>3

LEMMA GoesTyped ==
  ASSUME TypeOK, NEW c \in Callers, NEW place \in Places, Goes(c, place)
  PROVE  pc' \in [Callers -> Places]
BY DEF TypeOK, Goes

LEMMA IssueTyped ==
  ASSUME TypeOK, NEW c \in Callers, Issue(c)
  PROVE  /\ calls' \in [Callers -> 0..MaxCalls]
         /\ UNCHANGED <<open, stmt, timeout, interrupted, foreign, cancels, foreigns>>
BY NativeConnAssumption DEF TypeOK, Issue

LEMMA MarkHitTyped ==
  ASSUME TypeOK, MarkHit PROVE stmt' \in Statement
BY DEF TypeOK, MarkHit, Statement

LEMMA TypeStep == ASSUME TypeOK, [Next]_vars PROVE TypeOK'
<1> USE NativeConnAssumption, PlacesFacts
<1>1. ASSUME NEW c \in Callers, Call(c) PROVE TypeOK'
  BY <1>1, IssueTyped, GoesTyped DEF TypeOK, Call
<1>2. ASSUME NEW c \in Callers, CallInline(c) PROVE TypeOK'
  <2>1. /\ owner' \in Callers \cup {NoCaller}
        /\ pc' \in [Callers -> Places]
    BY <1>2, GoesTyped DEF TypeOK, CallInline
  <2> QED
    BY <1>2, <2>1, IssueTyped DEF TypeOK, CallInline
<1>3. ASSUME NEW c \in Callers, Acquire(c) PROVE TypeOK'
  BY <1>3, GoesTyped DEF TypeOK, Acquire, shared, bounds
<1>4. ASSUME NEW c \in Callers, WithDb(c) PROVE TypeOK'
  <2>1. CASE open
    <3>1. stmt' \in Statement
      <4>1. PICK n \in {1, 2} : stmt' = Fresh(n, FALSE)
        BY <1>4, <2>1 DEF WithDb
      <4> QED
        BY <4>1 DEF Fresh, Statement
    <3> QED
      BY <1>4, <2>1, <3>1, GoesTyped DEF TypeOK, WithDb, bounds
  <2>2. CASE ~open
    BY <1>4, <2>2, ReturnTyped DEF TypeOK, WithDb, bounds
  <2> QED
    BY <2>1, <2>2
<1>5. ASSUME NEW c \in Callers, Step(c) PROVE TypeOK'
  <2>1. CASE stmt.left > 1
    <3>1. stmt.left - 1 \in 0..2 /\ stmt.hit \in BOOLEAN
      BY <2>1 DEF TypeOK, Statement
    <3>2. stmt' \in Statement
      BY <1>5, <2>1, <3>1, FreshTyped DEF Step
    <3> QED
      BY <1>5, <2>1, <3>2 DEF TypeOK, Step, shared, bounds
  <2>2. CASE ~(stmt.left > 1)
    BY <1>5, <2>2, ReturnTyped DEF TypeOK, Step, shared, bounds
  <2> QED
    BY <2>1, <2>2
<1>6. ASSUME NEW c \in Callers, Fails(c) PROVE TypeOK'
  BY <1>6, ReturnTyped DEF TypeOK, Fails, shared, bounds
<1>7. ASSUME NEW c \in Callers, MeetLock(c) PROVE TypeOK'
  BY <1>7, GoesTyped DEF TypeOK, MeetLock, shared, bounds
<1>8. ASSUME NEW c \in Callers, BusyHandler(c) PROVE TypeOK'
  <2>1. CASE GivesUp
    BY <1>8, <2>1, ReturnTyped DEF TypeOK, BusyHandler, shared, bounds
  <2>2. CASE ~GivesUp
    <3>1. stmt.count \in Nat /\ timeout \in Nat /\ stmt.slept \in Nat
      BY DEF TypeOK, Statement
    <3>2. Nap(stmt.count, timeout) \in Nat
      <4>1. Waited(stmt.count) \in Nat
        BY <3>1, WaitedNext
      <4>2. Waited(stmt.count) < timeout
        BY <2>2, <3>1, <4>1 DEF GivesUp
      <4> QED
        BY <3>1, <4>2, NapBounds
    <3>3. stmt' \in Statement
      <4>1. stmt.slept + Nap(stmt.count, timeout) \in Nat
        BY <3>1, <3>2
      <4>2. stmt.seen \cup {timeout} \in SUBSET Nat
        BY <3>1 DEF TypeOK, Statement
      <4> QED
        BY <1>8, <2>2, <3>1, <4>1, <4>2 DEF BusyHandler, TypeOK, Statement
    <3> QED
      BY <1>8, <2>2, <3>3, GoesTyped DEF TypeOK, BusyHandler, shared, bounds
  <2> QED
    BY <2>1, <2>2
<1>9. ASSUME NEW c \in Callers, Wake(c) PROVE TypeOK'
  <2>1. CASE cancelled
    BY <1>9, <2>1, ReturnTyped DEF TypeOK, Wake, shared, bounds
  <2>2. CASE ~cancelled
    <3>1. stmt' \in Statement
      BY <1>9, <2>2 DEF TypeOK, Wake, Statement
    <3> QED
      BY <1>9, <2>2, <3>1, GoesTyped DEF TypeOK, Wake, shared, bounds
  <2> QED
    BY <2>1, <2>2
<1>10. ASSUME NEW c \in Callers, Cancel(c) PROVE TypeOK'
  BY <1>10, MarkHitTyped, GoesTyped DEF TypeOK, Cancel
<1>11. ASSUME NEW c \in Callers, Interrupt(c) PROVE TypeOK'
  BY <1>11, GoesTyped DEF TypeOK, Interrupt, bounds
<1>12. ASSUME NEW c \in Callers, Close(c) PROVE TypeOK'
  <2>1. calls' \in [Callers -> 0..MaxCalls]
    BY <1>12 DEF TypeOK, Close
  <2> QED
    BY <1>12, <2>1, MarkHitTyped, GoesTyped DEF TypeOK, Close
<1>13. ASSUME NEW c \in Callers, TakeHandle(c) PROVE TypeOK'
  BY <1>13, ReturnTyped DEF TypeOK, TakeHandle, shared, bounds
<1>14. ASSUME NEW t \in Timeouts, SetBusyTimeout(t) PROVE TypeOK'
  BY <1>14 DEF TypeOK, SetBusyTimeout, bounds
<1>15. CASE ForeignTakes
  BY <1>15 DEF TypeOK, ForeignTakes, shared
<1>16. CASE ForeignReleases
  BY <1>16 DEF TypeOK, ForeignReleases, shared, bounds
<1>17. CASE UNCHANGED vars
  BY <1>17 DEF TypeOK, vars, shared, bounds
<1> QED
  BY <1>1, <1>2, <1>3, <1>4, <1>5, <1>6, <1>7, <1>8, <1>9, <1>10, <1>11, <1>12,
     <1>13, <1>14, <1>15, <1>16, <1>17 DEF Next, Proceed

LEMMA TypeInit == ASSUME Init PROVE TypeOK
<1>1. pc \in [Callers -> Places] /\ calls \in [Callers -> 0..MaxCalls]
  BY NativeConnAssumption, PlacesFacts DEF Init
<1>2. stmt \in Statement
  BY NothingTyped DEF Init
<1>3. cancels \in 0..MaxCancels /\ foreigns \in 0..MaxForeign
  BY NativeConnAssumption DEF Init
<1>4. timeout \in Nat /\ owner \in Callers \cup {NoCaller}
  BY NativeConnAssumption DEF Init
<1>5. open \in BOOLEAN /\ cancelled \in BOOLEAN /\ interrupted \in BOOLEAN /\ foreign \in BOOLEAN
  BY DEF Init
<1> QED
  BY <1>1, <1>2, <1>3, <1>4, <1>5 DEF TypeOK

(* The types of the connection, its mutex and its statement, for every number  *)
(* of callers and every limit (lib.rs:36-46, 73-127).                          *)
THEOREM TypeCorrect == Spec => []TypeOK
<1>1. Init => TypeOK
  BY TypeInit
<1>2. TypeOK /\ [Next]_vars => TypeOK'
  BY TypeStep
<1> QED
  BY <1>1, <1>2, PTL DEF Spec
-------------------------------------------------------------------------------
(* The inductive invariant: the mutex, the flag of a statement that was hit,   *)
(* and what a statement has slept.                                             *)

HitCancels == stmt.hit /\ Statements # {} => cancelled

\* Slept through the first n delays, or cut short at a limit that was read.
Slept(n) ==
  /\ stmt.slept <= Waited(n)
  /\ stmt.slept = Waited(n) \/ \E t \in stmt.seen : stmt.slept >= t

Sleeps ==
  /\ stmt.slept > 0 => \E t \in stmt.seen : stmt.slept <= t
  /\ \A c \in Callers :
       /\ pc[c] \in {"running", "busy"} => Slept(stmt.count)
       /\ pc[c] = "asleep" => Slept(stmt.count + 1)

Safe == ClosedIsQuiet /\ HitCancels /\ Sleeps

Inv == TypeOK /\ Safe

LEMMA Alone ==
  ASSUME TypeOK, ClosedIsQuiet, NEW c \in Callers, pc[c] \in InMutex
  PROVE  /\ owner = c /\ c # NoCaller
         /\ \A k \in Callers \ {c} : pc[k] \notin InMutex
BY NativeConnAssumption DEF ClosedIsQuiet

\* A statement that has just started has slept nothing.
LEMMA FreshSleeps ==
  ASSUME NEW n, NEW h, stmt' = Fresh(n, h), \A k \in Callers : pc'[k] # "asleep"
  PROVE  Sleeps'
<1>1. stmt'.slept = 0 /\ stmt'.count = 0
  BY DEF Fresh
<1>2. Waited(0) = 0
  BY WaitedNext
<1> QED
  BY <1>1, <1>2 DEF Sleeps, Slept

\* Nobody is inside the connection.
LEMMA Emptied ==
  ASSUME stmt' = Fresh(0, FALSE), \A k \in Callers : pc'[k] \notin InMutex
  PROVE  Safe'
<1>1. \A k \in Callers : pc'[k] \notin InStatement /\ pc'[k] # "asleep"
  BY PlacesFacts
<1>2. Statements' = {}
  BY <1>1 DEF Statements
<1>3. Sleeps'
  BY <1>1, FreshSleeps
<1> QED
  BY <1>2, <1>3 DEF Safe, ClosedIsQuiet, HitCancels

\* A caller that leaves the mutex leaves nobody inside.
LEMMA ReturnSafe ==
  ASSUME Inv, NEW c \in Callers, pc[c] \in InMutex, Return(c)
  PROVE  Safe'
<1>1. owner = c /\ \A k \in Callers \ {c} : pc[k] \notin InMutex
  BY Alone DEF Inv, Safe
<1>2. stmt' = Fresh(0, FALSE)
  BY <1>1 DEF Return
<1>3. \A k \in Callers : pc'[k] \notin InMutex
  BY <1>1, PlacesFacts DEF Return, Goes, Inv, TypeOK
<1> QED
  BY <1>2, <1>3, Emptied

\* A caller moves outside the mutex; a cancel marks the statement it meets.
LEMMA OutsideSafe ==
  ASSUME Inv, NEW c \in Callers, NEW place, pc[c] \notin InMutex, place \notin InMutex,
         Goes(c, place), owner' = owner, open' = open,
         \/ stmt' = stmt /\ cancelled' = cancelled
         \/ MarkHit /\ cancelled'
  PROVE  Safe'
<1>1. \A k \in Callers : pc'[k] = pc[k] \/ (k = c /\ pc'[k] = place)
  BY DEF Goes, Inv, TypeOK
<1>2. \A k \in Callers : /\ pc'[k] \in InMutex <=> pc[k] \in InMutex
                         /\ pc'[k] \in InMutex => pc'[k] = pc[k]
  BY <1>1
<1>3. /\ Statements' = Statements
      /\ \A k \in Callers : pc'[k] \in {"running", "busy", "asleep"} => pc'[k] = pc[k]
  BY <1>2, PlacesFacts DEF Statements
<1>4. /\ stmt'.slept = stmt.slept /\ stmt'.count = stmt.count /\ stmt'.seen = stmt.seen
      /\ stmt'.hit = stmt.hit \/ cancelled'
  BY DEF MarkHit, Inv, TypeOK, Statement
<1>5. ClosedIsQuiet'
  BY <1>2, <1>3 DEF Inv, Safe, ClosedIsQuiet
<1>6. HitCancels'
  <2>1. CASE stmt' = stmt /\ cancelled' = cancelled
    BY <1>3, <2>1 DEF Inv, Safe, HitCancels
  <2>2. CASE cancelled'
    BY <2>2 DEF HitCancels
  <2> QED
    BY <2>1, <2>2
<1>7. Sleeps'
  BY <1>3, <1>4 DEF Inv, Safe, Sleeps, Slept
<1> QED
  BY <1>5, <1>6, <1>7 DEF Safe

\* Nobody moves, and nothing of the statement changes.
LEMMA StillSafe ==
  ASSUME Inv, UNCHANGED <<pc, owner, open, stmt, cancelled>>
  PROVE  Safe'
BY DEF Inv, Safe, ClosedIsQuiet, HitCancels, Sleeps, Slept, Statements
\* The caller inside goes on to another place inside, nobody else is there.
LEMMA InsideSafe ==
  ASSUME Inv, NEW c \in Callers, NEW place \in InMutex, pc[c] \in InMutex, Goes(c, place),
         owner' = owner, open' = open, place \in InStatement => open,
         stmt'.hit /\ place \in InStatement => cancelled', Sleeps'
  PROVE  Safe'
<1>1. owner = c /\ \A k \in Callers \ {c} : pc[k] \notin InMutex
  BY Alone DEF Inv, Safe
<1>2. /\ pc'[c] = place
      /\ \A k \in Callers \ {c} : pc'[k] = pc[k]
  BY DEF Goes, Inv, TypeOK
<1>3. \A k \in Callers : pc'[k] \in InMutex => k = c
  BY <1>1, <1>2
<1>4. Statements' \subseteq {c} /\ (Statements' # {} => place \in InStatement)
  BY <1>2, <1>3, PlacesFacts DEF Statements
<1>5. ClosedIsQuiet'
  BY <1>1, <1>3, <1>4 DEF ClosedIsQuiet
<1>6. HitCancels'
  BY <1>4 DEF HitCancels
<1> QED
  BY <1>5, <1>6 DEF Safe

\* What the caller inside has slept is all that counts.
LEMMA SleepsAlone ==
  ASSUME Inv, NEW c \in Callers, NEW place \in InMutex, pc[c] \in InMutex, Goes(c, place),
         stmt'.slept > 0 => \E t \in stmt'.seen : stmt'.slept <= t,
         place \in {"running", "busy"} => Slept(stmt.count)',
         place = "asleep" => Slept(stmt.count + 1)'
  PROVE  Sleeps'
<1>1. \A k \in Callers \ {c} : pc[k] \notin InMutex
  BY Alone DEF Inv, Safe
<1>2. /\ pc'[c] = place
      /\ \A k \in Callers \ {c} : pc'[k] = pc[k]
  BY DEF Goes, Inv, TypeOK
<1>3. \A k \in Callers : pc'[k] \in {"running", "busy", "asleep"} => k = c
  BY <1>1, <1>2, PlacesFacts
<1> QED
  BY <1>2, <1>3 DEF Sleeps

LEMMA AcquireSafe == ASSUME Inv, NEW c \in Callers, Acquire(c) PROVE Safe'
<1>1. \A k \in Callers : pc[k] \notin InMutex
  BY NativeConnAssumption DEF Inv, Safe, ClosedIsQuiet, Acquire
<1>2. \A k \in Callers : pc'[k] \in InMutex => k = c
  BY <1>1 DEF Acquire, Goes, Inv, TypeOK
<1>3. pc'[c] = "entered"
  BY DEF Acquire, Goes, Inv, TypeOK
<1>4. \A k \in Callers : pc'[k] \notin InStatement
  BY <1>2, <1>3, PlacesFacts
<1>5. Statements' = {}
  BY <1>4 DEF Statements
<1>6. Sleeps'
  BY <1>4, PlacesFacts DEF Inv, Safe, Sleeps, Acquire
<1> QED
  BY <1>2, <1>5, <1>6 DEF Safe, ClosedIsQuiet, HitCancels, Acquire

LEMMA CallInlineSafe == ASSUME Inv, NEW c \in Callers, CallInline(c) PROVE Safe'
<1>1. CASE owner = NoCaller
  <2>1. \A k \in Callers : pc[k] \notin InMutex
    BY <1>1, NativeConnAssumption DEF Inv, Safe, ClosedIsQuiet
  <2>2. pc'[c] = "entered" /\ \A k \in Callers : pc'[k] \in InMutex => k = c
    BY <1>1, <2>1 DEF CallInline, Goes, Inv, TypeOK
  <2>3. \A k \in Callers : pc'[k] \notin InStatement
    BY <2>2, PlacesFacts
  <2>4. Statements' = {}
    BY <2>3 DEF Statements
  <2>5. stmt' = stmt /\ owner' = c
    BY <1>1 DEF CallInline, Issue
  <2>6. Sleeps'
    BY <2>3, <2>5, PlacesFacts DEF Inv, Safe, Sleeps
  <2> QED
    BY <2>2, <2>4, <2>5, <2>6 DEF Safe, ClosedIsQuiet, HitCancels
<1>2. CASE owner # NoCaller
  <2>1. pc[c] \notin InMutex /\ "lock" \notin InMutex
    BY PlacesFacts DEF CallInline, Issue
  <2>2. Goes(c, "lock") /\ owner' = owner /\ open' = open /\ stmt' = stmt /\ cancelled' = cancelled
    BY <1>2 DEF CallInline, Issue
  <2> QED
    BY <2>1, <2>2, OutsideSafe
<1> QED
  BY <1>1, <1>2

LEMMA WithDbSafe == ASSUME Inv, NEW c \in Callers, WithDb(c) PROVE Safe'
<1>1. pc[c] \in InMutex
  BY PlacesFacts DEF WithDb
<1>2. CASE open
  <2>1. PICK n \in {1, 2} : stmt' = Fresh(n, FALSE)
    BY <1>2 DEF WithDb
  <2>2. Goes(c, "running") /\ owner' = owner /\ open' = open /\ "running" \in InMutex
    BY <1>2, PlacesFacts DEF WithDb
  <2>3. \A k \in Callers : pc'[k] # "asleep"
    BY <1>1, <2>2, Alone, PlacesFacts DEF Goes, Inv, Safe, TypeOK
  <2>4. Sleeps' /\ ~stmt'.hit
    BY <2>1, <2>3, FreshSleeps DEF Fresh
  <2> QED
    BY <1>1, <1>2, <2>2, <2>4, InsideSafe
<1>3. CASE ~open
  BY <1>1, <1>3, ReturnSafe DEF WithDb
<1> QED
  BY <1>2, <1>3

LEMMA StepSafe == ASSUME Inv, NEW c \in Callers, Step(c) PROVE Safe'
<1>1. pc[c] \in InMutex /\ pc[c] = "running" /\ c \in Statements
  BY PlacesFacts DEF Step, Statements
<1>2. CASE stmt.left > 1
  <2>1. /\ stmt' = Fresh(stmt.left - 1, stmt.hit)
        /\ UNCHANGED <<pc, owner, open, cancelled>>
    BY <1>2 DEF Step, shared
  <2>2. \A k \in Callers : pc'[k] # "asleep"
    BY <1>1, <2>1, Alone, PlacesFacts DEF Inv, Safe
  <2>3. Sleeps' /\ stmt'.hit = stmt.hit
    BY <2>1, <2>2, FreshSleeps DEF Fresh
  <2>4. Statements' = Statements
    BY <2>1 DEF Statements
  <2> QED
    BY <2>1, <2>3, <2>4 DEF Inv, Safe, ClosedIsQuiet, HitCancels
<1>3. CASE ~(stmt.left > 1)
  BY <1>1, <1>3, ReturnSafe DEF Step
<1> QED
  BY <1>2, <1>3

LEMMA MeetLockSafe == ASSUME Inv, NEW c \in Callers, MeetLock(c) PROVE Safe'
<1>1. /\ pc[c] = "running" /\ pc[c] \in InMutex /\ c \in Statements
      /\ Goes(c, "busy") /\ "busy" \in InMutex
      /\ UNCHANGED <<owner, open, stmt, cancelled>>
  BY PlacesFacts DEF MeetLock, Statements, shared
<1>2. open /\ (stmt.hit => cancelled) /\ Slept(stmt.count)
  BY <1>1 DEF Inv, Safe, ClosedIsQuiet, HitCancels, Sleeps
<1>3. /\ stmt'.slept > 0 => \E t \in stmt'.seen : stmt'.slept <= t
      /\ Slept(stmt.count)'
  BY <1>1, <1>2 DEF Inv, Safe, Sleeps, Slept
<1>4. Sleeps'
  BY <1>1, <1>3, SleepsAlone
<1> QED
  BY <1>1, <1>2, <1>4, InsideSafe
\* A nap is the next delay of the schedule or ends at the limit just read.
LEMMA BusyHandlerSafe == ASSUME Inv, NEW c \in Callers, BusyHandler(c) PROVE Safe'
<1>1. pc[c] = "busy" /\ pc[c] \in InMutex /\ c \in Statements /\ UNCHANGED <<open, cancelled>>
  BY PlacesFacts DEF BusyHandler, Statements, shared
<1>2. CASE GivesUp
  BY <1>1, <1>2, ReturnSafe DEF BusyHandler
<1>3. CASE ~GivesUp
  <2> DEFINE n == stmt.count
             nap == Nap(n, timeout)
  <2>1. /\ Goes(c, "asleep") /\ "asleep" \in InMutex /\ owner' = owner
        /\ stmt' = [stmt EXCEPT !.slept = @ + nap, !.seen = @ \cup {timeout}]
    BY <1>3, PlacesFacts DEF BusyHandler
  <2>2. /\ n \in Nat /\ timeout \in Nat /\ stmt.slept \in Nat
        /\ \A t \in stmt.seen : t \in Nat
    BY DEF Inv, TypeOK, Statement
  <2>3. /\ stmt'.slept = stmt.slept + nap /\ stmt'.count = n
        /\ stmt'.seen = stmt.seen \cup {timeout} /\ stmt'.hit = stmt.hit
    BY <2>1 DEF Inv, TypeOK, Statement
  <2>4. /\ Waited(n) \in Nat /\ Waited(n) < timeout
        /\ Waited(n + 1) = Waited(n) + Delay(n) /\ Delay(n) \in Nat
    BY <1>3, <2>2, WaitedNext, DelayPositive DEF GivesUp
  <2>5. /\ nap \in Nat /\ nap <= Delay(n) /\ nap <= timeout - Waited(n)
        /\ nap = Delay(n) \/ nap = timeout - Waited(n)
    BY <2>2, <2>4, NapBounds
  <2>6. /\ stmt.slept <= Waited(n)
        /\ stmt.slept = Waited(n) \/ \E t \in stmt.seen : stmt.slept >= t
    BY <1>1 DEF Inv, Safe, Sleeps, Slept
  <2> HIDE DEF n, nap
  <2>7. stmt'.slept <= timeout /\ timeout \in stmt'.seen
    BY <2>2, <2>3, <2>4, <2>5, <2>6
  <2>8. stmt'.slept <= Waited(n + 1)
    BY <2>2, <2>3, <2>4, <2>5, <2>6
  <2>9. stmt'.slept = Waited(n + 1) \/ \E t \in stmt'.seen : stmt'.slept >= t
    <3>1. CASE \E t \in stmt.seen : stmt.slept >= t
      <4>1. PICK t \in stmt.seen : stmt.slept >= t
        BY <3>1
      <4>2. t \in stmt'.seen /\ stmt'.slept >= t
        BY <2>2, <2>3, <2>5, <4>1
      <4> QED
        BY <4>2
    <3>2. CASE stmt.slept = Waited(n) /\ nap = Delay(n)
      BY <2>3, <2>4, <3>2
    <3>3. CASE stmt.slept = Waited(n) /\ nap = timeout - Waited(n)
      <4>1. stmt'.slept = timeout
        BY <2>2, <2>3, <2>4, <3>3
      <4> QED
        BY <2>2, <2>7, <4>1
    <3> QED
      BY <2>5, <2>6, <3>1, <3>2, <3>3
  <2>10. Slept(stmt.count + 1)'
    BY <2>3, <2>8, <2>9 DEF Slept, n
  <2>11. Sleeps'
    BY <1>1, <2>1, <2>7, <2>10, SleepsAlone
  <2>12. open /\ (stmt'.hit => cancelled')
    BY <1>1, <2>3 DEF Inv, Safe, ClosedIsQuiet, HitCancels
  <2> QED
    BY <1>1, <2>1, <2>11, <2>12, InsideSafe
<1> QED
  BY <1>2, <1>3

LEMMA WakeSafe == ASSUME Inv, NEW c \in Callers, Wake(c) PROVE Safe'
<1>1. pc[c] = "asleep" /\ pc[c] \in InMutex /\ c \in Statements /\ UNCHANGED <<open, cancelled>>
  BY PlacesFacts DEF Wake, Statements, shared
<1>2. CASE cancelled
  BY <1>1, <1>2, ReturnSafe DEF Wake
<1>3. CASE ~cancelled
  <2>1. /\ Goes(c, "running") /\ "running" \in InMutex /\ owner' = owner
        /\ stmt' = [stmt EXCEPT !.count = @ + 1]
    BY <1>3, PlacesFacts DEF Wake
  <2>2. /\ stmt'.slept = stmt.slept /\ stmt'.count = stmt.count + 1
        /\ stmt'.seen = stmt.seen /\ stmt'.hit = stmt.hit
    BY <2>1 DEF Inv, TypeOK, Statement
  <2>3. Slept(stmt.count + 1) /\ (stmt.slept > 0 => \E t \in stmt.seen : stmt.slept <= t)
    BY <1>1 DEF Inv, Safe, Sleeps
  <2>4. Slept(stmt.count)'
    BY <2>2, <2>3 DEF Slept
  <2>5. stmt'.slept > 0 => \E t \in stmt'.seen : stmt'.slept <= t
    BY <2>2, <2>3
  <2>6. Sleeps'
    BY <1>1, <2>1, <2>4, <2>5, SleepsAlone
  <2>7. open /\ (stmt'.hit => cancelled')
    BY <1>1, <2>2 DEF Inv, Safe, ClosedIsQuiet, HitCancels
  <2> QED
    BY <1>1, <2>1, <2>6, <2>7, InsideSafe
<1> QED
  BY <1>2, <1>3

LEMMA TakeHandleSafe == ASSUME Inv, NEW c \in Callers, TakeHandle(c) PROVE Safe'
<1>1. owner = NoCaller /\ \A k \in Callers : pc[k] \notin InMutex
  BY NativeConnAssumption DEF Inv, Safe, ClosedIsQuiet, TakeHandle
<1>2. \A k \in Callers : pc'[k] \notin InMutex
  BY <1>1, PlacesFacts DEF TakeHandle, Return, Goes, Inv, TypeOK
<1>3. \A k \in Callers : pc'[k] \notin InStatement
  BY <1>2, PlacesFacts
<1>4. Statements' = {} /\ stmt' = stmt
  BY <1>1, <1>3, NativeConnAssumption DEF Statements, TakeHandle, Return
<1>5. Sleeps'
  BY <1>3, <1>4, PlacesFacts DEF Inv, Safe, Sleeps
<1> QED
  BY <1>2, <1>4, <1>5 DEF Safe, ClosedIsQuiet, HitCancels

LEMMA SafeStep == ASSUME Inv, [Next]_vars PROVE Safe'
<1>1. ASSUME NEW c \in Callers, Call(c) PROVE Safe'
  <2>1. pc[c] \notin InMutex /\ "lock" \notin InMutex
    BY <1>1, PlacesFacts DEF Call, Issue
  <2>2. Goes(c, "lock") /\ owner' = owner /\ open' = open /\ stmt' = stmt /\ cancelled' = cancelled
    BY <1>1 DEF Call, Issue
  <2> QED
    BY <2>1, <2>2, OutsideSafe
<1>2. ASSUME NEW c \in Callers, Fails(c) PROVE Safe'
  <2>1. pc[c] \in InMutex
    BY <1>2, PlacesFacts DEF Fails
  <2> QED
    BY <1>2, <2>1, ReturnSafe DEF Fails
<1>3. ASSUME NEW c \in Callers, Cancel(c) PROVE Safe'
  <2>1. pc[c] \notin InMutex /\ "interrupting" \notin InMutex
    BY <1>3, PlacesFacts DEF Cancel
  <2> QED
    BY <1>3, <2>1, OutsideSafe DEF Cancel
<1>4. ASSUME NEW c \in Callers, Interrupt(c) PROVE Safe'
  <2>1. pc[c] \notin InMutex /\ "idle" \notin InMutex
    BY <1>4, PlacesFacts DEF Interrupt
  <2> QED
    BY <1>4, <2>1, OutsideSafe DEF Interrupt
<1>5. ASSUME NEW c \in Callers, Close(c) PROVE Safe'
  <2>1. pc[c] \notin InMutex /\ "closing" \notin InMutex
    BY <1>5, PlacesFacts DEF Close
  <2> QED
    BY <1>5, <2>1, OutsideSafe DEF Close
<1>6. ASSUME NEW t \in Timeouts, SetBusyTimeout(t) PROVE Safe'
  BY <1>6, StillSafe DEF SetBusyTimeout
<1>7. CASE ForeignTakes
  BY <1>7, StillSafe DEF ForeignTakes, shared
<1>8. CASE ForeignReleases
  BY <1>8, StillSafe DEF ForeignReleases, shared
<1>9. CASE UNCHANGED vars
  BY <1>9, StillSafe DEF vars, shared
<1> QED
  BY <1>1, <1>2, <1>3, <1>4, <1>5, <1>6, <1>7, <1>8, <1>9, CallInlineSafe, AcquireSafe,
     WithDbSafe, StepSafe, MeetLockSafe, BusyHandlerSafe, WakeSafe, TakeHandleSafe
     DEF Next, Proceed

LEMMA InvHolds == Spec => []Inv
<1>1. Init => Inv
  <2>1. ASSUME Init PROVE Safe
    <3>1. \A k \in Callers : pc[k] = "idle"
      BY <2>1 DEF Init
    <3>2. Statements = {} /\ \A k \in Callers : pc[k] \notin InMutex
      BY <3>1, PlacesFacts DEF Statements
    <3>3. stmt.slept = 0
      BY <2>1 DEF Init, Fresh
    <3> QED
      BY <3>1, <3>2, <3>3 DEF Safe, ClosedIsQuiet, HitCancels, Sleeps
  <2> QED
    BY <2>1, TypeInit DEF Inv
<1>2. Inv /\ [Next]_vars => Inv'
  BY TypeStep, SafeStep DEF Inv
<1> QED
  BY <1>1, <1>2, PTL DEF Spec

(* Once the handle is taken no statement runs, and never two callers are       *)
(* inside the connection (lib.rs:104-127, 170-180), for every number of        *)
(* callers.                                                                    *)
THEOREM ClosedStaysQuiet == Spec => []ClosedIsQuiet
<1>1. Inv => ClosedIsQuiet
  BY DEF Inv, Safe
<1> QED
  BY <1>1, InvHolds, PTL

\* Who moves a caller that is inside the connection, and what the others leave
\* alone meanwhile.
LEMMA OthersWait ==
  ASSUME Inv, NEW c \in Callers, pc[c] \in InMutex, NEW k \in Callers \ {c},
         \/ Call(k) \/ CallInline(k) \/ Cancel(k) \/ Close(k) \/ Proceed(k)
  PROVE  /\ pc'[c] = pc[c] /\ stmt'.slept = stmt.slept
         /\ cancelled => cancelled'
<1>1. /\ owner = c /\ owner # k /\ owner # NoCaller
      /\ pc[k] \notin InMutex
  BY Alone DEF Inv, Safe
<1>2. pc[k] \notin {"entered", "running", "busy", "asleep"}
  BY <1>1, PlacesFacts
<1>3. /\ ~ Acquire(k) /\ ~ TakeHandle(k)
      /\ ~ WithDb(k) /\ ~ Step(k) /\ ~ Fails(k) /\ ~ MeetLock(k) /\ ~ BusyHandler(k) /\ ~ Wake(k)
  BY <1>1, <1>2 DEF Acquire, TakeHandle, WithDb, Step, Fails, MeetLock, BusyHandler, Wake
<1>4. CASE Call(k) \/ CallInline(k) \/ Interrupt(k)
  BY <1>1, <1>4 DEF Call, CallInline, Interrupt, Issue, Goes, Inv, TypeOK
<1>5. CASE Cancel(k) \/ Close(k)
  <2>1. MarkHit /\ cancelled' = TRUE
    BY <1>5 DEF Cancel, Close
  <2>2. stmt'.slept = stmt.slept
    BY <2>1 DEF MarkHit, Inv, TypeOK, Statement
  <2>3. pc'[c] = pc[c]
    BY <1>5 DEF Cancel, Close, Goes, Inv, TypeOK
  <2> QED
    BY <2>1, <2>2, <2>3
<1> QED
  BY <1>3, <1>4, <1>5 DEF Proceed

LEMMA NobodyMoves ==
  ASSUME NEW c \in Callers,
         \/ \E t \in Timeouts : SetBusyTimeout(t)
         \/ ForeignTakes \/ ForeignReleases \/ UNCHANGED vars
  PROVE  pc' = pc /\ stmt' = stmt /\ cancelled' = cancelled
BY DEF SetBusyTimeout, ForeignTakes, ForeignReleases, vars, shared

\* A statement hit by a cancel neither falls asleep nor loses the flag.
LEMMA CancelStep ==
  ASSUME Inv, [Next]_vars, NEW c \in Statements, stmt.hit
  PROVE  /\ pc'[c] \in InStatement => cancelled'
         /\ pc'[c] = "asleep" => pc[c] = "asleep" /\ stmt'.slept = stmt.slept
<1>1. c \in Callers /\ cancelled /\ pc[c] \in InStatement /\ pc[c] \in InMutex
  BY PlacesFacts DEF Inv, Safe, HitCancels, Statements
<1>2. ASSUME NEW k \in Callers \ {c},
             Call(k) \/ CallInline(k) \/ Cancel(k) \/ Close(k) \/ Proceed(k)
      PROVE  pc'[c] = pc[c] /\ stmt'.slept = stmt.slept /\ cancelled'
  BY <1>1, <1>2, OthersWait
<1>3. CASE Call(c) \/ CallInline(c) \/ Cancel(c) \/ Close(c) \/ Proceed(c)
  <2>1. pc[c] \notin {"idle", "lock", "interrupting", "closing", "entered"}
    BY <1>1, PlacesFacts
  <2>2. Step(c) \/ Fails(c) \/ MeetLock(c) \/ BusyHandler(c) \/ Wake(c)
    BY <1>3, <2>1 DEF Call, CallInline, Issue, Cancel, Close, Proceed, Acquire, WithDb,
       Interrupt, TakeHandle
  <2>3. cancelled' = cancelled
    BY <2>2 DEF Step, Fails, MeetLock, BusyHandler, Wake, shared
  <2>4. CASE Step(c) \/ Fails(c) \/ MeetLock(c)
    <3>1. pc'[c] \in {"idle", "running", "busy"}
      BY <1>1, <2>4 DEF Step, Fails, MeetLock, Return, Goes, Inv, TypeOK
    <3> QED
      BY <1>1, <2>3, <3>1
  <2>5. CASE BusyHandler(c) \/ Wake(c)
    <3>1. pc'[c] = "idle"
      BY <1>1, <2>5 DEF BusyHandler, Wake, GivesUp, Return, Goes, Inv, TypeOK
    <3> QED
      BY <1>1, <2>3, <3>1
  <2> QED
    BY <2>2, <2>4, <2>5
<1>4. CASE \/ \E t \in Timeouts : SetBusyTimeout(t)
           \/ ForeignTakes \/ ForeignReleases \/ UNCHANGED vars
  BY <1>1, <1>4, NobodyMoves
<1> QED
  BY <1>1, <1>2, <1>3, <1>4 DEF Next

(* A cancel ends the wait of the statement it hits (lib.rs:73-101, 184-188):   *)
(* the flag stays until its caller is out, and it sleeps no further nap.       *)
THEOREM CancelEndsIt == Spec => CancelEndsWait
<1>1. ASSUME Inv, [Next]_vars
      PROVE  \A c \in Statements : stmt.hit =>
               /\ pc'[c] \in InStatement => cancelled'
               /\ pc'[c] = "asleep" => pc[c] = "asleep" /\ stmt'.slept = stmt.slept
  BY <1>1, CancelStep
<1> QED
  BY <1>1, InvHolds, PTL DEF Spec, CancelEndsWait

\* A statement that gives up uncancelled has slept some limit it read.
LEMMA GivesUpStep ==
  ASSUME Inv, [Next]_vars, NEW c \in Callers, pc[c] = "busy", pc'[c] = "idle", ~cancelled
  PROVE  \E t \in stmt.seen \cup {timeout} : stmt.slept >= t
<1>1. pc[c] \in InMutex
  BY PlacesFacts
<1>2. ASSUME NEW k \in Callers \ {c},
             Call(k) \/ CallInline(k) \/ Cancel(k) \/ Close(k) \/ Proceed(k)
      PROVE  FALSE
  BY <1>1, <1>2, OthersWait
<1>3. CASE Call(c) \/ CallInline(c) \/ Cancel(c) \/ Close(c) \/ Proceed(c)
  <2>1. BusyHandler(c)
    BY <1>3 DEF Call, CallInline, Issue, Cancel, Close, Proceed, Acquire, WithDb, Step, Fails,
       MeetLock, Wake, Interrupt, TakeHandle
  <2>2. GivesUp
    BY <2>1 DEF BusyHandler, Goes, Inv, TypeOK
  <2>3. Waited(stmt.count) >= timeout
    BY <2>2 DEF GivesUp
  <2>4. Slept(stmt.count)
    BY DEF Inv, Safe, Sleeps
  <2> QED
    BY <2>3, <2>4 DEF Slept
<1>4. CASE \/ \E t \in Timeouts : SetBusyTimeout(t)
           \/ ForeignTakes \/ ForeignReleases \/ UNCHANGED vars
  BY <1>4, NobodyMoves
<1> QED
  BY <1>2, <1>3, <1>4 DEF Next

(* A statement sleeps within the limits it read (lib.rs:80-95), for every      *)
(* sequence of limits set while it sleeps.                                     *)
THEOREM TimeoutKept == Spec => WaitsItsTimeout
<1>1. Inv /\ [Next]_vars => Inv'
  BY TypeStep, SafeStep DEF Inv
<1>2. ASSUME Inv, Inv', [Next]_vars
      PROVE  /\ stmt'.slept > 0 => \E t \in stmt'.seen : stmt'.slept <= t
             /\ \A c \in Callers : pc[c] = "busy" /\ pc'[c] = "idle" /\ ~cancelled
                  => \E t \in stmt.seen \cup {timeout} : stmt.slept >= t
  BY <1>2, GivesUpStep DEF Inv, Safe, Sleeps
<1> QED
  BY <1>1, <1>2, InvHolds, PTL DEF Spec, WaitsItsTimeout
===============================================================================
