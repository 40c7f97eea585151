------------------------------ MODULE NativeConn ------------------------------
(* One connection of the vial_sqlite driver (native/vial_sqlite/src/lib.rs):   *)
(* the mutex over the handle, the cancel flag and the timeout that the busy    *)
(* handler reads while its caller holds the mutex, and the calls of several    *)
(* processes.  Another connection may hold the database's write lock.  SQLite  *)
(* itself is external: a statement runs to its end, is refused, meets the      *)
(* foreign lock, or ends at a pending interrupt.                               *)
EXTENDS Integers, Sequences

CONSTANTS Callers,      \* processes that hold the connection's reference
          NoCaller,     \* the mutex is free
          Timeouts,     \* values set_busy_timeout is called with
          DefaultTimeout,
          MaxCalls,     \* bound: statements and closes of one caller
          MaxCancels,   \* bound: cancel/1 calls
          MaxForeign    \* bound: times the other connection takes the lock

ASSUME NativeConnAssumption ==
  /\ NoCaller \notin Callers
  /\ Timeouts \subseteq Nat /\ DefaultTimeout \in Nat
  /\ MaxCalls \in Nat /\ MaxCancels \in Nat /\ MaxForeign \in Nat

VARIABLES pc,          \* where each caller is in its call
          owner,       \* the caller that holds the mutex
          open,        \* the Option inside the mutex is Some
          stmt,        \* the statement of the caller inside the connection
          cancelled,   \* Shared.cancelled
          timeout,     \* Shared.busy_timeout_ms
          interrupted, \* SQLite's interrupt flag, for the active statement
          foreign,     \* the other connection holds the write lock
          calls, cancels, foreigns

bounds == <<calls, cancels, foreigns>>
shared == <<cancelled, timeout, interrupted>>
vars == <<pc, owner, open, stmt, shared, foreign, bounds>>

InStatement == {"running", "busy", "asleep"}
InMutex == {"entered"} \cup InStatement
Statements == {c \in Callers : pc[c] \in InStatement}

\* Of one statement: how many its text still holds with it, and for its wait at
\* the foreign lock the handler's invocations, the milliseconds slept, the limits
\* read; hit when a cancel came after it was started.
Statement == [left : 0..2, count : Nat, slept : Nat, seen : SUBSET Nat, hit : BOOLEAN]
Fresh(n, h) == [left |-> n, count |-> 0, slept |-> 0, seen |-> {}, hit |-> h]

-------------------------------------------------------------------------------
(* The schedule of the busy handler.                                           *)
BusyDelays == <<1, 2, 5, 10, 15, 20, 25, 25, 25, 50, 50>>
BusyMaxDelay == 50

\* Milliseconds the first n invocations of the handler slept: the sum of the
\* first n delays.
BusyTotals == <<0, 1, 3, 8, 18, 33, 53, 78, 103, 128, 178, 228>>

Waited(n) ==
  IF n < Len(BusyTotals) THEN BusyTotals[n + 1]
  ELSE BusyTotals[Len(BusyTotals)] + (n - Len(BusyDelays)) * BusyMaxDelay

Delay(n) == IF n < Len(BusyDelays) THEN BusyDelays[n + 1] ELSE BusyMaxDelay

\* Variant: the last nap is not cut to the limit.
NapFull(n, t) == Delay(n)

\* The nap of invocation n under limit t: never past the limit.
Nap(n, t) == LET rest == t - Waited(n) IN IF Delay(n) < rest THEN Delay(n) ELSE rest

-------------------------------------------------------------------------------
Init ==
  /\ pc = [c \in Callers |-> "idle"]
  /\ owner = NoCaller
  /\ open = TRUE
  /\ stmt = Fresh(0, FALSE)
  /\ cancelled = FALSE
  /\ timeout = DefaultTimeout
  /\ interrupted = FALSE
  /\ foreign = FALSE
  /\ calls = [c \in Callers |-> 0]
  /\ cancels = 0 /\ foreigns = 0

Goes(c, place) == pc' = [pc EXCEPT ![c] = place]

\* Variant: the guard outlives the answer.
ReturnHoldsMutex(c) == Goes(c, "idle") /\ UNCHANGED <<owner, stmt>>

\* The guard is dropped and the caller has its answer.
Return(c) ==
  /\ Goes(c, "idle")
  /\ owner' = IF owner = c THEN NoCaller ELSE owner
  /\ stmt' = IF owner = c THEN Fresh(0, FALSE) ELSE stmt

Issue(c) ==
  /\ pc[c] = "idle"
  /\ calls[c] < MaxCalls
  /\ calls' = [calls EXCEPT ![c] = @ + 1]
  /\ UNCHANGED <<open, stmt, timeout, interrupted, foreign, cancels, foreigns>>

\* query/3, execute/2, last_insert_rowid/1 and serialize/1 wait for the mutex on
\* a dirty scheduler.
Call(c) == Issue(c) /\ Goes(c, "lock") /\ UNCHANGED <<owner, cancelled>>

\* query_inline/3 tries the mutex: a contended caller comes back with query/3.
CallInline(c) ==
  /\ Issue(c)
  /\ IF owner = NoCaller
     THEN owner' = c /\ Goes(c, "entered")
     ELSE Goes(c, "lock") /\ UNCHANGED owner
  /\ UNCHANGED cancelled

Acquire(c) ==
  /\ pc[c] = "lock"
  /\ owner = NoCaller
  /\ owner' = c
  /\ Goes(c, "entered")
  /\ UNCHANGED <<open, stmt, shared, foreign, bounds>>

\* with_db: a closed handle is answered as such; an open one forgets an earlier
\* cancel, and the first statement of the text becomes the active one.
WithDb(c) ==
  /\ pc[c] = "entered"
  /\ IF open
     THEN /\ cancelled' = FALSE
          /\ interrupted' = FALSE
          /\ Goes(c, "running")
          /\ \E n \in {1, 2} : stmt' = Fresh(n, FALSE)
          /\ UNCHANGED owner
     ELSE Return(c) /\ UNCHANGED <<cancelled, interrupted>>
  /\ UNCHANGED <<open, timeout, foreign, bounds>>

\* A statement has run, and the next one of an execute text starts.
Step(c) ==
  /\ pc[c] = "running"
  /\ ~foreign /\ ~interrupted
  /\ IF stmt.left > 1
     THEN stmt' = Fresh(stmt.left - 1, stmt.hit) /\ UNCHANGED <<pc, owner>>
     ELSE Return(c)
  /\ UNCHANGED <<open, shared, foreign, bounds>>

\* The text is not UTF-8, does not prepare or its parameters do not bind; or the
\* statement meets the interrupt.
Fails(c) ==
  /\ pc[c] = "running"
  /\ Return(c)
  /\ UNCHANGED <<open, shared, foreign, bounds>>

\* The statement meets the foreign lock: SQLite calls the busy handler.
MeetLock(c) ==
  /\ pc[c] = "running"
  /\ foreign
  /\ Goes(c, "busy")
  /\ UNCHANGED <<owner, open, stmt, shared, foreign, bounds>>

\* Variant: SQLite's own busy handler, which looks at nothing else.
GivesUpLate == Waited(stmt.count) >= timeout

GivesUp == cancelled \/ Waited(stmt.count) >= timeout

\* The busy handler up to its sleep, and SQLITE_BUSY when it gives up.
BusyHandler(c) ==
  /\ pc[c] = "busy"
  /\ IF GivesUp
     THEN Return(c)
     ELSE /\ Goes(c, "asleep")
          /\ stmt' = [stmt EXCEPT !.slept = @ + Nap(stmt.count, timeout),
                                  !.seen = @ \cup {timeout}]
          /\ UNCHANGED owner
  /\ UNCHANGED <<open, shared, foreign, bounds>>

\* The busy handler after its sleep: SQLite tries the lock again.
Wake(c) ==
  /\ pc[c] = "asleep"
  /\ IF cancelled
     THEN Return(c)
     ELSE /\ Goes(c, "running")
          /\ stmt' = [stmt EXCEPT !.count = @ + 1]
          /\ UNCHANGED owner
  /\ UNCHANGED <<open, shared, foreign, bounds>>

MarkHit == stmt' = [stmt EXCEPT !.hit = @ \/ Statements # {}]

\* cancel/1 first sets the flag, then interrupts.
Cancel(c) ==
  /\ pc[c] = "idle"
  /\ cancels < MaxCancels
  /\ cancels' = cancels + 1
  /\ cancelled' = TRUE
  /\ MarkHit
  /\ Goes(c, "interrupting")
  /\ UNCHANGED <<owner, open, timeout, interrupted, foreign, calls, foreigns>>

\* SQLite ignores an interrupt that meets no active statement.
Interrupt(c) ==
  /\ pc[c] = "interrupting"
  /\ interrupted' = (interrupted \/ Statements # {})
  /\ Goes(c, "idle")
  /\ UNCHANGED <<owner, open, stmt, cancelled, timeout, foreign, bounds>>

\* close/1 sets the flag before it waits for the mutex.
Close(c) ==
  /\ pc[c] = "idle"
  /\ calls[c] < MaxCalls
  /\ calls' = [calls EXCEPT ![c] = @ + 1]
  /\ cancelled' = TRUE
  /\ MarkHit
  /\ Goes(c, "closing")
  /\ UNCHANGED <<owner, open, timeout, interrupted, foreign, cancels, foreigns>>

\* Variant: the handle is taken without the mutex.
TakeHandleAtOnce(c) ==
  /\ pc[c] = "closing"
  /\ open' = FALSE
  /\ Return(c)
  /\ UNCHANGED <<shared, foreign, bounds>>

\* Takes the handle out of the Option; the mutex is held until it is closed, and
\* the handle is gone also when SQLite refuses to close it.
TakeHandle(c) ==
  /\ pc[c] = "closing"
  /\ owner = NoCaller
  /\ open' = FALSE
  /\ Return(c)
  /\ UNCHANGED <<shared, foreign, bounds>>

SetBusyTimeout(t) ==
  /\ timeout' = t
  /\ UNCHANGED <<pc, owner, open, stmt, cancelled, interrupted, foreign, bounds>>

ForeignTakes ==
  /\ ~foreign
  /\ foreigns < MaxForeign
  /\ foreign' = TRUE
  /\ foreigns' = foreigns + 1
  /\ UNCHANGED <<pc, owner, open, stmt, shared, calls, cancels>>

ForeignReleases ==
  /\ foreign
  /\ foreign' = FALSE
  /\ UNCHANGED <<pc, owner, open, stmt, shared, bounds>>

\* The rest of a call, once it has been made.
Proceed(c) ==
  \/ Acquire(c) \/ WithDb(c) \/ Step(c) \/ Fails(c) \/ MeetLock(c)
  \/ BusyHandler(c) \/ Wake(c) \/ Interrupt(c) \/ TakeHandle(c)

Next ==
  \/ \E c \in Callers : Call(c) \/ CallInline(c) \/ Cancel(c) \/ Close(c) \/ Proceed(c)
  \/ \E t \in Timeouts : SetBusyTimeout(t)
  \/ ForeignTakes \/ ForeignReleases

Spec == Init /\ [][Next]_vars

\* The operating system runs every thread; nothing is assumed of the holder of
\* the foreign lock.
FairSpec == Spec /\ \A c \in Callers : WF_vars(Proceed(c))

-------------------------------------------------------------------------------
Places == {"idle", "lock", "interrupting", "closing"} \cup InMutex

\* Types of the connection's state.
TypeOK ==
  /\ pc \in [Callers -> Places]
  /\ owner \in Callers \cup {NoCaller}
  /\ stmt \in Statement
  /\ open \in BOOLEAN /\ cancelled \in BOOLEAN /\ interrupted \in BOOLEAN
  /\ timeout \in Nat
  /\ foreign \in BOOLEAN
  /\ calls \in [Callers -> 0..MaxCalls]
  /\ cancels \in 0..MaxCancels /\ foreigns \in 0..MaxForeign

\* The doc of close/1, "later calls answer {:error, :closed}" (storage/sqlite/
\* driver.ex:58), with the mutex of lib.rs:104-127: once the handle is taken no
\* statement runs, whoever was at the mutex meanwhile, and never two at once.
ClosedIsQuiet ==
  /\ ~open => Statements = {}
  /\ \A c \in Callers : pc[c] \in InMutex => owner = c

\* busy_handler, lib.rs:80-95: a statement sleeps no longer than the longest
\* limit it was given, and gives up uncancelled only when it slept the shortest,
\* although the limit may change while it sleeps and the handler recomputes what
\* it slept from the number of its invocations.
WaitsItsTimeout ==
  [][/\ stmt'.slept > 0 => \E t \in stmt'.seen : stmt'.slept <= t
     /\ \A c \in Callers : pc[c] = "busy" /\ pc'[c] = "idle" /\ ~cancelled
          => \E t \in stmt.seen \cup {timeout} : stmt.slept >= t]_vars

\* The comment above busy_handler, lib.rs:70-72: it "stops as soon as the
\* connection is cancelled".  The flag a statement was hit by stays until its
\* caller has left the connection, and the caller does not fall asleep again.
CancelEndsWait ==
  [][\A c \in Statements : stmt.hit =>
       /\ pc'[c] \in InStatement => cancelled'
       /\ pc'[c] = "asleep" => pc[c] = "asleep" /\ stmt'.slept = stmt.slept]_vars

\* Every call is answered: a statement behind a foreign lock that is never
\* released, a caller behind it at the mutex, and a close behind both.
CallsAnswered == \A c \in Callers : pc[c] # "idle" ~> pc[c] = "idle"
===============================================================================
