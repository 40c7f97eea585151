------------------------ MODULE AttachmentCoordinator ------------------------
(* The process that keeps attachment work and garbage collection apart        *)
(* (lib/vial_keeper/runtime/attachment_coordinator.ex): its state, and one    *)
(* operator or action per handler.  Its callers are in Attachments, which     *)
(* puts these handlers into their steps.  A token is the process it was made  *)
(* for: a process has at most one guard of a kind.  A monitor is what allows  *)
(* GuardDown, GcCallerDown and TaskDown once its process has died.            *)
EXTENDS Integers, FiniteSets

CONSTANTS Procs,     \* processes that may call
          Nobody,
          Limits     \* the limits a configuration may give

Kinds == {"read", "write", "reference"}
Guards == Procs \X Kinds

ASSUME CoordinatorAssumption == Nobody \notin Procs

VARIABLES co,     \* the process's state, and the answer it sent last to each caller
          alive,  \* processes that live
          exits   \* processes that were sent an exit signal

coordinator == <<co, alive, exits>>

\* The state after a start; the answers of an earlier run stay with their callers.
Started(limit, answers) ==
  [guards |-> {}, barrier |-> FALSE, token |-> Nobody, caller |-> Nobody,
   waiter |-> Nobody, followUp |-> Nobody, tasks |-> {},
   closing |-> FALSE, closers |-> {}, limit |-> limit, answer |-> answers]

CoInit ==
  /\ \E l \in Limits : co = Started(l, [p \in Procs |-> "none"])
  /\ alive \in [Procs -> BOOLEAN]
  /\ exits = {}

Of(s, kind) == {g \in s.guards : g[2] = kind}

-------------------------------------------------------------------------------
(* Steps that several handlers end with.                                        *)

\* Variant: the barrier is over when it is granted.
MaybeGrantGcOpens(s) ==
  IF s.barrier /\ s.token = Nobody /\ s.waiter # Nobody /\ s.guards = {}
  THEN [s EXCEPT !.token = s.waiter, !.waiter = Nobody, !.barrier = FALSE,
                 !.answer[s.waiter] = "granted"]
  ELSE s

MaybeGrantGc(s) ==
  IF s.barrier /\ s.token = Nobody /\ s.waiter # Nobody /\ s.guards = {}
  THEN [s EXCEPT !.token = s.waiter, !.waiter = Nobody, !.answer[s.waiter] = "granted"]
  ELSE s

DrainComplete(s) ==
  s.guards = {} /\ s.token = Nobody /\ s.waiter = Nobody /\ s.followUp = Nobody

MaybeCompleteClose(s) ==
  IF s.closing /\ DrainComplete(s)
  THEN [s EXCEPT !.closers = {},
                 !.answer = [p \in Procs |-> IF p \in s.closers THEN "closed" ELSE @[p]]]
  ELSE s

\* Variant: a grant is not looked for when a guard goes.
MaybeCompleteWaitersCloseOnly(s) == MaybeCompleteClose(s)

MaybeCompleteWaiters(s) == MaybeCompleteClose(MaybeGrantGc(s))

\* Variant: the follow-up is dropped when the run before it ends.
PromoteGcFollowUpLost(s) == [s EXCEPT !.followUp = Nobody]

PromoteGcFollowUp(s) ==
  IF s.followUp = Nobody THEN s
  ELSE IF s.closing THEN [s EXCEPT !.answer[s.followUp] = "refused", !.followUp = Nobody]
  ELSE [s EXCEPT !.followUp = Nobody, !.barrier = TRUE, !.caller = s.followUp,
                 !.token = Nobody, !.waiter = s.followUp]

\* The run is over, and the queued one takes its place.
EndRun(s) ==
  MaybeCompleteWaiters(PromoteGcFollowUp(
    [s EXCEPT !.token = Nobody, !.barrier = FALSE, !.caller = Nobody, !.waiter = Nobody]))

-------------------------------------------------------------------------------
(* Guards.  A refused call leaves the state as it is.                           *)

EnsureOpen == ~co.closing
EnsureNoGcBarrier == ~co.barrier

EnsureCapacity(kind) ==
  kind # "reference" => Cardinality(Of(co, kind)) < co.limit[kind]

\* Variant: the barrier is for those who change the store.
MayAcquireReads(kind) ==
  EnsureOpen /\ (kind = "read" \/ EnsureNoGcBarrier) /\ EnsureCapacity(kind)

\* The call of p for a guard is answered with a token.
MayAcquire(kind) == EnsureOpen /\ EnsureNoGcBarrier /\ EnsureCapacity(kind)

Acquire(p, kind) ==
  /\ MayAcquire(kind)
  /\ co' = [co EXCEPT !.guards = @ \cup {<<p, kind>>}]

\* release_guard_for_caller: of an unknown guard it is an error.
Release(p, kind) ==
  co' = IF <<p, kind>> \in co.guards
        THEN MaybeCompleteWaiters([co EXCEPT !.guards = @ \ {<<p, kind>>}])
        ELSE co

\* update_limits: what the configuration does not name has its default.
UpdateLimits ==
  /\ \E l \in Limits \ {co.limit} : co' = [co EXCEPT !.limit = l]
  /\ UNCHANGED <<alive, exits>>

\* handle_guard_down
GuardDown(g) ==
  /\ g \in co.guards /\ ~alive[g[1]]
  /\ co' = MaybeCompleteWaiters([co EXCEPT !.guards = @ \ {g}])
  /\ UNCHANGED <<alive, exits>>

-------------------------------------------------------------------------------
(* Collections.                                                                  *)

\* begin_gc of p: granted, parked behind the guards, queued behind a run, or
\* taken to be covered by the run that is queued.
BeginGc(p) ==
  co' =
    IF co.closing THEN [co EXCEPT !.answer[p] = "refused"]
    ELSE IF co.barrier /\ co.followUp = Nobody
      THEN [co EXCEPT !.followUp = p, !.answer[p] = "none"]
    ELSE IF co.barrier THEN [co EXCEPT !.answer[p] = "coalesced"]
    ELSE IF co.guards = {}
      THEN [co EXCEPT !.barrier = TRUE, !.caller = p, !.token = p, !.answer[p] = "granted"]
    ELSE [co EXCEPT !.barrier = TRUE, !.caller = p, !.waiter = p, !.answer[p] = "none"]

\* end_gc of p: of another token it is an error.
EndGc(p) == co' = IF co.token = p /\ co.caller = p THEN EndRun(co) ELSE co

GcCallerDown ==
  /\ co.caller # Nobody /\ ~alive[co.caller]
  /\ co' = EndRun(co)
  /\ UNCHANGED <<alive, exits>>

\* A linked task is started; it begins by calling begin_gc.
StartTask(t) ==
  /\ co' = [co EXCEPT !.tasks = @ \cup {t}, !.answer[t] = "none"]
  /\ alive' = [alive EXCEPT ![t] = TRUE]
  /\ exits' = exits \ {t}

TaskDown(t) ==
  /\ t \in co.tasks /\ ~alive[t]
  /\ co' = MaybeCompleteWaiters([co EXCEPT !.tasks = @ \ {t}])
  /\ UNCHANGED <<alive, exits>>

-------------------------------------------------------------------------------
(* Closing and crashing.                                                        *)

\* Variant: the token is taken from a run that deletes.
AbortGcForCloseAll(s) ==
  [s EXCEPT !.answer = [p \in Procs |->
                          IF p \in {s.waiter, s.followUp} THEN "refused" ELSE @[p]],
            !.waiter = Nobody, !.followUp = Nobody, !.tasks = {},
            !.token = Nobody, !.barrier = FALSE, !.caller = Nobody]

\* abort_gc_for_close: waiting calls are refused, the tasks are killed; a run
\* that has its token keeps it.
AbortGcForClose(s) ==
  LET r == [s EXCEPT !.answer = [p \in Procs |->
                       IF p \in {s.waiter, s.followUp} THEN "refused" ELSE @[p]],
                     !.waiter = Nobody, !.followUp = Nobody, !.tasks = {}]
  IN IF s.token = Nobody THEN [r EXCEPT !.barrier = FALSE, !.caller = Nobody] ELSE r

BeginClose(p) ==
  /\ co' = MaybeCompleteClose([AbortGcForClose(co) EXCEPT
             !.closing = TRUE, !.closers = @ \cup {p}, !.answer[p] = "none"])
  /\ exits' = exits \cup co.tasks
  /\ UNCHANGED alive

\* Killed and started again by its supervisor: it knows no guard and no run, calls
\* that waited end in an exit, and its tasks are linked to it.
CoordinatorDown ==
  LET called == {co.waiter, co.followUp} \cup co.closers
  IN /\ co' = Started(co.limit, [p \in Procs |->
                IF p \in called THEN "refused" ELSE co.answer[p]])
     /\ exits' = exits \cup co.tasks
     /\ UNCHANGED alive

==============================================================================
