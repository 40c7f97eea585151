--------------------------- MODULE AttachmentsProofs ---------------------------
(* Theorems about the attachment coordinator and its callers, for every set of *)
(* processes and digests, every limit, and any number of faults.               *)
EXTENDS Attachments, TLAPS

-------------------------------------------------------------------------------
(* The coordinator's state, apart from its callers.                            *)

Answers == {"none", "granted", "coalesced", "refused", "closed"}

CoState ==
  [guards : SUBSET Guards, barrier : BOOLEAN, token : Procs \cup {Nobody},
   caller : Procs \cup {Nobody}, waiter : Procs \cup {Nobody},
   followUp : Procs \cup {Nobody}, tasks : SUBSET Procs, closing : BOOLEAN,
   closers : SUBSET Procs, limit : Limits, answer : [Procs -> Answers]]

\* What holds between a guard's removal and the search for a grant.
Coherent(s) ==
  /\ s \in CoState
  /\ s.barrier <=> s.caller # Nobody
  /\ s.barrier => \/ s.token = s.caller /\ s.waiter = Nobody
                  \/ s.token = Nobody /\ s.waiter = s.caller
  /\ ~s.barrier => s.token = Nobody /\ s.waiter = Nobody /\ s.followUp = Nobody
  /\ s.closing => s.waiter = Nobody /\ s.followUp = Nobody
  /\ s.token # Nobody => s.guards = {}

\* What holds between two handlers.
Settled(s) == Coherent(s) /\ (s.waiter # Nobody => s.guards # {})

\* A close that was answered "closed" found nothing in use, and nothing is let in.
Quiet(s) ==
  \A p \in Procs : s.answer[p] = "closed" => s.closing /\ s.guards = {} /\ s.token = Nobody

\* A token is told to its holder only.
Told(s, r) == \A p \in Procs : r.answer[p] = "granted" => r.token = p \/ s.answer[p] = "granted"

(* maybe_grant_gc (attachment_coordinator.ex): the one who waits gets the token *)
(* when no guard is left.                                                       *)
LEMMA Granting ==
  ASSUME NEW s, Coherent(s)
  PROVE  LET r == MaybeGrantGc(s)
         IN /\ Settled(r) /\ Told(s, r)
            /\ r.guards = s.guards /\ r.closing = s.closing
            /\ s.token # Nobody \/ s.guards # {} \/ s.waiter = Nobody => r.token = s.token
            /\ Quiet(s) => Quiet(r)
<1> DEFINE r == MaybeGrantGc(s)
<1> USE CoordinatorAssumption
<1>1. CASE s.barrier /\ s.token = Nobody /\ s.waiter # Nobody /\ s.guards = {}
  <2> DEFINE a == [s.answer EXCEPT ![s.waiter] = "granted"]
  <2>1. r = [s EXCEPT !.token = s.waiter, !.waiter = Nobody, !.answer = a]
    BY <1>1 DEF MaybeGrantGc
  <2>2. s.waiter \in Procs /\ s \in CoState /\ a \in [Procs -> Answers]
    BY <1>1 DEF Coherent, CoState, Answers
  <2> HIDE DEF a, r
  <2>3. /\ r \in CoState /\ r.guards = s.guards /\ r.closing = s.closing
        /\ r.token = s.waiter /\ r.waiter = Nobody /\ r.barrier = s.barrier
        /\ r.caller = s.caller /\ r.followUp = s.followUp
        /\ r.answer = a
    BY <2>1, <2>2 DEF CoState
  <2>4. \A p \in Procs : r.answer[p] = IF p = s.waiter THEN "granted" ELSE s.answer[p]
    BY <2>2, <2>3 DEF CoState, a
  <2>5. Settled(r)
    BY <1>1, <2>2, <2>3 DEF Settled, Coherent
  <2>6. ~s.closing
    BY <1>1 DEF Coherent
  <2> QED
    BY <1>1, <2>3, <2>4, <2>5, <2>6 DEF Told, Quiet, r
<1>2. CASE ~(s.barrier /\ s.token = Nobody /\ s.waiter # Nobody /\ s.guards = {})
  <2>1. r = s
    BY <1>2 DEF MaybeGrantGc
  <2>2. Settled(r)
    BY <1>2, <2>1 DEF Settled, Coherent
  <2> QED
    BY <2>1, <2>2 DEF Told
<1> QED
  BY <1>1, <1>2

(* maybe_complete_close (attachment_coordinator.ex): only a drained coordinator *)
(* answers a close, and it answers nobody else.                                 *)
LEMMA Closing ==
  ASSUME NEW s, Settled(s)
  PROVE  LET r == MaybeCompleteClose(s)
         IN /\ Settled(r) /\ Told(s, r)
            /\ r.guards = s.guards /\ r.token = s.token /\ r.closing = s.closing
            /\ Quiet(s) => Quiet(r)
<1> DEFINE r == MaybeCompleteClose(s)
<1>1. CASE s.closing /\ DrainComplete(s)
  <2> DEFINE a == [p \in Procs |-> IF p \in s.closers THEN "closed" ELSE s.answer[p]]
  <2>1. r = [s EXCEPT !.closers = {}, !.answer = a]
    BY <1>1 DEF MaybeCompleteClose
  <2>2. s \in CoState
    BY DEF Settled, Coherent
  <2>a. a \in [Procs -> Answers]
    BY <2>2 DEF CoState, Answers
  <2> HIDE DEF a, r
  <2>3. /\ r \in CoState /\ r.guards = s.guards /\ r.closing = s.closing
        /\ r.token = s.token /\ r.waiter = s.waiter /\ r.barrier = s.barrier
        /\ r.caller = s.caller /\ r.followUp = s.followUp
        /\ r.answer = a
    BY <2>1, <2>2, <2>a DEF CoState
  <2>4. Settled(r)
    BY <2>3 DEF Settled, Coherent
  <2> QED
    BY <1>1, <2>3, <2>4 DEF Told, Quiet, DrainComplete, a, r
<1>2. CASE ~(s.closing /\ DrainComplete(s))
  BY <1>2 DEF MaybeCompleteClose, Told
<1> QED
  BY <1>1, <1>2

(* maybe_complete_waiters (attachment_coordinator.ex): after any change the     *)
(* fields tell of one run again.                                                *)
LEMMA Completing ==
  ASSUME NEW s, Coherent(s)
  PROVE  LET r == MaybeCompleteWaiters(s)
         IN /\ Settled(r) /\ Told(s, r)
            /\ r.guards = s.guards /\ r.closing = s.closing
            /\ s.token # Nobody \/ s.guards # {} \/ s.waiter = Nobody => r.token = s.token
            /\ Quiet(s) => Quiet(r)
<1> DEFINE g == MaybeGrantGc(s)
<1>1. MaybeCompleteWaiters(s) = MaybeCompleteClose(g)
  BY DEF MaybeCompleteWaiters
<1>2. /\ Settled(g) /\ Told(s, g)
      /\ g.guards = s.guards /\ g.closing = s.closing
      /\ s.token # Nobody \/ s.guards # {} \/ s.waiter = Nobody => g.token = s.token
      /\ Quiet(s) => Quiet(g)
  BY Granting
<1> HIDE DEF g
<1> QED
  BY <1>1, <1>2, Closing DEF Told

(* end_gc and the death of a collection's caller (attachment_coordinator.ex):   *)
(* the run is over, the guards are as before, and the queued one has its turn.  *)
LEMMA Ending ==
  ASSUME NEW s, Settled(s)
  PROVE  LET r == EndRun(s)
         IN /\ Settled(r) /\ Told(s, r)
            /\ r.guards = s.guards /\ r.closing = s.closing
            /\ s.guards # {} => r.token = Nobody
            /\ Quiet(s) => Quiet(r)
<1> USE CoordinatorAssumption
<1> DEFINE o == [s EXCEPT !.token = Nobody, !.barrier = FALSE, !.caller = Nobody,
                          !.waiter = Nobody]
           f == PromoteGcFollowUp(o)
<1>0. s \in CoState
  BY DEF Settled, Coherent
<1>1. /\ o \in CoState /\ o.guards = s.guards /\ o.closing = s.closing
      /\ o.token = Nobody /\ o.waiter = Nobody /\ ~o.barrier /\ o.caller = Nobody
      /\ o.followUp = s.followUp /\ o.answer = s.answer
  BY <1>0 DEF CoState
<1>2. s.closing => s.followUp = Nobody
  BY DEF Settled, Coherent
<1> HIDE DEF o
<1>3. Coherent(f) /\ Told(s, f) /\ f.guards = s.guards /\ f.closing = s.closing
      /\ f.token = Nobody /\ (Quiet(s) => Quiet(f))
  <2>1. CASE o.followUp = Nobody
    <3>1. f = o
      BY <2>1 DEF PromoteGcFollowUp
    <3> QED
      BY <3>1, <1>1, <2>1 DEF Coherent, Told, Quiet
  <2>2. CASE o.followUp # Nobody
    <3>1. f = [o EXCEPT !.followUp = Nobody, !.barrier = TRUE, !.caller = o.followUp,
                        !.token = Nobody, !.waiter = o.followUp]
      BY <1>1, <1>2, <2>2 DEF PromoteGcFollowUp
    <3>2. /\ f \in CoState /\ f.guards = o.guards /\ f.closing = o.closing
          /\ f.token = Nobody /\ f.waiter = o.followUp /\ f.barrier
          /\ f.caller = o.followUp /\ f.followUp = Nobody /\ f.answer = o.answer
      BY <1>1, <3>1 DEF CoState
    <3> QED
      BY <3>2, <1>1, <1>2, <2>2 DEF Coherent, Told, Quiet
  <2> QED
    BY <2>1, <2>2
<1>4. EndRun(s) = MaybeCompleteWaiters(f)
  BY DEF EndRun, o
<1> HIDE DEF f
<1> QED
  BY <1>3, <1>4, Completing DEF Told

-------------------------------------------------------------------------------
(* The handlers.  Each serves: it leaves a settled state, and what it tells is  *)
(* true of it.                                                                  *)

Serves(s, r) == Settled(r) /\ Told(s, r) /\ (Quiet(s) => Quiet(r))

\* Neither a guard nor the token changes hands.
SameHolds(s, r) == r.guards = s.guards /\ r.token = s.token

LEMMA SettledFields ==
  ASSUME NEW s, Settled(s)
  PROVE  /\ s \in CoState
         /\ s.guards \subseteq Guards /\ s.answer \in [Procs -> Answers]
         /\ s.token \in Procs \cup {Nobody} /\ s.caller \in Procs \cup {Nobody}
         /\ s.waiter \in Procs \cup {Nobody} /\ s.followUp \in Procs \cup {Nobody}
         /\ s.tasks \subseteq Procs /\ s.closers \subseteq Procs
BY DEF Settled, Coherent, CoState

(* acquire_guard (attachment_coordinator.ex): a guard is given while no         *)
(* collection runs.                                                             *)
LEMMA Acquiring ==
  ASSUME Settled(co), NEW p \in Procs, NEW k \in Kinds, Acquire(p, k)
  PROVE  /\ Serves(co, co')
         /\ co'.guards = co.guards \cup {<<p, k>>}
         /\ co.token = Nobody /\ co'.token = Nobody
<1>1. co \in CoState
  BY SettledFields
<1>2. co' = [co EXCEPT !.guards = co.guards \cup {<<p, k>>}]
  BY DEF Acquire
<1>3. co.guards \cup {<<p, k>>} \in SUBSET Guards
  BY SettledFields DEF Guards
<1>4. /\ co' \in CoState /\ co'.guards = co.guards \cup {<<p, k>>}
      /\ co'.token = co.token /\ co'.waiter = co.waiter /\ co'.barrier = co.barrier
      /\ co'.caller = co.caller /\ co'.followUp = co.followUp
      /\ co'.closing = co.closing /\ co'.answer = co.answer
  BY <1>1, <1>2, <1>3 DEF CoState
<1>5. ~co.closing /\ ~co.barrier
  BY DEF Acquire, MayAcquire, EnsureOpen, EnsureNoGcBarrier
<1>6. co.token = Nobody
  BY <1>5 DEF Settled, Coherent
<1> QED
  BY <1>4, <1>5, <1>6 DEF Serves, Settled, Coherent, Told, Quiet

(* A guard is removed, by its holder or by its holder's death: one that waited  *)
(* for the last guard has the token at once.                                    *)
LEMMA Leaving ==
  ASSUME Settled(co), NEW g,
         co' = MaybeCompleteWaiters([co EXCEPT !.guards = @ \ {g}])
  PROVE  /\ Serves(co, co')
         /\ co'.guards = co.guards \ {g}
         /\ co.token # Nobody \/ co'.guards # {} \/ co.guards = {} => co'.token = co.token
<1> DEFINE o == [co EXCEPT !.guards = co.guards \ {g}]
<1>1. co \in CoState
  BY SettledFields
<1>2. co.guards \ {g} \in SUBSET Guards
  BY SettledFields
<1>3. /\ o \in CoState /\ o.guards = co.guards \ {g}
      /\ o.token = co.token /\ o.waiter = co.waiter /\ o.barrier = co.barrier
      /\ o.caller = co.caller /\ o.followUp = co.followUp
      /\ o.closing = co.closing /\ o.answer = co.answer
  BY <1>1, <1>2 DEF CoState
<1>4. co' = MaybeCompleteWaiters(o)
  OBVIOUS
<1> HIDE DEF o
<1>5. Coherent(o) /\ Told(co, o) /\ (Quiet(co) => Quiet(o))
  BY <1>3 DEF Settled, Coherent, Told, Quiet
<1>6. co.guards = {} => co.waiter = Nobody
  BY DEF Settled
<1>7. /\ Settled(co') /\ Told(o, co') /\ co'.guards = o.guards
      /\ o.token # Nobody \/ o.guards # {} \/ o.waiter = Nobody => co'.token = o.token
      /\ Quiet(o) => Quiet(co')
  BY <1>4, <1>5, Completing
<1>8. Told(co, co')
  BY <1>3, <1>7 DEF Told
<1> QED
  BY <1>3, <1>5, <1>6, <1>7, <1>8 DEF Serves

(* release_guard_for_caller (attachment_coordinator.ex).                        *)
LEMMA Releasing ==
  ASSUME Settled(co), NEW p \in Procs, NEW k, Release(p, k)
  PROVE  /\ Serves(co, co')
         /\ co'.guards = co.guards \ {<<p, k>>}
         /\ co.token # Nobody \/ co'.guards # {} \/ co.guards = {} => co'.token = co.token
<1>1. CASE <<p, k>> \in co.guards
  <2>1. co' = MaybeCompleteWaiters([co EXCEPT !.guards = @ \ {<<p, k>>}])
    BY <1>1 DEF Release
  <2> QED
    BY <2>1, Leaving
<1>2. CASE <<p, k>> \notin co.guards
  <2>1. co' = co
    BY <1>2 DEF Release
  <2> QED
    BY <1>2, <2>1 DEF Serves, Told
<1> QED
  BY <1>1, <1>2

(* begin_gc (attachment_coordinator.ex): a token is given only while there is   *)
(* neither a guard nor another token.                                           *)
LEMMA Beginning ==
  ASSUME Settled(co), NEW p \in Procs, BeginGc(p)
  PROVE  /\ Serves(co, co')
         /\ co'.guards = co.guards
         /\ \/ co'.token = co.token
            \/ co.token = Nobody /\ co.guards = {} /\ co'.token = p
         /\ co'.answer[p] = "granted" => co'.token = p
<1> USE CoordinatorAssumption
<1>0. co \in CoState /\ co.answer \in [Procs -> Answers]
  BY SettledFields
<1>1. CASE co.closing
  <2> DEFINE a == [co.answer EXCEPT ![p] = "refused"]
  <2>1. co' = [co EXCEPT !.answer = a]
    BY <1>1 DEF BeginGc
  <2>2. a \in [Procs -> Answers]
    BY <1>0 DEF Answers
  <2>3. \A q \in Procs : a[q] = IF q = p THEN "refused" ELSE co.answer[q]
    BY <1>0
  <2> HIDE DEF a
  <2>4. /\ co' \in CoState /\ co'.guards = co.guards
        /\ co'.token = co.token /\ co'.waiter = co.waiter /\ co'.barrier = co.barrier
        /\ co'.caller = co.caller /\ co'.followUp = co.followUp
        /\ co'.closing = co.closing /\ co'.answer = a
    BY <1>0, <2>1, <2>2 DEF CoState
  <2> QED
    BY <2>3, <2>4 DEF Serves, Settled, Coherent, Told, Quiet
<1>2. CASE ~co.closing /\ co.barrier /\ co.followUp = Nobody
  <2> DEFINE a == [co.answer EXCEPT ![p] = "none"]
  <2>1. co' = [co EXCEPT !.followUp = p, !.answer = a]
    BY <1>2 DEF BeginGc
  <2>2. a \in [Procs -> Answers]
    BY <1>0 DEF Answers
  <2>3. \A q \in Procs : a[q] = IF q = p THEN "none" ELSE co.answer[q]
    BY <1>0
  <2> HIDE DEF a
  <2>4. /\ co' \in CoState /\ co'.guards = co.guards
        /\ co'.token = co.token /\ co'.waiter = co.waiter /\ co'.barrier = co.barrier
        /\ co'.caller = co.caller /\ co'.followUp = p
        /\ co'.closing = co.closing /\ co'.answer = a
    BY <1>0, <2>1, <2>2 DEF CoState
  <2> QED
    BY <1>2, <2>3, <2>4 DEF Serves, Settled, Coherent, Told, Quiet
<1>3. CASE ~co.closing /\ co.barrier /\ co.followUp # Nobody
  <2> DEFINE a == [co.answer EXCEPT ![p] = "coalesced"]
  <2>1. co' = [co EXCEPT !.answer = a]
    BY <1>3 DEF BeginGc
  <2>2. a \in [Procs -> Answers]
    BY <1>0 DEF Answers
  <2>3. \A q \in Procs : a[q] = IF q = p THEN "coalesced" ELSE co.answer[q]
    BY <1>0
  <2> HIDE DEF a
  <2>4. /\ co' \in CoState /\ co'.guards = co.guards
        /\ co'.token = co.token /\ co'.waiter = co.waiter /\ co'.barrier = co.barrier
        /\ co'.caller = co.caller /\ co'.followUp = co.followUp
        /\ co'.closing = co.closing /\ co'.answer = a
    BY <1>0, <2>1, <2>2 DEF CoState
  <2> QED
    BY <1>3, <2>3, <2>4 DEF Serves, Settled, Coherent, Told, Quiet
<1>4. CASE ~co.closing /\ ~co.barrier /\ co.guards = {}
  <2> DEFINE a == [co.answer EXCEPT ![p] = "granted"]
  <2>1. co' = [co EXCEPT !.barrier = TRUE, !.caller = p, !.token = p, !.answer = a]
    BY <1>4 DEF BeginGc
  <2>2. a \in [Procs -> Answers]
    BY <1>0 DEF Answers
  <2>3. \A q \in Procs : a[q] = IF q = p THEN "granted" ELSE co.answer[q]
    BY <1>0
  <2> HIDE DEF a
  <2>4. /\ co' \in CoState /\ co'.guards = co.guards
        /\ co'.token = p /\ co'.waiter = co.waiter /\ co'.barrier = TRUE
        /\ co'.caller = p /\ co'.followUp = co.followUp
        /\ co'.closing = co.closing /\ co'.answer = a
    BY <1>0, <2>1, <2>2 DEF CoState
  <2> QED
    BY <1>4, <2>3, <2>4 DEF Serves, Settled, Coherent, Told, Quiet
<1>5. CASE ~co.closing /\ ~co.barrier /\ co.guards # {}
  <2> DEFINE a == [co.answer EXCEPT ![p] = "none"]
  <2>1. co' = [co EXCEPT !.barrier = TRUE, !.caller = p, !.waiter = p, !.answer = a]
    BY <1>5 DEF BeginGc
  <2>2. a \in [Procs -> Answers]
    BY <1>0 DEF Answers
  <2>3. \A q \in Procs : a[q] = IF q = p THEN "none" ELSE co.answer[q]
    BY <1>0
  <2> HIDE DEF a
  <2>4. /\ co' \in CoState /\ co'.guards = co.guards
        /\ co'.token = co.token /\ co'.waiter = p /\ co'.barrier = TRUE
        /\ co'.caller = p /\ co'.followUp = co.followUp
        /\ co'.closing = co.closing /\ co'.answer = a
    BY <1>0, <2>1, <2>2 DEF CoState
  <2> QED
    BY <1>5, <2>3, <2>4 DEF Serves, Settled, Coherent, Told, Quiet
<1> QED
  BY <1>1, <1>2, <1>3, <1>4, <1>5

(* end_gc (attachment_coordinator.ex): only the token's holder ends its run.    *)
LEMMA EndingCall ==
  ASSUME Settled(co), NEW p \in Procs, EndGc(p)
  PROVE  /\ Serves(co, co')
         /\ co'.guards = co.guards
         /\ co.token # p => co'.token = co.token
<1> USE CoordinatorAssumption
<1>1. CASE co.token = p /\ co.caller = p
  <2>1. co' = EndRun(co)
    BY <1>1 DEF EndGc
  <2> QED
    BY <1>1, <2>1, Ending DEF Serves
<1>2. CASE ~(co.token = p /\ co.caller = p)
  <2>1. co' = co
    BY <1>2 DEF EndGc
  <2>2. co.token # p
    BY <1>2 DEF Settled, Coherent
  <2> QED
    BY <2>1, <2>2 DEF Serves, Told
<1> QED
  BY <1>1, <1>2

(* handle_gc_caller_down (attachment_coordinator.ex): a token is taken from the *)
(* dead only.                                                                   *)
LEMMA CallerDying ==
  ASSUME Settled(co), GcCallerDown
  PROVE  /\ Serves(co, co')
         /\ co'.guards = co.guards
         /\ \/ co'.token = co.token
            \/ co.token \in Procs /\ ~alive[co.token]
<1> USE CoordinatorAssumption
<1>1. co' = EndRun(co) /\ co.caller # Nobody /\ ~alive[co.caller]
  BY DEF GcCallerDown
<1>2. \/ co.token = co.caller
      \/ co.token = Nobody /\ co.guards # {}
  BY <1>1 DEF Settled, Coherent
<1>3. co.caller \in Procs
  BY <1>1, SettledFields
<1> QED
  BY <1>1, <1>2, <1>3, Ending DEF Serves

(* schedule_gc (attachment_coordinator.ex): a task is only noted.               *)
LEMMA StartingTask ==
  ASSUME Settled(co), NEW t \in Procs, StartTask(t)
  PROVE  Serves(co, co') /\ SameHolds(co, co')
<1>1. co \in CoState /\ co.answer \in [Procs -> Answers] /\ co.tasks \subseteq Procs
  BY SettledFields
<1> DEFINE a == [co.answer EXCEPT ![t] = "none"]
<1>2. co' = [co EXCEPT !.tasks = co.tasks \cup {t}, !.answer = a]
  BY DEF StartTask
<1>3. a \in [Procs -> Answers] /\ co.tasks \cup {t} \in SUBSET Procs
  BY <1>1 DEF Answers
<1>4. \A q \in Procs : a[q] = IF q = t THEN "none" ELSE co.answer[q]
  BY <1>1
<1> HIDE DEF a
<1>5. /\ co' \in CoState /\ co'.guards = co.guards
      /\ co'.token = co.token /\ co'.waiter = co.waiter /\ co'.barrier = co.barrier
      /\ co'.caller = co.caller /\ co'.followUp = co.followUp
      /\ co'.closing = co.closing /\ co'.answer = a
  BY <1>1, <1>2, <1>3 DEF CoState
<1> QED
  BY <1>4, <1>5 DEF Serves, Settled, Coherent, Told, Quiet, SameHolds

(* The death of a task (attachment_coordinator.ex) grants nothing: whoever      *)
(* waits, waits for guards.                                                     *)
LEMMA TaskDying ==
  ASSUME Settled(co), NEW t, TaskDown(t)
  PROVE  Serves(co, co') /\ SameHolds(co, co')
<1> DEFINE o == [co EXCEPT !.tasks = co.tasks \ {t}]
<1>1. co \in CoState /\ co.tasks \ {t} \in SUBSET Procs
  BY SettledFields
<1>2. /\ o \in CoState /\ o.guards = co.guards
      /\ o.token = co.token /\ o.waiter = co.waiter /\ o.barrier = co.barrier
      /\ o.caller = co.caller /\ o.followUp = co.followUp
      /\ o.closing = co.closing /\ o.answer = co.answer
  BY <1>1 DEF CoState
<1>3. co' = MaybeCompleteWaiters(o)
  BY DEF TaskDown
<1> HIDE DEF o
<1>4. Coherent(o) /\ (Quiet(co) => Quiet(o)) /\ (o.waiter # Nobody => o.guards # {})
  BY <1>2 DEF Settled, Coherent, Quiet
<1>5. /\ Settled(co') /\ Told(o, co') /\ co'.guards = o.guards
      /\ o.token # Nobody \/ o.guards # {} \/ o.waiter = Nobody => co'.token = o.token
      /\ Quiet(o) => Quiet(co')
  BY <1>3, <1>4, Completing
<1>6. Told(co, co')
  BY <1>2, <1>5 DEF Told
<1> QED
  BY <1>2, <1>4, <1>5, <1>6 DEF Serves, SameHolds

(* begin_close (attachment_coordinator.ex): a run that has its token keeps it.  *)
LEMMA BeginningClose ==
  ASSUME Settled(co), NEW p \in Procs, BeginClose(p)
  PROVE  Serves(co, co') /\ SameHolds(co, co') /\ co'.closing
<1> USE CoordinatorAssumption
<1>1. /\ co \in CoState /\ co.answer \in [Procs -> Answers] /\ co.closers \subseteq Procs
      /\ co.tasks \subseteq Procs
  BY SettledFields
<1> DEFINE a == [q \in Procs |-> IF q \in {co.waiter, co.followUp} THEN "refused"
                                 ELSE co.answer[q]]
           b == [a EXCEPT ![p] = "none"]
           c == AbortGcForClose(co)
           o == [c EXCEPT !.closing = TRUE, !.closers = c.closers \cup {p}, !.answer = b]
<1>2. a \in [Procs -> Answers] /\ b \in [Procs -> Answers]
  BY <1>1 DEF Answers
<1>3. \A q \in Procs : b[q] \in {"granted", "closed"} => b[q] = co.answer[q]
  BY <1>1
<1>4. /\ c \in CoState /\ c.guards = co.guards /\ c.answer = a
      /\ c.token = co.token /\ c.waiter = Nobody /\ c.followUp = Nobody
      /\ c.barrier = (co.barrier /\ co.token # Nobody)
      /\ c.caller = IF co.token = Nobody THEN Nobody ELSE co.caller
  <2> DEFINE r == [co EXCEPT !.answer = a, !.waiter = Nobody, !.followUp = Nobody,
                             !.tasks = {}]
  <2> HIDE DEF a, b
  <2>1. /\ r \in CoState /\ r.guards = co.guards /\ r.answer = a
        /\ r.token = co.token /\ r.waiter = Nobody /\ r.followUp = Nobody
        /\ r.barrier = co.barrier /\ r.caller = co.caller
    BY <1>1, <1>2 DEF CoState
  <2>2. c = IF co.token = Nobody THEN [r EXCEPT !.barrier = FALSE, !.caller = Nobody] ELSE r
    BY DEF AbortGcForClose, a
  <2> HIDE DEF r, c
  <2>3. CASE co.token = Nobody
    <3>1. c = [r EXCEPT !.barrier = FALSE, !.caller = Nobody]
      BY <2>2, <2>3
    <3> QED
      BY <2>1, <2>3, <3>1 DEF CoState
  <2>4. CASE co.token # Nobody
    <3>1. c = r
      BY <2>2, <2>4
    <3>2. co.barrier \in BOOLEAN
      BY <1>1 DEF CoState
    <3> QED
      BY <2>1, <2>4, <3>1, <3>2
  <2> QED
    BY <2>3, <2>4
<1>5. co' = MaybeCompleteClose(o)
  BY <1>4 DEF BeginClose
<1> HIDE DEF a, b, c
<1>6. /\ o \in CoState /\ o.guards = co.guards /\ o.answer = b /\ o.closing
      /\ o.token = co.token /\ o.waiter = Nobody /\ o.followUp = Nobody
      /\ o.barrier = (co.barrier /\ co.token # Nobody)
      /\ o.caller = IF co.token = Nobody THEN Nobody ELSE co.caller
  BY <1>1, <1>2, <1>4 DEF CoState
<1> HIDE DEF o
<1>7. Settled(o) /\ Told(co, o) /\ (Quiet(co) => Quiet(o))
  BY <1>3, <1>6 DEF Settled, Coherent, Told, Quiet
<1>8. /\ Settled(co') /\ Told(o, co') /\ co'.guards = o.guards /\ co'.token = o.token
      /\ co'.closing = o.closing
      /\ Quiet(o) => Quiet(co')
  BY <1>5, <1>7, Closing
<1>9. Told(co, co')
  BY <1>6, <1>7, <1>8 DEF Told
<1> QED
  BY <1>6, <1>7, <1>8, <1>9 DEF Serves, SameHolds

(* A restart (attachment_coordinator.ex): no guard and no run is known.         *)
LEMMA Restarting ==
  ASSUME Settled(co), CoordinatorDown
  PROVE  Settled(co') /\ co'.guards = {} /\ co'.token = Nobody
<1> DEFINE called == {co.waiter, co.followUp} \cup co.closers
           a == [p \in Procs |-> IF p \in called THEN "refused" ELSE co.answer[p]]
<1>1. co \in CoState /\ co.answer \in [Procs -> Answers]
  BY SettledFields
<1>2. a \in [Procs -> Answers] /\ co.limit \in Limits
  BY <1>1 DEF CoState, Answers
<1>3. co' = Started(co.limit, a)
  BY DEF CoordinatorDown
<1> HIDE DEF a
<1>4. /\ co' \in CoState /\ co'.guards = {} /\ co'.token = Nobody /\ co'.waiter = Nobody
      /\ ~co'.barrier /\ co'.caller = Nobody /\ co'.followUp = Nobody
  BY <1>2, <1>3 DEF Started, CoState
<1> QED
  BY <1>4 DEF Settled, Coherent

(* update_limits (attachment_coordinator.ex) and the reading of an answer.      *)
LEMMA Limiting ==
  ASSUME Settled(co), UpdateLimits
  PROVE  Serves(co, co') /\ SameHolds(co, co')
<1>1. PICK l \in Limits : co' = [co EXCEPT !.limit = l]
  BY DEF UpdateLimits
<1>2. co \in CoState
  BY SettledFields
<1>3. /\ co' \in CoState /\ co'.guards = co.guards
      /\ co'.token = co.token /\ co'.waiter = co.waiter /\ co'.barrier = co.barrier
      /\ co'.caller = co.caller /\ co'.followUp = co.followUp
      /\ co'.closing = co.closing /\ co'.answer = co.answer
  BY <1>1, <1>2 DEF CoState
<1> QED
  BY <1>3 DEF Serves, Settled, Coherent, Told, Quiet, SameHolds

LEMMA Reading ==
  ASSUME Settled(co), NEW p \in Procs, Read(p)
  PROVE  Serves(co, co') /\ SameHolds(co, co')
<1>1. co \in CoState /\ co.answer \in [Procs -> Answers]
  BY SettledFields
<1> DEFINE a == [co.answer EXCEPT ![p] = "none"]
<1>2. co' = [co EXCEPT !.answer = a]
  BY DEF Read
<1>3. a \in [Procs -> Answers]
  BY <1>1 DEF Answers
<1>4. \A q \in Procs : a[q] = IF q = p THEN "none" ELSE co.answer[q]
  BY <1>1
<1> HIDE DEF a
<1>5. /\ co' \in CoState /\ co'.guards = co.guards
      /\ co'.token = co.token /\ co'.waiter = co.waiter /\ co'.barrier = co.barrier
      /\ co'.caller = co.caller /\ co'.followUp = co.followUp
      /\ co'.closing = co.closing /\ co'.answer = a
  BY <1>1, <1>2, <1>3 DEF CoState
<1> QED
  BY <1>4, <1>5 DEF Serves, Settled, Coherent, Told, Quiet, SameHolds

\* Nothing happens to the coordinator.
LEMMA Unmoved == ASSUME Settled(co), UNCHANGED co PROVE Serves(co, co') /\ SameHolds(co, co')
BY DEF Serves, Told, SameHolds

-------------------------------------------------------------------------------
(* The invariant.                                                              *)

Blobs == Digests \cup {NoBlob}

Calls == {"none", "upload", "batch", "mutation", "read", "import", "gc", "close"}

Steps == InUse \cup {"idle", "missing", "sending", "importing", "starting", "waiting",
                     "listing", "scanning", "deleting", "ending", "closing", "closed"}

Typed ==
  /\ alive \in [Procs -> BOOLEAN]
  /\ call \in [Procs -> Calls] /\ step \in [Procs -> Steps] /\ blob \in [Procs -> Blobs]
  /\ found \in [Procs -> SUBSET Blobs]
  /\ disk \in SUBSET Blobs /\ pending \in SUBSET Blobs /\ retained \in SUBSET Blobs
  /\ used \in [compactions : Nat, crashes : Nat, faults : Nat]

Guarded == {"upload", "import", "batch", "mutation", "read"}

\* What a process may count on.
Sound(p) ==
  \* it has the guard of its call,
  /\ alive[p] /\ step[p] \in InUse => call[p] \in Guarded /\ <<p, GuardOf(p)>> \in co.guards
  /\ alive[p] /\ step[p] = "missing" => call[p] = "import"
  \* or the token of its run;
  /\ alive[p] /\ step[p] \in {"listing", "scanning", "deleting"} => co.token = p
  /\ alive[p] /\ step[p] = "waiting" /\ co.answer[p] = "granted" => co.token = p
  \* a file that is about to be protected is there, even if its caller is dead;
  /\ step[p] = "protecting" => blob[p] \in disk
  \* a collection knows all that is reachable, and what it deletes is not;
  /\ alive[p] /\ step[p] = "scanning" => Reachable \ imported \subseteq found[p]
  /\ alive[p] /\ step[p] = "deleting" => found[p] \cap Reachable \subseteq imported
  \* and a ticket names a file.
  /\ alive[p] /\ step[p] = "opening" => blob[p] \in disk \cup imported

\* Nothing becomes protected behind a collection that has its list.
Alone ==
  \A p, q \in Procs :
    alive[p] /\ step[p] \in {"scanning", "deleting"} => step[q] # "protecting"

Kept == Reachable \ imported \subseteq disk

Known == Quiet(co) /\ Kept /\ Alone /\ \A p \in Procs : Sound(p)

Inv == Typed /\ Settled(co) /\ (used.crashes = 0 => Known)

-------------------------------------------------------------------------------
(* What a step of p leaves to the others.                                      *)

OthersStay(p) ==
  \A q \in Procs \ {p} :
    /\ alive'[q] => alive[q]
    /\ call'[q] = call[q] /\ step'[q] = step[q] /\ blob'[q] = blob[q]
    /\ found'[q] = found[q]

HoldsStay(p) ==
  /\ Serves(co, co')
  /\ \A q \in Procs \ {p}, k \in Kinds :
       alive[q] /\ <<q, k>> \in co.guards => <<q, k>> \in co'.guards
  /\ co.token \in Procs \ {p} /\ alive[co.token] => co'.token = co.token

StoreStays ==
  /\ disk \subseteq disk' /\ imported \subseteq imported'
  /\ Reachable' \ imported' \subseteq Reachable \ imported

LEMMA KindOfGuard == ASSUME NEW p, call[p] \in Guarded PROVE GuardOf(p) \in Kinds
BY DEF Guarded, GuardOf, Kinds

(* A step that takes no guard or token from the others and no blob from the     *)
(* store leaves them sound.                                                     *)
LEMMA OthersSound ==
  ASSUME Settled(co), Known, NEW p, OthersStay(p), HoldsStay(p), StoreStays
  PROVE  Quiet(co') /\ Kept' /\ \A q \in Procs \ {p} : Sound(q)'
<1> USE CoordinatorAssumption
<1>1. Quiet(co') /\ Kept'
  BY DEF Known, HoldsStay, Serves, Kept, StoreStays
<1>2. ASSUME NEW q \in Procs \ {p} PROVE Sound(q)'
  <2>0. /\ Sound(q)
        /\ alive'[q] => alive[q]
        /\ call'[q] = call[q] /\ step'[q] = step[q] /\ blob'[q] = blob[q]
        /\ found'[q] = found[q]
    BY DEF Known, OthersStay
  <2>1. GuardOf(q)' = GuardOf(q)
    BY <2>0 DEF GuardOf
  <2>2. alive'[q] /\ step'[q] \in InUse =>
          call'[q] \in Guarded /\ <<q, GuardOf(q)'>> \in co'.guards
    BY <2>0, <2>1, KindOfGuard DEF Sound, HoldsStay
  <2>3. alive'[q] /\ step'[q] \in {"listing", "scanning", "deleting"} => co'.token = q
    BY <2>0 DEF Sound, HoldsStay
  <2>4. alive'[q] /\ step'[q] = "waiting" /\ co'.answer[q] = "granted" => co'.token = q
    BY <2>0 DEF Sound, HoldsStay, Serves, Told
  <2>5. /\ step'[q] = "protecting" => blob'[q] \in disk'
        /\ alive'[q] /\ step'[q] = "scanning" => Reachable' \ imported' \subseteq found'[q]
        /\ alive'[q] /\ step'[q] = "deleting" => found'[q] \cap Reachable' \subseteq imported'
        /\ alive'[q] /\ step'[q] = "opening" => blob'[q] \in disk' \cup imported'
        /\ alive'[q] /\ step'[q] = "missing" => call'[q] = "import"
    BY <2>0 DEF Sound, StoreStays
  <2> QED
    BY <2>2, <2>3, <2>4, <2>5 DEF Sound
<1> QED
  BY <1>1, <1>2

(* Such a step keeps the invariant if p is sound after it and neither lists nor *)
(* is about to protect anything new.                                            *)
LEMMA OneMoves ==
  ASSUME Settled(co), Known, NEW p, OthersStay(p), HoldsStay(p), StoreStays,
         p \in Procs =>
           /\ Sound(p)'
           /\ step'[p] = "protecting" => step[p] = "protecting"
           /\ alive'[p] /\ step'[p] \in {"scanning", "deleting"} =>
                alive[p] /\ step[p] \in {"scanning", "deleting"}
  PROVE  Known'
<1>1. Quiet(co') /\ Kept' /\ \A q \in Procs \ {p} : Sound(q)'
  BY OthersSound
<1>2. \A q \in Procs : Sound(q)'
  BY <1>1
<1>3. Alone'
  BY DEF Known, Alone, OthersStay
<1> QED
  BY <1>1, <1>2, <1>3 DEF Known

(* The move of one process.                                                     *)
LEMMA Moving ==
  ASSUME Typed, NEW p \in Procs, NEW c \in Calls, NEW s \in Steps, NEW d \in Blobs,
         Becomes(p, c, s, d)
  PROVE  /\ call' \in [Procs -> Calls] /\ step' \in [Procs -> Steps]
         /\ blob' \in [Procs -> Blobs]
         /\ call'[p] = c /\ step'[p] = s /\ blob'[p] = d
         /\ \A q \in Procs \ {p} :
              call'[q] = call[q] /\ step'[q] = step[q] /\ blob'[q] = blob[q]
BY DEF Typed, Becomes

-------------------------------------------------------------------------------
(* The handlers again, for the steps of the caller p: the others stay.          *)

LEMMA SameStay ==
  ASSUME Serves(co, co'), SameHolds(co, co'), NEW p
  PROVE  HoldsStay(p)
BY DEF HoldsStay, SameHolds

LEMMA AcquireStay ==
  ASSUME Settled(co), NEW p \in Procs, NEW k \in Kinds, Acquire(p, k)
  PROVE  HoldsStay(p) /\ co.guards \subseteq co'.guards /\ <<p, k>> \in co'.guards
BY Acquiring DEF HoldsStay

LEMMA ReleaseStay ==
  ASSUME Settled(co), NEW p \in Procs, NEW k, Release(p, k)
  PROVE  HoldsStay(p) /\ co'.guards = co.guards \ {<<p, k>>}
<1>1. /\ Serves(co, co')
      /\ co'.guards = co.guards \ {<<p, k>>}
      /\ co.token # Nobody \/ co'.guards # {} \/ co.guards = {} => co'.token = co.token
  BY Releasing
<1>2. co.token \in Procs => co'.token = co.token
  BY <1>1, CoordinatorAssumption
<1> QED
  BY <1>1, <1>2 DEF HoldsStay

LEMMA BeginStay ==
  ASSUME Settled(co), NEW p \in Procs, BeginGc(p)
  PROVE  HoldsStay(p) /\ (co'.answer[p] = "granted" => co'.token = p)
<1>1. /\ Serves(co, co')
      /\ co'.guards = co.guards
      /\ \/ co'.token = co.token
         \/ co.token = Nobody /\ co.guards = {} /\ co'.token = p
      /\ co'.answer[p] = "granted" => co'.token = p
  BY Beginning
<1> QED
  BY <1>1, CoordinatorAssumption DEF HoldsStay

LEMMA EndStay ==
  ASSUME Settled(co), NEW p \in Procs, EndGc(p)
  PROVE  HoldsStay(p)
<1>1. /\ Serves(co, co')
      /\ co'.guards = co.guards
      /\ co.token # p => co'.token = co.token
  BY EndingCall
<1> QED
  BY <1>1 DEF HoldsStay

(* A step of a live call that leaves the store alone.                           *)
LEMMA CallMoves ==
  ASSUME Inv, NEW p \in Procs, NEW c \in Calls, NEW s \in Steps, NEW d \in Blobs,
         Becomes(p, c, s, d), OnlyClients, HoldsStay(p),
         s \notin {"protecting", "listing", "scanning", "deleting"},
         Known =>
           /\ s \in InUse => c \in Guarded /\ <<p, GuardOf(p)'>> \in co'.guards
           /\ s = "missing" => c = "import"
           /\ s = "waiting" /\ co'.answer[p] = "granted" => co'.token = p
           /\ s = "opening" => d \in disk \cup imported
  PROVE  Inv'
<1>1. /\ call' \in [Procs -> Calls] /\ step' \in [Procs -> Steps]
      /\ blob' \in [Procs -> Blobs]
      /\ call'[p] = c /\ step'[p] = s /\ blob'[p] = d
      /\ \A q \in Procs \ {p} :
           call'[q] = call[q] /\ step'[q] = step[q] /\ blob'[q] = blob[q]
  BY Moving DEF Inv
<1>2. /\ alive' = alive /\ disk' = disk /\ pending' = pending /\ retained' = retained
      /\ found' = found /\ imported' = imported /\ used' = used
  BY DEF OnlyClients, store, rest
<1>3. Typed' /\ Settled(co')
  BY <1>1, <1>2 DEF Inv, Typed, HoldsStay, Serves
<1>4. OthersStay(p) /\ StoreStays
  BY <1>1, <1>2 DEF OthersStay, StoreStays, Reachable
<1>5. ASSUME Known PROVE Sound(p)'
  BY <1>1, <1>2, <1>5 DEF Sound
<1>6. ASSUME Known PROVE Known'
  BY <1>1, <1>4, <1>5, <1>6, OneMoves DEF Inv
<1> QED
  BY <1>2, <1>3, <1>6 DEF Inv

(* The steps of that kind (attachments.ex and the services that use it).        *)

LEMMA StartUploadStep ==
  ASSUME Inv, NEW p \in Procs, NEW d \in Digests, StartUpload(p, d) PROVE Inv'
<1>1. Becomes(p, "upload", "storing", d) /\ Acquire(p, "write") /\ OnlyClients
  BY DEF StartUpload, Starts
<1>2. HoldsStay(p) /\ <<p, "write">> \in co'.guards
  BY <1>1, AcquireStay DEF Inv, Kinds
<1>3. call'[p] = "upload"
  BY <1>1, Moving DEF Inv, Blobs, Calls, Steps, InUse
<1>4. GuardOf(p)' = "write"
  BY <1>3 DEF GuardOf
<1> QED
  BY <1>1, <1>2, <1>4, CallMoves DEF Guarded, Blobs, Calls, Steps, InUse

LEMMA StartBatchStep ==
  ASSUME Inv, NEW p \in Procs, NEW d \in Digests, StartBatch(p, d) PROVE Inv'
<1>1. Becomes(p, "batch", "batch", d) /\ Acquire(p, "reference") /\ OnlyClients
  BY DEF StartBatch, Starts
<1>2. HoldsStay(p) /\ <<p, "reference">> \in co'.guards
  BY <1>1, AcquireStay DEF Inv, Kinds
<1>3. call'[p] = "batch"
  BY <1>1, Moving DEF Inv, Blobs, Calls, Steps, InUse
<1>4. GuardOf(p)' = "reference"
  BY <1>3 DEF GuardOf
<1> QED
  BY <1>1, <1>2, <1>4, CallMoves DEF Guarded, Blobs, Calls, Steps, InUse

LEMMA StartMutationStep ==
  ASSUME Inv, NEW p \in Procs, NEW d \in Digests, StartMutation(p, d) PROVE Inv'
<1>1. Becomes(p, "mutation", "checking", d) /\ Acquire(p, "reference") /\ OnlyClients
  BY DEF StartMutation, Starts
<1>2. HoldsStay(p) /\ <<p, "reference">> \in co'.guards
  BY <1>1, AcquireStay DEF Inv, Kinds
<1>3. call'[p] = "mutation"
  BY <1>1, Moving DEF Inv, Blobs, Calls, Steps, InUse
<1>4. GuardOf(p)' = "reference"
  BY <1>3 DEF GuardOf
<1> QED
  BY <1>1, <1>2, <1>4, CallMoves DEF Guarded, Blobs, Calls, Steps, InUse

LEMMA StartReadStep ==
  ASSUME Inv, NEW p \in Procs, NEW d \in Digests, StartRead(p, d) PROVE Inv'
<1>1. Becomes(p, "read", "resolving", d) /\ Acquire(p, "read") /\ OnlyClients
  BY DEF StartRead, Starts
<1>2. HoldsStay(p) /\ <<p, "read">> \in co'.guards
  BY <1>1, AcquireStay DEF Inv, Kinds
<1>3. call'[p] = "read"
  BY <1>1, Moving DEF Inv, Blobs, Calls, Steps, InUse
<1>4. GuardOf(p)' = "read"
  BY <1>3 DEF GuardOf
<1> QED
  BY <1>1, <1>2, <1>4, CallMoves DEF Guarded, Blobs, Calls, Steps, InUse

LEMMA DiffStep ==
  ASSUME Inv, NEW p \in Procs, NEW d \in Digests, Diff(p, d) PROVE Inv'
<1>1. UNCHANGED co /\ OnlyClients
  BY DEF Diff
<1>2. HoldsStay(p)
  BY <1>1, Unmoved, SameStay DEF Inv
<1>3. CASE Becomes(p, "import", "sending", d)
  BY <1>1, <1>2, <1>3, CallMoves DEF InUse, Blobs, Calls, Steps
<1>4. CASE Becomes(p, "import", "missing", d)
  BY <1>1, <1>2, <1>4, CallMoves DEF InUse, Blobs, Calls, Steps
<1> QED
  BY <1>3, <1>4 DEF Diff, Starts

(* A live process in the middle of a guarded call has its guard, and the guard  *)
(* stays if the call goes on.                                                   *)
LEMMA GuardStays ==
  ASSUME Inv, Known, NEW p \in Procs, NEW s \in Steps, alive[p], step[p] \in InUse,
         Goes(p, s), co.guards \subseteq co'.guards
  PROVE  call[p] \in Guarded /\ <<p, GuardOf(p)'>> \in co'.guards
<1>1. call[p] \in Guarded /\ <<p, GuardOf(p)>> \in co.guards
  BY DEF Known, Sound
<1>2. call'[p] = call[p]
  BY Moving DEF Inv, Typed, Goes
<1>3. GuardOf(p)' = GuardOf(p)
  BY <1>2 DEF GuardOf
<1> QED
  BY <1>1, <1>3

\* A call goes on without the coordinator.
LEMMA CallGoesOn ==
  ASSUME Inv, NEW p \in Procs, NEW s \in Steps, Goes(p, s), UNCHANGED co, OnlyClients,
         alive[p], step[p] \in InUse,
         s \notin {"protecting", "listing", "scanning", "deleting", "missing", "waiting"},
         Known => (s = "opening" => blob[p] \in disk \cup imported)
  PROVE  Inv'
<1>1. /\ Becomes(p, call[p], s, blob[p])
      /\ call[p] \in Calls /\ blob[p] \in Blobs
  BY DEF Inv, Typed, Goes
<1>2. HoldsStay(p)
  BY Unmoved, SameStay DEF Inv
<1>3. ASSUME Known PROVE call[p] \in Guarded /\ <<p, GuardOf(p)'>> \in co'.guards
  BY <1>3, GuardStays
<1> QED
  BY <1>1, <1>2, <1>3, CallMoves

LEMMA CheckStep == ASSUME Inv, NEW p \in Procs, Check(p) PROVE Inv'
<1>1. alive[p] /\ step[p] \in InUse /\ UNCHANGED co /\ OnlyClients
  BY DEF Check, At, InUse
<1>2. CASE Goes(p, "committing")
  BY <1>1, <1>2, CallGoesOn DEF Steps, InUse
<1>3. CASE Goes(p, "failed")
  BY <1>1, <1>3, CallGoesOn DEF Steps, InUse
<1> QED
  BY <1>2, <1>3 DEF Check

LEMMA ResolveStep == ASSUME Inv, NEW p \in Procs, Resolve(p) PROVE Inv'
<1>1. alive[p] /\ step[p] \in InUse /\ UNCHANGED co /\ OnlyClients
  BY DEF Resolve, At, InUse
<1>2. CASE Goes(p, "opening") /\ blob[p] \in retained \cup (Reachable \cap disk)
  <2>1. Known => blob[p] \in disk \cup imported
    BY <1>2 DEF Known, Kept, Reachable
  <2> QED
    BY <1>1, <1>2, <2>1, CallGoesOn DEF Steps, InUse
<1>3. CASE Goes(p, "failed")
  BY <1>1, <1>3, CallGoesOn DEF Steps, InUse
<1> QED
  BY <1>2, <1>3 DEF Resolve

LEMMA OpenStep == ASSUME Inv, NEW p \in Procs, Open(p) PROVE Inv'
<1>1. alive[p] /\ step[p] \in InUse /\ UNCHANGED co /\ OnlyClients
  BY DEF Open, At, InUse
<1>2. CASE Goes(p, "reading")
  BY <1>1, <1>2, CallGoesOn DEF Steps, InUse
<1>3. CASE Goes(p, "failed")
  BY <1>1, <1>3, CallGoesOn DEF Steps, InUse
<1> QED
  BY <1>2, <1>3 DEF Open

LEMMA CloseReadStep == ASSUME Inv, NEW p \in Procs, CloseRead(p) PROVE Inv'
<1>1. alive[p] /\ step[p] \in InUse /\ UNCHANGED co /\ OnlyClients /\ Goes(p, "over")
  BY DEF CloseRead, At, InUse
<1> QED
  BY <1>1, CallGoesOn DEF Steps, InUse

LEMMA StartWorkerStep == ASSUME Inv, NEW p \in Procs, StartWorker(p) PROVE Inv'
<1>1. alive[p] /\ step[p] \in InUse /\ OnlyClients
  BY DEF StartWorker, At, InUse
<1>2. CASE Acquire(p, "write") /\ Goes(p, "storing")
  <2>1. HoldsStay(p) /\ co.guards \subseteq co'.guards
    BY <1>2, AcquireStay DEF Inv, Kinds
  <2>2. Known => call[p] \in Guarded /\ <<p, GuardOf(p)'>> \in co'.guards
    BY <1>1, <1>2, <2>1, GuardStays DEF Steps, InUse
  <2>3. Becomes(p, call[p], "storing", blob[p]) /\ call[p] \in Calls /\ blob[p] \in Blobs
    BY <1>2 DEF Goes, Inv, Typed
  <2> QED
    BY <1>1, <2>1, <2>2, <2>3, CallMoves DEF Steps, InUse
<1>3. CASE UNCHANGED co /\ Goes(p, "failed")
  BY <1>1, <1>3, CallGoesOn DEF Steps, InUse
<1> QED
  BY <1>2, <1>3 DEF StartWorker

(* The worker of a batch gives its own guard back: the batch still has one.     *)
LEMMA WorkerLeaves ==
  ASSUME Inv, NEW p \in Procs, NEW s \in Steps, alive[p], step[p] = "storing", Goes(p, s),
         IF call[p] = "batch" THEN Release(p, "write") ELSE UNCHANGED co
  PROVE  /\ HoldsStay(p)
         /\ Known => call[p] \in Guarded /\ <<p, GuardOf(p)'>> \in co'.guards
<1>1. CASE call[p] = "batch" /\ Release(p, "write")
  <2>1. HoldsStay(p) /\ co'.guards = co.guards \ {<<p, "write">>}
    BY <1>1, ReleaseStay DEF Inv
  <2>2. call'[p] = "batch"
    BY <1>1, Moving DEF Inv, Typed, Goes
  <2>3. GuardOf(p) = "reference" /\ GuardOf(p)' = "reference"
    BY <1>1, <2>2 DEF GuardOf
  <2>4. Known => <<p, "reference">> \in co.guards
    BY <2>3 DEF Known, Sound, InUse
  <2> QED
    BY <1>1, <2>1, <2>3, <2>4 DEF Guarded
<1>2. CASE UNCHANGED co
  <2>1. HoldsStay(p)
    BY <1>2, Unmoved, SameStay DEF Inv
  <2> QED
    BY <1>2, <2>1, GuardStays DEF InUse
<1> QED
  BY <1>1, <1>2

LEMMA StoreFailsStep == ASSUME Inv, NEW p \in Procs, StoreFails(p) PROVE Inv'
<1>1. /\ alive[p] /\ step[p] = "storing" /\ OnlyClients /\ Goes(p, "failed")
      /\ IF call[p] = "batch" THEN Release(p, "write") ELSE UNCHANGED co
  BY DEF StoreFails, At
<1>2. HoldsStay(p) /\ (Known => call[p] \in Guarded /\ <<p, GuardOf(p)'>> \in co'.guards)
  BY <1>1, WorkerLeaves DEF Steps, InUse
<1>3. Becomes(p, call[p], "failed", blob[p]) /\ call[p] \in Calls /\ blob[p] \in Blobs
  BY <1>1 DEF Goes, Inv, Typed
<1> QED
  BY <1>1, <1>2, <1>3, CallMoves DEF Steps, InUse

\* A call is over.
LEMMA CallEnds ==
  ASSUME Inv, NEW p \in Procs, Ends(p), OnlyClients, HoldsStay(p) PROVE Inv'
<1>1. Becomes(p, "none", "idle", NoBlob)
  BY DEF Ends
<1> QED
  BY <1>1, CallMoves DEF Calls, Steps, Blobs, InUse

LEMMA FinishStep == ASSUME Inv, NEW p \in Procs, Finish(p) PROVE Inv'
<1>1. OnlyClients /\ Release(p, GuardOf(p))
  BY DEF Finish
<1>2. HoldsStay(p)
  BY <1>1, ReleaseStay DEF Inv
<1>3. CASE Goes(p, "sending")
  <2>1. Becomes(p, call[p], "sending", blob[p]) /\ call[p] \in Calls /\ blob[p] \in Blobs
    BY <1>3 DEF Goes, Inv, Typed
  <2> QED
    BY <1>1, <1>2, <2>1, CallMoves DEF Steps, InUse
<1>4. CASE Ends(p)
  BY <1>1, <1>2, <1>4, CallEnds
<1> QED
  BY <1>3, <1>4 DEF Finish

LEMMA TransferStep == ASSUME Inv, NEW p \in Procs, Transfer(p) PROVE Inv'
<1>1. alive[p] /\ step[p] = "missing" /\ OnlyClients
  BY DEF Transfer, At
<1>2. CASE Acquire(p, "write") /\ Goes(p, "storing")
  <2>1. HoldsStay(p) /\ <<p, "write">> \in co'.guards
    BY <1>2, AcquireStay DEF Inv, Kinds
  <2>2. Becomes(p, call[p], "storing", blob[p]) /\ call[p] \in Calls /\ blob[p] \in Blobs
    BY <1>2 DEF Goes, Inv, Typed
  <2>3. call'[p] = call[p]
    BY <2>2, Moving DEF Inv, Steps, InUse
  <2>4. Known => call[p] = "import"
    BY <1>1 DEF Known, Sound
  <2>5. Known => call[p] \in Guarded /\ <<p, GuardOf(p)'>> \in co'.guards
    BY <2>1, <2>3, <2>4 DEF Guarded, GuardOf
  <2> QED
    BY <1>1, <2>1, <2>2, <2>5, CallMoves DEF Steps, InUse
<1>3. CASE UNCHANGED co /\ Ends(p)
  <2>1. HoldsStay(p)
    BY <1>3, Unmoved, SameStay DEF Inv
  <2> QED
    BY <1>1, <1>3, <2>1, CallEnds
<1> QED
  BY <1>2, <1>3 DEF Transfer

LEMMA BeginCollectionStep == ASSUME Inv, NEW p \in Procs, BeginCollection(p) PROVE Inv'
<1>1. OnlyClients /\ BeginGc(p)
  BY DEF BeginCollection
<1>2. HoldsStay(p) /\ (co'.answer[p] = "granted" => co'.token = p)
  BY <1>1, BeginStay DEF Inv
<1>3. CASE Becomes(p, "gc", "waiting", NoBlob)
  BY <1>1, <1>2, <1>3, CallMoves DEF Calls, Steps, Blobs, InUse
<1>4. CASE Goes(p, "waiting")
  <2>1. Becomes(p, call[p], "waiting", blob[p]) /\ call[p] \in Calls /\ blob[p] \in Blobs
    BY <1>4 DEF Goes, Inv, Typed
  <2> QED
    BY <1>1, <1>2, <2>1, CallMoves DEF Steps, InUse
<1> QED
  BY <1>3, <1>4 DEF BeginCollection, Starts

LEMMA CloseAnswerStep == ASSUME Inv, NEW p \in Procs, CloseAnswer(p) PROVE Inv'
<1>1. UNCHANGED co /\ OnlyClients
  BY DEF CloseAnswer
<1>2. HoldsStay(p)
  BY <1>1, Unmoved, SameStay DEF Inv
<1>3. CASE Goes(p, "closed")
  <2>1. Becomes(p, call[p], "closed", blob[p]) /\ call[p] \in Calls /\ blob[p] \in Blobs
    BY <1>3 DEF Goes, Inv, Typed
  <2> QED
    BY <1>1, <1>2, <2>1, CallMoves DEF Steps, InUse
<1>4. CASE Ends(p)
  BY <1>1, <1>2, <1>4, CallEnds
<1> QED
  BY <1>3, <1>4 DEF CloseAnswer

-------------------------------------------------------------------------------
(* The steps that change the store, a collection's list or who lives.           *)

LEMMA Stepping ==
  ASSUME Inv, NEW p, Typed', used'.crashes = used.crashes,
         OthersStay(p), HoldsStay(p), StoreStays,
         Known /\ p \in Procs =>
           /\ Sound(p)'
           /\ step'[p] = "protecting" => step[p] = "protecting"
           /\ alive'[p] /\ step'[p] \in {"scanning", "deleting"} =>
                alive[p] /\ step[p] \in {"scanning", "deleting"}
  PROVE  Inv'
<1>1. Settled(co')
  BY DEF HoldsStay, Serves
<1>2. ASSUME Known PROVE Known'
  BY <1>2, OneMoves DEF Inv
<1> QED
  BY <1>1, <1>2 DEF Inv

\* While somebody uses a blob no collection runs.
LEMMA InUseNotRun ==
  ASSUME Inv, Known, NEW p \in Procs, NEW q \in Procs, alive[p], step[p] \in InUse, alive[q]
  PROVE  step[q] \notin {"listing", "scanning", "deleting"}
<1>1. co.guards # {}
  BY DEF Known, Sound
<1>2. co.token = Nobody
  BY <1>1 DEF Inv, Settled, Coherent
<1>3. co.token # q
  BY <1>2, CoordinatorAssumption
<1> QED
  BY <1>3 DEF Known, Sound

LEMMA InstallStep == ASSUME Inv, NEW p \in Procs, Install(p) PROVE Inv'
<1>1. /\ alive[p] /\ step[p] = "storing" /\ Goes(p, "protecting")
      /\ IF call[p] = "batch" THEN Release(p, "write") ELSE UNCHANGED co
      /\ disk' = disk \cup {blob[p]}
      /\ alive' = alive /\ pending' = pending /\ retained' = retained
      /\ found' = found /\ imported' = imported /\ used' = used
  BY DEF Install, At, rest
<1>2. HoldsStay(p) /\ (Known => call[p] \in Guarded /\ <<p, GuardOf(p)'>> \in co'.guards)
  BY <1>1, WorkerLeaves DEF Steps, InUse
<1>3. Becomes(p, call[p], "protecting", blob[p]) /\ call[p] \in Calls /\ blob[p] \in Blobs
  BY <1>1 DEF Goes, Inv, Typed
<1>4. /\ call' \in [Procs -> Calls] /\ step' \in [Procs -> Steps] /\ blob' \in [Procs -> Blobs]
      /\ call'[p] = call[p] /\ step'[p] = "protecting" /\ blob'[p] = blob[p]
      /\ \A q \in Procs \ {p} :
           call'[q] = call[q] /\ step'[q] = step[q] /\ blob'[q] = blob[q]
  BY <1>3, Moving DEF Inv, Steps, InUse
<1>5. Typed'
  BY <1>1, <1>3, <1>4 DEF Inv, Typed
<1>6. OthersStay(p) /\ StoreStays
  BY <1>1, <1>4 DEF OthersStay, StoreStays, Reachable
<1>7. Settled(co')
  BY <1>2 DEF HoldsStay, Serves
<1>8. ASSUME Known PROVE Known'
  <2>1. Quiet(co') /\ Kept' /\ \A q \in Procs \ {p} : Sound(q)'
    BY <1>2, <1>6, <1>8, OthersSound DEF Inv
  <2>2. Sound(p)'
    BY <1>1, <1>2, <1>4, <1>8 DEF Sound
  <2>3. \A q \in Procs : alive[q] => step[q] \notin {"scanning", "deleting"}
    BY <1>1, <1>8, InUseNotRun DEF InUse
  <2>4. Alone'
    BY <1>1, <1>4, <2>3 DEF Alone
  <2> QED
    BY <2>1, <2>2, <2>4 DEF Known
<1> QED
  BY <1>1, <1>5, <1>7, <1>8 DEF Inv

\* A process moves, everybody lives or is dead as before, no list changes.
LEMMA OnlyMoves ==
  ASSUME Inv, NEW p \in Procs, NEW c \in Calls, NEW s \in Steps, NEW d \in Blobs,
         Becomes(p, c, s, d), alive' = alive, found' = found
  PROVE  /\ OthersStay(p)
         /\ call' \in [Procs -> Calls] /\ step' \in [Procs -> Steps]
         /\ blob' \in [Procs -> Blobs]
         /\ call'[p] = c /\ step'[p] = s /\ blob'[p] = d
         /\ \A q \in Procs \ {p} :
              call'[q] = call[q] /\ step'[q] = step[q] /\ blob'[q] = blob[q]
<1>1. /\ call' \in [Procs -> Calls] /\ step' \in [Procs -> Steps]
      /\ blob' \in [Procs -> Blobs]
      /\ call'[p] = c /\ step'[p] = s /\ blob'[p] = d
      /\ \A q \in Procs \ {p} :
           call'[q] = call[q] /\ step'[q] = step[q] /\ blob'[q] = blob[q]
  BY Moving DEF Inv
<1> QED
  BY <1>1 DEF OthersStay

\* The answer of a command reaches a live caller, who still has its guard.
LEMMA Answering ==
  ASSUME Inv, NEW p \in Procs, NEW s \in {"stored", "over", "failed"},
         Answered(p, s), UNCHANGED co, alive' = alive, found' = found,
         step[p] \in {"protecting", "committing"}
  PROVE  /\ OthersStay(p)
         /\ call' \in [Procs -> Calls] /\ step' \in [Procs -> Steps]
         /\ blob' \in [Procs -> Blobs]
         /\ step'[p] \in {"stored", "over", "failed", "idle"}
         /\ \A q \in Procs \ {p} :
              call'[q] = call[q] /\ step'[q] = step[q] /\ blob'[q] = blob[q]
         /\ Known => Sound(p)'
<1>1. CASE alive[p]
  <2>1. Becomes(p, call[p], s, blob[p]) /\ Goes(p, s)
    BY <1>1 DEF Answered, Goes
  <2>2. call[p] \in Calls /\ blob[p] \in Blobs /\ s \in Steps
    BY DEF Inv, Typed, Steps, InUse
  <2>3. /\ OthersStay(p)
        /\ call' \in [Procs -> Calls] /\ step' \in [Procs -> Steps]
        /\ blob' \in [Procs -> Blobs]
        /\ call'[p] = call[p] /\ step'[p] = s
        /\ \A q \in Procs \ {p} :
             call'[q] = call[q] /\ step'[q] = step[q] /\ blob'[q] = blob[q]
    BY <2>1, <2>2, OnlyMoves
  <2>4. ASSUME Known PROVE Sound(p)'
    <3>1. call[p] \in Guarded /\ <<p, GuardOf(p)'>> \in co'.guards
      BY <1>1, <2>1, <2>2, <2>4, GuardStays DEF InUse
    <3> QED
      BY <2>3, <3>1 DEF Sound
  <2> QED
    BY <2>3, <2>4
<1>2. CASE ~alive[p]
  <2>1. Becomes(p, "none", "idle", NoBlob)
    BY <1>2 DEF Answered, Ends
  <2>2. /\ OthersStay(p)
        /\ call' \in [Procs -> Calls] /\ step' \in [Procs -> Steps]
        /\ blob' \in [Procs -> Blobs]
        /\ step'[p] = "idle"
        /\ \A q \in Procs \ {p} :
             call'[q] = call[q] /\ step'[q] = step[q] /\ blob'[q] = blob[q]
    BY <2>1, OnlyMoves DEF Calls, Steps, Blobs
  <2>3. Sound(p)'
    BY <2>2 DEF Sound, InUse
  <2> QED
    BY <2>2, <2>3
<1> QED
  BY <1>1, <1>2

LEMMA ProtectStep == ASSUME Inv, NEW p \in Procs, Protect(p) PROVE Inv'
<1>1. /\ step[p] = "protecting" /\ Answered(p, "stored")
      /\ pending' = pending \cup {blob[p]}
      /\ UNCHANGED co /\ alive' = alive /\ disk' = disk /\ retained' = retained
      /\ found' = found /\ imported' = imported /\ used' = used
  BY DEF Protect, rest, coordinator
<1>2. /\ OthersStay(p)
      /\ call' \in [Procs -> Calls] /\ step' \in [Procs -> Steps] /\ blob' \in [Procs -> Blobs]
      /\ step'[p] \in {"stored", "over", "failed", "idle"}
      /\ \A q \in Procs \ {p} :
           call'[q] = call[q] /\ step'[q] = step[q] /\ blob'[q] = blob[q]
      /\ Known => Sound(p)'
  BY <1>1, Answering
<1>3. Typed'
  BY <1>1, <1>2 DEF Inv, Typed
<1>4. ASSUME Known PROVE Known'
  <2>1. \A q \in Procs : alive[q] => step[q] \notin {"scanning", "deleting"}
    BY <1>1, <1>4 DEF Known, Alone
  <2>2. blob[p] \in disk
    BY <1>1, <1>4 DEF Known, Sound
  <2>3. Kept'
    BY <1>1, <1>4, <2>2 DEF Known, Kept, Reachable
  <2>4. ASSUME NEW q \in Procs \ {p} PROVE Sound(q)'
    <3>1. Sound(q) /\ call'[q] = call[q] /\ step'[q] = step[q] /\ blob'[q] = blob[q]
      BY <1>2, <1>4 DEF Known
    <3>2. GuardOf(q)' = GuardOf(q)
      BY <3>1 DEF GuardOf
    <3> QED
      BY <1>1, <2>1, <3>1, <3>2 DEF Sound
  <2>5. Alone'
    BY <1>1, <1>2, <2>1 DEF Alone
  <2> QED
    BY <1>1, <1>2, <1>4, <2>3, <2>4, <2>5 DEF Known, Quiet
<1> QED
  BY <1>1, <1>3, <1>4 DEF Inv, Settled, Coherent

LEMMA CommitStep == ASSUME Inv, NEW p \in Procs, Commit(p) PROVE Inv'
<1>1. /\ step[p] = "committing"
      /\ UNCHANGED co /\ alive' = alive /\ disk' = disk
      /\ found' = found /\ imported' = imported /\ used' = used
  BY DEF Commit, rest, coordinator
<1>2. PICK s \in {"stored", "over", "failed"} : Answered(p, s)
  BY DEF Commit
<1>3. /\ OthersStay(p)
      /\ call' \in [Procs -> Calls] /\ step' \in [Procs -> Steps] /\ blob' \in [Procs -> Blobs]
      /\ step'[p] \in {"stored", "over", "failed", "idle"}
      /\ Known => Sound(p)'
  BY <1>1, <1>2, Answering
<1>4. /\ Reachable' \subseteq Reachable
      /\ pending' \in SUBSET Blobs /\ retained' \in SUBSET Blobs
  <2>1. CASE blob[p] \in Reachable
    BY <2>1 DEF Commit, Reachable, Inv, Typed
  <2>2. CASE blob[p] \notin Reachable
    BY <2>2 DEF Commit, Reachable, Inv, Typed
  <2> QED
    BY <2>1, <2>2
<1>5. Typed' /\ StoreStays
  BY <1>1, <1>3, <1>4 DEF Inv, Typed, StoreStays
<1>6. HoldsStay(p)
  BY <1>1, Unmoved, SameStay DEF Inv
<1> QED
  BY <1>1, <1>3, <1>5, <1>6, Stepping

LEMMA VerifyStep == ASSUME Inv, NEW p \in Procs, Verify(p) PROVE Inv'
<1>1. /\ UNCHANGED co /\ alive' = alive
      /\ disk' = disk /\ pending' = pending /\ retained' = retained
      /\ found' = found /\ imported' = imported /\ used' = used
  BY DEF Verify, coordinator, store
<1>2. HoldsStay(p)
  BY <1>1, Unmoved, SameStay DEF Inv
<1>3. /\ OthersStay(p)
      /\ call' \in [Procs -> Calls] /\ step' \in [Procs -> Steps] /\ blob' \in [Procs -> Blobs]
      /\ step'[p] \in {"importing", "idle"}
  <2>1. CASE Goes(p, "importing")
    <3>1. call[p] \in Calls /\ blob[p] \in Blobs
      BY DEF Inv, Typed
    <3> QED
      BY <1>1, <2>1, <3>1, OnlyMoves DEF Goes, Steps
  <2>2. CASE Ends(p)
    BY <1>1, <2>2, OnlyMoves DEF Ends, Calls, Blobs, Steps
  <2> QED
    BY <2>1, <2>2 DEF Verify
<1>4. Typed' /\ StoreStays
  BY <1>1, <1>3 DEF Inv, Typed, StoreStays, Reachable
<1>5. Sound(p)'
  BY <1>3 DEF Sound, InUse
<1> QED
  BY <1>1, <1>2, <1>3, <1>4, <1>5, Stepping

LEMMA CommitImportStep == ASSUME Inv, NEW p \in Procs, CommitImport(p) PROVE Inv'
<1>1. /\ UNCHANGED co /\ alive' = alive /\ disk' = disk
      /\ pending' = pending \ {blob[p]} /\ retained' = retained \cup {blob[p]}
      /\ imported' = imported \cup {blob[p]}
      /\ found' = found /\ used' = used
      /\ Becomes(p, "none", "idle", NoBlob)
  BY DEF CommitImport, coordinator, Ends
<1>2. HoldsStay(p)
  BY <1>1, Unmoved, SameStay DEF Inv
<1>3. /\ OthersStay(p)
      /\ call' \in [Procs -> Calls] /\ step' \in [Procs -> Steps] /\ blob' \in [Procs -> Blobs]
      /\ step'[p] = "idle"
  BY <1>1, OnlyMoves DEF Calls, Steps, Blobs
<1>4. blob[p] \in Blobs
  BY DEF Inv, Typed
<1>5. Typed' /\ StoreStays
  BY <1>1, <1>3, <1>4 DEF Inv, Typed, StoreStays, Reachable
<1>6. Sound(p)'
  BY <1>3 DEF Sound, InUse
<1> QED
  BY <1>1, <1>2, <1>3, <1>5, <1>6, Stepping

-------------------------------------------------------------------------------
(* A collection.                                                                *)

\* A process that lives no longer than before.
LEMMA Returning ==
  ASSUME Inv, NEW p \in Procs, alive[p], Return(p), found' = found
  PROVE  /\ OthersStay(p)
         /\ alive' \in [Procs -> BOOLEAN]
         /\ call' \in [Procs -> Calls] /\ step' \in [Procs -> Steps]
         /\ blob' \in [Procs -> Blobs]
         /\ step'[p] = "idle"
<1>1. /\ alive \in [Procs -> BOOLEAN] /\ (p \in Callers) \in BOOLEAN
      /\ alive' = [alive EXCEPT ![p] = p \in Callers]
  BY DEF Inv, Typed, Return
<1>2. alive' \in [Procs -> BOOLEAN] /\ \A q \in Procs \ {p} : alive'[q] = alive[q]
  BY <1>1
<1>3. Becomes(p, "none", "idle", NoBlob)
  BY DEF Return, Ends
<1>4. /\ call' \in [Procs -> Calls] /\ step' \in [Procs -> Steps] /\ blob' \in [Procs -> Blobs]
      /\ step'[p] = "idle"
      /\ \A q \in Procs \ {p} :
           call'[q] = call[q] /\ step'[q] = step[q] /\ blob'[q] = blob[q]
  BY <1>3, Moving DEF Inv, Calls, Steps, Blobs
<1> QED
  BY <1>2, <1>4 DEF OthersStay

LEMMA BeginAnsweredStep == ASSUME Inv, NEW p \in Procs, BeginAnswered(p) PROVE Inv'
<1>1. /\ alive[p] /\ step[p] = "waiting" /\ Read(p)
      /\ disk' = disk /\ pending' = pending /\ retained' = retained
      /\ found' = found /\ imported' = imported /\ used' = used
  BY DEF BeginAnswered, At, store, rest
<1>2. Serves(co, co') /\ SameHolds(co, co')
  BY <1>1, Reading DEF Inv
<1>3. HoldsStay(p)
  BY <1>2, SameStay
<1>4. StoreStays
  BY <1>1 DEF StoreStays, Reachable
<1>5. CASE co.answer[p] = "granted"
  <2>1. Becomes(p, call[p], "listing", blob[p]) /\ alive' = alive
    BY <1>5 DEF BeginAnswered, Goes
  <2>2. call[p] \in Calls /\ blob[p] \in Blobs
    BY DEF Inv, Typed
  <2>3. /\ OthersStay(p)
        /\ call' \in [Procs -> Calls] /\ step' \in [Procs -> Steps]
        /\ blob' \in [Procs -> Blobs]
        /\ step'[p] = "listing"
    BY <1>1, <2>1, <2>2, OnlyMoves DEF Steps
  <2>4. Typed'
    BY <1>1, <2>1, <2>3 DEF Inv, Typed
  <2>5. ASSUME Known PROVE co'.token = p
    BY <1>1, <1>2, <1>5, <2>5 DEF Known, Sound, SameHolds
  <2>6. ASSUME Known PROVE Sound(p)'
    BY <2>3, <2>5, <2>6 DEF Sound, InUse
  <2> QED
    BY <1>1, <1>3, <1>4, <2>3, <2>4, <2>6, Stepping
<1>6. CASE co.answer[p] # "granted"
  <2>1. Return(p)
    BY <1>6 DEF BeginAnswered
  <2>2. /\ OthersStay(p) /\ alive' \in [Procs -> BOOLEAN]
        /\ call' \in [Procs -> Calls] /\ step' \in [Procs -> Steps]
        /\ blob' \in [Procs -> Blobs]
        /\ step'[p] = "idle"
    BY <1>1, <2>1, Returning
  <2>3. Typed'
    BY <1>1, <2>2 DEF Inv, Typed
  <2>4. Sound(p)'
    BY <2>2 DEF Sound, InUse
  <2> QED
    BY <1>1, <1>3, <1>4, <2>2, <2>3, <2>4, Stepping
<1> QED
  BY <1>5, <1>6

LEMMA ListStep == ASSUME Inv, NEW p \in Procs, List(p) PROVE Inv'
<1>1. /\ alive[p] /\ step[p] = "listing" /\ Goes(p, "scanning")
      /\ \A q \in Procs : ~alive[q] => step[q] = "idle"
      /\ found' = [found EXCEPT ![p] = Reachable]
      /\ UNCHANGED co /\ alive' = alive
      /\ disk' = disk /\ pending' = pending /\ retained' = retained
      /\ imported' = imported /\ used' = used
  BY DEF List, At, coordinator, store
<1>2. /\ Becomes(p, call[p], "scanning", blob[p])
      /\ call[p] \in Calls /\ blob[p] \in Blobs
  BY <1>1 DEF Goes, Inv, Typed
<1>3. /\ call' \in [Procs -> Calls] /\ step' \in [Procs -> Steps] /\ blob' \in [Procs -> Blobs]
      /\ step'[p] = "scanning"
      /\ \A q \in Procs \ {p} :
           call'[q] = call[q] /\ step'[q] = step[q] /\ blob'[q] = blob[q]
  BY <1>2, Moving DEF Inv, Steps
<1>4. Reachable \in SUBSET Blobs /\ found \in [Procs -> SUBSET Blobs]
  BY DEF Inv, Typed, Reachable
<1>5. /\ found' \in [Procs -> SUBSET Blobs] /\ found'[p] = Reachable
      /\ \A q \in Procs \ {p} : found'[q] = found[q]
  BY <1>1, <1>4
<1>6. Typed'
  BY <1>1, <1>3, <1>5 DEF Inv, Typed
<1>7. OthersStay(p) /\ StoreStays
  BY <1>1, <1>3, <1>5 DEF OthersStay, StoreStays, Reachable
<1>8. HoldsStay(p)
  BY <1>1, Unmoved, SameStay DEF Inv
<1>9. ASSUME Known PROVE Known'
  <2>1. Quiet(co') /\ Kept' /\ \A q \in Procs \ {p} : Sound(q)'
    BY <1>7, <1>8, <1>9, OthersSound DEF Inv
  <2>2. co.token = p
    BY <1>1, <1>9 DEF Known, Sound
  <2>3. Sound(p)'
    BY <1>1, <1>3, <1>5, <2>2 DEF Sound, InUse, Reachable
  <2>4. \A q \in Procs : step[q] # "protecting"
    BY <1>1, <1>9, InUseNotRun DEF InUse
  <2>5. Alone'
    BY <1>3, <2>4 DEF Alone
  <2> QED
    BY <2>1, <2>3, <2>5 DEF Known
<1> QED
  BY <1>1, <1>6, <1>9 DEF Inv, Settled, Coherent

LEMMA ScanStep == ASSUME Inv, NEW p \in Procs, Scan(p) PROVE Inv'
<1>1. /\ alive[p] /\ step[p] = "scanning" /\ Goes(p, "deleting")
      /\ found' = [found EXCEPT ![p] = disk \ found[p]]
      /\ UNCHANGED co /\ alive' = alive
      /\ disk' = disk /\ pending' = pending /\ retained' = retained
      /\ imported' = imported /\ used' = used
  BY DEF Scan, At, coordinator, store
<1>2. /\ Becomes(p, call[p], "deleting", blob[p])
      /\ call[p] \in Calls /\ blob[p] \in Blobs
  BY <1>1 DEF Goes, Inv, Typed
<1>3. /\ call' \in [Procs -> Calls] /\ step' \in [Procs -> Steps] /\ blob' \in [Procs -> Blobs]
      /\ step'[p] = "deleting"
      /\ \A q \in Procs \ {p} :
           call'[q] = call[q] /\ step'[q] = step[q] /\ blob'[q] = blob[q]
  BY <1>2, Moving DEF Inv, Steps
<1>4. disk \ found[p] \in SUBSET Blobs /\ found \in [Procs -> SUBSET Blobs]
  BY DEF Inv, Typed
<1>5. /\ found' \in [Procs -> SUBSET Blobs] /\ found'[p] = disk \ found[p]
      /\ \A q \in Procs \ {p} : found'[q] = found[q]
  BY <1>1, <1>4
<1>6. Typed'
  BY <1>1, <1>3, <1>5 DEF Inv, Typed
<1>7. OthersStay(p) /\ StoreStays
  BY <1>1, <1>3, <1>5 DEF OthersStay, StoreStays, Reachable
<1>8. HoldsStay(p)
  BY <1>1, Unmoved, SameStay DEF Inv
<1>9. ASSUME Known PROVE Sound(p)'
  <2>1. co.token = p /\ Reachable \ imported \subseteq found[p]
    BY <1>1, <1>9 DEF Known, Sound
  <2>2. found'[p] \cap Reachable' \subseteq imported'
    BY <1>1, <1>5, <2>1 DEF Reachable
  <2> QED
    BY <1>1, <1>3, <2>1, <2>2 DEF Sound, InUse
<1> QED
  BY <1>1, <1>3, <1>6, <1>7, <1>8, <1>9, Stepping

LEMMA DeleteStep == ASSUME Inv, NEW p \in Procs, NEW d \in Digests, Delete(p, d) PROVE Inv'
<1>1. /\ alive[p] /\ step[p] = "deleting" /\ d \in found[p]
      /\ disk' = disk \ {d}
      /\ found' = [found EXCEPT ![p] = found[p] \ {d}]
      /\ UNCHANGED co /\ alive' = alive /\ call' = call /\ step' = step /\ blob' = blob
      /\ pending' = pending /\ retained' = retained
      /\ imported' = imported /\ used' = used
  BY DEF Delete, At, coordinator, clients
<1>2. found[p] \ {d} \in SUBSET Blobs /\ found \in [Procs -> SUBSET Blobs]
  BY DEF Inv, Typed
<1>3. /\ found' \in [Procs -> SUBSET Blobs] /\ found'[p] = found[p] \ {d}
      /\ \A q \in Procs \ {p} : found'[q] = found[q]
  BY <1>1, <1>2
<1>4. Typed'
  BY <1>1, <1>3 DEF Inv, Typed
<1>5. ASSUME Known PROVE Known'
  <2>1. found[p] \cap Reachable \subseteq imported
    BY <1>1, <1>5 DEF Known, Sound
  <2>2. Kept'
    BY <1>1, <1>5, <2>1 DEF Known, Kept, Reachable
  <2>3. \A q \in Procs : step[q] # "protecting"
    BY <1>1, <1>5 DEF Known, Alone
  <2>4. \A q \in Procs : alive[q] => step[q] # "opening"
    BY <1>1, <1>5, InUseNotRun DEF InUse
  <2>5. ASSUME NEW q \in Procs PROVE Sound(q)'
    <3>1. Sound(q)
      BY <1>5 DEF Known
    <3>2. GuardOf(q)' = GuardOf(q)
      BY <1>1 DEF GuardOf
    <3>3. found'[q] \subseteq found[q]
      BY <1>3
    <3>4. alive[q] /\ step[q] = "scanning" => found'[q] = found[q]
      BY <1>1, <1>3
    <3> QED
      BY <1>1, <2>3, <2>4, <3>1, <3>2, <3>3, <3>4 DEF Sound, Reachable
  <2>6. Alone'
    BY <1>1, <1>5 DEF Known, Alone
  <2> QED
    BY <1>1, <1>5, <2>2, <2>5, <2>6 DEF Known
<1> QED
  BY <1>1, <1>4, <1>5 DEF Inv

LEMMA EndCollectionStep == ASSUME Inv, NEW p \in Procs, EndCollection(p) PROVE Inv'
<1>1. /\ alive[p] /\ EndGc(p) /\ Return(p)
      /\ disk' = disk /\ pending' = pending /\ retained' = retained
      /\ found' = found /\ imported' = imported /\ used' = used
  BY DEF EndCollection, At, store, rest
<1>2. HoldsStay(p)
  BY <1>1, EndStay DEF Inv
<1>3. /\ OthersStay(p) /\ alive' \in [Procs -> BOOLEAN]
      /\ call' \in [Procs -> Calls] /\ step' \in [Procs -> Steps] /\ blob' \in [Procs -> Blobs]
      /\ step'[p] = "idle"
  BY <1>1, Returning
<1>4. Typed' /\ StoreStays
  BY <1>1, <1>3 DEF Inv, Typed, StoreStays, Reachable
<1>5. Sound(p)'
  BY <1>3 DEF Sound, InUse
<1> QED
  BY <1>1, <1>2, <1>3, <1>4, <1>5, Stepping

-------------------------------------------------------------------------------
(* Faults, compactions and what the coordinator does by itself.                 *)

LEMMA Counting ==
  ASSUME Inv, NEW n \in Nat, Fault(n)
  PROVE  /\ used' \in [compactions : Nat, crashes : Nat, faults : Nat]
         /\ used'.crashes = used.crashes + n
<1>1. /\ used \in [compactions : Nat, crashes : Nat, faults : Nat]
      /\ used' = [used EXCEPT !.faults = used.faults + 1, !.crashes = used.crashes + n]
  BY DEF Inv, Typed, Fault
<1>2. used.faults + 1 \in Nat /\ used.crashes + n \in Nat
  BY <1>1
<1> QED
  BY <1>1, <1>2

LEMMA FailsStep == ASSUME Inv, NEW p \in Procs, Fails(p) PROVE Inv'
<1>1. /\ Fault(0) /\ UNCHANGED co /\ alive' = alive
      /\ disk' = disk /\ pending' = pending /\ retained' = retained /\ imported' = imported
  BY DEF Fails, coordinator, store
<1>2. /\ used' \in [compactions : Nat, crashes : Nat, faults : Nat]
      /\ used'.crashes = used.crashes
  BY <1>1, Counting DEF Inv, Typed
<1>3. HoldsStay(p)
  BY <1>1, Unmoved, SameStay DEF Inv
<1>4. StoreStays
  BY <1>1 DEF StoreStays, Reachable
<1>5. call[p] \in Calls /\ blob[p] \in Blobs
  BY DEF Inv, Typed
<1>6. CASE alive[p] /\ step[p] \in InUse /\ Goes(p, "failed") /\ UNCHANGED found
  <2>1. /\ OthersStay(p)
        /\ call' \in [Procs -> Calls] /\ step' \in [Procs -> Steps]
        /\ blob' \in [Procs -> Blobs]
        /\ step'[p] = "failed"
    BY <1>1, <1>5, <1>6, OnlyMoves DEF Goes, Steps, InUse
  <2>2. Typed'
    BY <1>1, <1>2, <1>6, <2>1 DEF Inv, Typed
  <2>3. ASSUME Known PROVE Sound(p)'
    <3>1. call[p] \in Guarded /\ <<p, GuardOf(p)'>> \in co'.guards
      BY <1>1, <1>6, <2>3, GuardStays DEF Steps, InUse
    <3>2. call'[p] = call[p]
      BY <1>1, <1>5, <1>6, OnlyMoves DEF Goes, Steps, InUse
    <3> QED
      BY <2>1, <3>1, <3>2 DEF Sound
  <2> QED
    BY <1>2, <1>3, <1>4, <2>1, <2>2, <2>3, Stepping
<1>7. CASE Ends(p) /\ UNCHANGED found
  <2>1. /\ OthersStay(p)
        /\ call' \in [Procs -> Calls] /\ step' \in [Procs -> Steps]
        /\ blob' \in [Procs -> Blobs]
        /\ step'[p] = "idle"
    BY <1>1, <1>7, OnlyMoves DEF Ends, Calls, Steps, Blobs
  <2>2. Typed'
    BY <1>1, <1>2, <1>7, <2>1 DEF Inv, Typed
  <2>3. Sound(p)'
    BY <2>1 DEF Sound, InUse
  <2> QED
    BY <1>2, <1>3, <1>4, <2>1, <2>2, <2>3, Stepping
<1>8. CASE Goes(p, "ending") /\ found' = [found EXCEPT ![p] = {}]
  <2>1. /\ call' \in [Procs -> Calls] /\ step' \in [Procs -> Steps]
        /\ blob' \in [Procs -> Blobs]
        /\ step'[p] = "ending"
        /\ \A q \in Procs \ {p} :
             call'[q] = call[q] /\ step'[q] = step[q] /\ blob'[q] = blob[q]
    BY <1>5, <1>8, Moving DEF Inv, Goes, Steps
  <2>2. found \in [Procs -> SUBSET Blobs]
    BY DEF Inv, Typed
  <2>3. found' \in [Procs -> SUBSET Blobs] /\ \A q \in Procs \ {p} : found'[q] = found[q]
    BY <1>8, <2>2
  <2>4. Typed' /\ OthersStay(p)
    BY <1>1, <1>2, <2>1, <2>3 DEF Inv, Typed, OthersStay
  <2>5. Sound(p)'
    BY <2>1 DEF Sound, InUse
  <2> QED
    BY <1>2, <1>3, <1>4, <2>1, <2>4, <2>5, Stepping
<1> QED
  BY <1>6, <1>7, <1>8 DEF Fails, At, InUse

LEMMA ExpireStep == ASSUME Inv, NEW d \in Digests, Expire(d) PROVE Inv'
<1>1. /\ Fault(0) /\ UNCHANGED co /\ alive' = alive /\ call' = call /\ step' = step
      /\ blob' = blob /\ disk' = disk /\ pending' = pending \ {d} /\ retained' = retained
      /\ found' = found /\ imported' = imported
  BY DEF Expire, coordinator, clients
<1>2. /\ used' \in [compactions : Nat, crashes : Nat, faults : Nat]
      /\ used'.crashes = used.crashes
  BY <1>1, Counting DEF Inv, Typed
<1>3. Typed' /\ OthersStay(Nobody) /\ StoreStays
  BY <1>1, <1>2 DEF Inv, Typed, OthersStay, StoreStays, Reachable
<1>4. HoldsStay(Nobody)
  BY <1>1, Unmoved, SameStay DEF Inv
<1> QED
  BY <1>2, <1>3, <1>4, Stepping, CoordinatorAssumption

LEMMA CompactStep == ASSUME Inv, NEW d \in Digests, Compact(d) PROVE Inv'
<1>1. /\ disk' = disk /\ pending' = pending /\ retained' = retained \ {d}
      /\ found' = found /\ imported' = imported
      /\ used' = [used EXCEPT !.compactions = used.compactions + 1]
  BY DEF Compact
<1>2. /\ used' \in [compactions : Nat, crashes : Nat, faults : Nat]
      /\ used'.crashes = used.crashes
  BY <1>1 DEF Inv, Typed
<1>3. StoreStays
  BY <1>1 DEF StoreStays, Reachable
<1>4. CASE UNCHANGED <<coordinator, clients>>
  <2>1. Typed' /\ OthersStay(Nobody)
    BY <1>1, <1>2, <1>4 DEF Inv, Typed, OthersStay, coordinator, clients
  <2>2. HoldsStay(Nobody)
    BY <1>4, Unmoved, SameStay DEF Inv, coordinator
  <2> QED
    BY <1>2, <1>3, <2>1, <2>2, Stepping, CoordinatorAssumption
<1>5. ASSUME NEW t \in Tasks, StartTask(t), Becomes(t, "gc", "starting", NoBlob) PROVE Inv'
  <2>1. t \in Procs
    BY AttachmentsAssumption
  <2>2. HoldsStay(t)
    BY <1>5, <2>1, StartingTask, SameStay DEF Inv
  <2>3. /\ call' \in [Procs -> Calls] /\ step' \in [Procs -> Steps]
        /\ blob' \in [Procs -> Blobs]
        /\ step'[t] = "starting"
        /\ \A q \in Procs \ {t} :
             call'[q] = call[q] /\ step'[q] = step[q] /\ blob'[q] = blob[q]
    BY <1>5, <2>1, Moving DEF Inv, Calls, Steps, Blobs
  <2>4. alive' \in [Procs -> BOOLEAN] /\ \A q \in Procs \ {t} : alive'[q] = alive[q]
    BY <1>5 DEF StartTask, Inv, Typed
  <2>5. Typed' /\ OthersStay(t)
    BY <1>1, <1>2, <2>3, <2>4 DEF Inv, Typed, OthersStay
  <2>6. Sound(t)'
    BY <2>3 DEF Sound, InUse
  <2> QED
    BY <1>2, <1>3, <2>2, <2>3, <2>5, <2>6, Stepping
<1> QED
  BY <1>4, <1>5 DEF Compact

LEMMA StartCloseStep == ASSUME Inv, NEW p \in Procs, StartClose(p) PROVE Inv'
<1>1. /\ Becomes(p, "close", "closing", NoBlob) /\ BeginClose(p)
      /\ disk' = disk /\ pending' = pending /\ retained' = retained
      /\ found' = found /\ imported' = imported /\ used' = used
  BY DEF StartClose, Starts, store, rest
<1>2. alive' = alive
  BY <1>1 DEF BeginClose
<1>3. HoldsStay(p)
  BY <1>1, BeginningClose, SameStay DEF Inv
<1>4. /\ OthersStay(p)
      /\ call' \in [Procs -> Calls] /\ step' \in [Procs -> Steps] /\ blob' \in [Procs -> Blobs]
      /\ step'[p] = "closing"
  BY <1>1, <1>2, OnlyMoves DEF Calls, Steps, Blobs
<1>5. Typed' /\ StoreStays
  BY <1>1, <1>2, <1>4 DEF Inv, Typed, StoreStays, Reachable
<1>6. Sound(p)'
  BY <1>4 DEF Sound, InUse
<1> QED
  BY <1>1, <1>3, <1>4, <1>5, <1>6, Stepping

LEMMA KillStep == ASSUME Inv, NEW p \in Procs, Kill(p) PROVE Inv'
<1>1. /\ alive' = [alive EXCEPT ![p] = FALSE] /\ found' = [found EXCEPT ![p] = {}]
      /\ UNCHANGED co /\ imported' = imported
      /\ disk' = disk /\ pending' = pending /\ retained' = retained
  BY DEF Kill, store
<1>2. /\ used' \in [compactions : Nat, crashes : Nat, faults : Nat]
      /\ used'.crashes = used.crashes
  <2>1. CASE used' = used
    BY <2>1 DEF Inv, Typed
  <2>2. CASE Fault(0)
    BY <2>2, Counting DEF Inv, Typed
  <2> QED
    BY <2>1, <2>2 DEF Kill
<1>3. alive \in [Procs -> BOOLEAN] /\ found \in [Procs -> SUBSET Blobs]
  BY DEF Inv, Typed
<1>4. /\ alive' \in [Procs -> BOOLEAN] /\ ~alive'[p] /\ found' \in [Procs -> SUBSET Blobs]
      /\ \A q \in Procs \ {p} : alive'[q] = alive[q] /\ found'[q] = found[q]
  BY <1>1, <1>3
<1>5. HoldsStay(p)
  BY <1>1, Unmoved, SameStay DEF Inv
<1>6. StoreStays
  BY <1>1 DEF StoreStays, Reachable
<1>7. CASE Ends(p)
  <2>1. /\ call' \in [Procs -> Calls] /\ step' \in [Procs -> Steps]
        /\ blob' \in [Procs -> Blobs]
        /\ step'[p] = "idle"
        /\ \A q \in Procs \ {p} :
             call'[q] = call[q] /\ step'[q] = step[q] /\ blob'[q] = blob[q]
    BY <1>7, Moving DEF Inv, Ends, Calls, Steps, Blobs
  <2>2. Typed' /\ OthersStay(p)
    BY <1>1, <1>2, <1>4, <2>1 DEF Inv, Typed, OthersStay
  <2>3. Sound(p)'
    BY <1>4, <2>1 DEF Sound
  <2> QED
    BY <1>2, <1>4, <1>5, <1>6, <2>1, <2>2, <2>3, Stepping
<1>8. CASE UNCHANGED clients
  <2>1. call' = call /\ step' = step /\ blob' = blob
    BY <1>8 DEF clients
  <2>2. Typed' /\ OthersStay(p)
    BY <1>1, <1>2, <1>4, <2>1 DEF Inv, Typed, OthersStay
  <2>3. ASSUME Known PROVE Sound(p)'
    BY <1>1, <1>4, <2>1, <2>3 DEF Sound, Known
  <2> QED
    BY <1>2, <1>4, <1>5, <1>6, <2>1, <2>2, <2>3, Stepping
<1> QED
  BY <1>7, <1>8 DEF Kill

LEMMA CrashStep == ASSUME Inv, Crash PROVE Inv'
<1>1. /\ Fault(1) /\ CoordinatorDown
      /\ alive' = alive /\ call' = call /\ step' = step /\ blob' = blob
      /\ disk' = disk /\ pending' = pending /\ retained' = retained /\ found' = found
  BY DEF Crash, CoordinatorDown, clients, store
<1>2. /\ used' \in [compactions : Nat, crashes : Nat, faults : Nat]
      /\ used'.crashes = used.crashes + 1 /\ used.crashes \in Nat
  BY <1>1, Counting DEF Inv, Typed
<1>3. Typed'
  BY <1>1, <1>2 DEF Inv, Typed
<1>4. Settled(co')
  BY <1>1, Restarting DEF Inv
<1>5. used'.crashes # 0
  BY <1>2
<1> QED
  BY <1>3, <1>4, <1>5 DEF Inv

\* The coordinator acts, nobody moves.
LEMMA Alive ==
  ASSUME Inv, HoldsStay(Nobody), UNCHANGED <<alive, clients, store, rest>>
  PROVE  Inv'
<1>1. /\ alive' = alive /\ call' = call /\ step' = step /\ blob' = blob
      /\ disk' = disk /\ pending' = pending /\ retained' = retained
      /\ found' = found /\ imported' = imported /\ used' = used
  BY DEF clients, store, rest
<1>2. Typed' /\ OthersStay(Nobody) /\ StoreStays
  BY <1>1 DEF Inv, Typed, OthersStay, StoreStays, Reachable
<1> QED
  BY <1>1, <1>2, Stepping, CoordinatorAssumption

LEMMA HandleStep == ASSUME Inv, Handle PROVE Inv'
<1>1. UNCHANGED <<clients, store, rest>>
  BY DEF Handle
<1>2. ASSUME NEW g \in co.guards, GuardDown(g) PROVE Inv'
  <2>1. ~alive[g[1]] /\ alive' = alive
    BY <1>2 DEF GuardDown
  <2>2. /\ Serves(co, co')
        /\ co'.guards = co.guards \ {g}
        /\ co.token # Nobody \/ co'.guards # {} \/ co.guards = {} => co'.token = co.token
    BY <1>2, Leaving DEF GuardDown, Inv
  <2>3. ASSUME NEW q \in Procs, NEW k \in Kinds, alive[q], <<q, k>> \in co.guards
        PROVE  <<q, k>> \in co'.guards
    <3>1. <<q, k>> # g
      BY <2>1, <2>3
    <3> QED
      BY <2>2, <2>3, <3>1
  <2>4. HoldsStay(Nobody)
    BY <2>2, <2>3, CoordinatorAssumption DEF HoldsStay
  <2> QED
    BY <1>1, <2>1, <2>4, Alive
<1>3. CASE GcCallerDown
  <2>1. /\ Serves(co, co')
        /\ co'.guards = co.guards
        /\ \/ co'.token = co.token
           \/ co.token \in Procs /\ ~alive[co.token]
    BY <1>3, CallerDying DEF Inv
  <2>2. HoldsStay(Nobody)
    BY <2>1 DEF HoldsStay
  <2> QED
    BY <1>1, <1>3, <2>2, Alive DEF GcCallerDown
<1>4. ASSUME NEW t \in Tasks, TaskDown(t) PROVE Inv'
  <2>1. HoldsStay(Nobody)
    BY <1>4, TaskDying, SameStay DEF Inv
  <2> QED
    BY <1>1, <1>4, <2>1, Alive DEF TaskDown
<1> QED
  BY <1>2, <1>3, <1>4 DEF Handle

LEMMA LimitStep == ASSUME Inv, Limit PROVE Inv'
<1>1. UpdateLimits /\ UNCHANGED <<alive, clients, store, rest>>
  BY DEF Limit, UpdateLimits
<1>2. HoldsStay(Nobody)
  BY <1>1, Limiting, SameStay DEF Inv
<1> QED
  BY <1>1, <1>2, Alive

LEMMA StutterStep == ASSUME Inv, UNCHANGED vars PROVE Inv'
<1>1. UNCHANGED co /\ UNCHANGED <<alive, clients, store, rest>>
  BY DEF vars, coordinator
<1>2. HoldsStay(Nobody)
  BY <1>1, Unmoved, SameStay DEF Inv
<1> QED
  BY <1>1, <1>2, Alive

-------------------------------------------------------------------------------
(* The theorems.                                                                *)

LEMMA InitInv == Init => Inv
<1> SUFFICES ASSUME Init PROVE Inv
  OBVIOUS
<1> USE CoordinatorAssumption
<1> DEFINE none == [p \in Procs |-> "none"]
<1>1. PICK l \in Limits : co = Started(l, none)
  BY DEF Init, CoInit
<1>2. none \in [Procs -> Answers] /\ \A p \in Procs : none[p] = "none"
  BY DEF Answers
<1> HIDE DEF none
<1>3. /\ co \in CoState /\ co.guards = {} /\ co.token = Nobody /\ co.waiter = Nobody
      /\ ~co.barrier /\ co.caller = Nobody /\ co.followUp = Nobody /\ co.answer = none
  BY <1>1, <1>2 DEF Started, CoState
<1>4. Settled(co) /\ Quiet(co)
  BY <1>2, <1>3 DEF Settled, Coherent, Quiet
<1>5. Typed
  <2>1. alive \in [Procs -> BOOLEAN]
    BY DEF Init, CoInit
  <2>2. call \in [Procs -> Calls] /\ step \in [Procs -> Steps] /\ blob \in [Procs -> Blobs]
    BY DEF Init, Calls, Steps, Blobs
  <2> QED
    BY <2>1, <2>2 DEF Init, Typed
<1>6. \A p \in Procs : step[p] = "idle"
  BY DEF Init
<1>7. Alone /\ \A p \in Procs : Sound(p)
  BY <1>6 DEF Alone, Sound, InUse
<1>8. Kept
  BY DEF Init, Kept, Reachable
<1> QED
  BY <1>4, <1>5, <1>7, <1>8 DEF Inv, Known

LEMMA NextKeeps == Inv /\ [Next]_vars => Inv'
<1> SUFFICES ASSUME Inv, [Next]_vars PROVE Inv'
  OBVIOUS
<1>1. ASSUME NEW p \in Procs, Continue(p) PROVE Inv'
  <2>1. CASE StartWorker(p) \/ Install(p) \/ Protect(p) \/ Finish(p)
    BY <2>1, StartWorkerStep, InstallStep, ProtectStep, FinishStep
  <2>2. CASE Check(p) \/ Commit(p)
    BY <2>2, CheckStep, CommitStep
  <2>3. CASE Resolve(p) \/ Open(p) \/ CloseRead(p)
    BY <2>3, ResolveStep, OpenStep, CloseReadStep
  <2>4. CASE Transfer(p) \/ Verify(p) \/ CommitImport(p)
    BY <2>4, TransferStep, VerifyStep, CommitImportStep
  <2>5. CASE BeginCollection(p) \/ BeginAnswered(p) \/ List(p)
    BY <2>5, BeginCollectionStep, BeginAnsweredStep, ListStep
  <2>6. CASE Scan(p) \/ EndCollection(p) \/ \E d \in Digests : Delete(p, d)
    BY <2>6, ScanStep, EndCollectionStep, DeleteStep
  <2>7. CASE CloseAnswer(p)
    BY <2>7, CloseAnswerStep
  <2> QED
    BY <1>1, <2>1, <2>2, <2>3, <2>4, <2>5, <2>6, <2>7 DEF Continue
<1>2. ASSUME NEW p \in Procs, Begin(p) PROVE Inv'
  <2>1. ASSUME NEW d \in Digests,
               \/ StartUpload(p, d) \/ StartBatch(p, d) \/ StartMutation(p, d)
               \/ StartRead(p, d) \/ Diff(p, d)
        PROVE  Inv'
    BY <2>1, StartUploadStep, StartBatchStep, StartMutationStep, StartReadStep, DiffStep
  <2>2. CASE BeginCollection(p) \/ StartClose(p)
    BY <2>2, BeginCollectionStep, StartCloseStep
  <2> QED
    BY <1>2, <2>1, <2>2 DEF Begin
<1>3. ASSUME NEW p \in Procs, StoreFails(p) \/ Fails(p) \/ Kill(p) PROVE Inv'
  BY <1>3, StoreFailsStep, FailsStep, KillStep
<1>4. ASSUME NEW d \in Digests, Compact(d) \/ Expire(d) PROVE Inv'
  BY <1>4, CompactStep, ExpireStep
<1>5. CASE Handle \/ Limit \/ Crash
  BY <1>5, HandleStep, LimitStep, CrashStep
<1>6. CASE UNCHANGED vars
  BY <1>6, StutterStep
<1> QED
  BY <1>1, <1>2, <1>3, <1>4, <1>5, <1>6 DEF Next

(* The invariant holds of every behaviour.                                      *)
THEOREM AttachmentsInvariant == Spec => []Inv
BY InitInv, NextKeeps, PTL DEF Spec

(* The coordinator's fields tell of one run and one queued call, and a call     *)
(* waits only for guards that are in use (attachment_coordinator.ex), for every *)
(* number of callers, faults and restarts.                                      *)
THEOREM RunIsOne == Spec => []OneRun
<1>1. Inv => OneRun
  <2> SUFFICES ASSUME Settled(co) PROVE OneRun
    BY DEF Inv
  <2>1. co.barrier \in BOOLEAN
    BY SettledFields DEF CoState
  <2>2. co.barrier = (co.caller # Nobody)
    BY <2>1 DEF Settled, Coherent
  <2> QED
    BY <2>2 DEF Settled, Coherent, OneRun
<1> QED
  BY <1>1, AttachmentsInvariant, PTL

(* While the coordinator is not restarted, a collection deletes no file that is *)
(* referred to or protected (attachments.ex, run_gc and its callers), whoever   *)
(* dies and whatever commands still run then; imports aside.                    *)
THEOREM GuardsKeepBlobs == Spec => []GuardedBlobsPresent
<1>1. Inv => GuardedBlobsPresent
  BY DEF Inv, Known, Kept, GuardedBlobsPresent
<1> QED
  BY <1>1, AttachmentsInvariant, PTL

(* A reader that was given a ticket finds its file (attachments.ex), although   *)
(* its revision may have been compacted since.                                  *)
THEOREM TicketsAreGood == Spec => []TicketsOpen
<1>1. Inv => TicketsOpen
  BY AttachmentsAssumption DEF Inv, Known, Sound, TicketsOpen, At
<1> QED
  BY <1>1, AttachmentsInvariant, PTL

(* After a close is answered nothing reads, writes or deletes files             *)
(* (attachment_coordinator.ex, begin_close and maybe_complete_close).           *)
THEOREM ClosedIsQuiet == Spec => []CloseIsQuiet
<1>1. ASSUME Inv, used.crashes = 0, NEW k \in Callers, co.answer[k] = "closed",
             NEW p \in Procs, alive[p]
      PROVE  step[p] \notin InUse \cup {"scanning", "deleting"}
  <2>1. k \in Procs
    BY AttachmentsAssumption
  <2>2. co.guards = {} /\ co.token = Nobody /\ Sound(p)
    BY <1>1, <2>1 DEF Inv, Known, Quiet
  <2> QED
    BY <1>1, <2>2, CoordinatorAssumption DEF Sound
<1>2. Inv => CloseIsQuiet
  BY <1>1 DEF CloseIsQuiet
<1> QED
  BY <1>2, AttachmentsInvariant, PTL

-------------------------------------------------------------------------------
(* The coordinator implements SharedOrExclusive.                                *)

\* A handler shares, leaves or passes on what it holds, or changes nothing of it.
Holds == <<co.guards, co.token>>

LEMMA SameHoldsStutter == ASSUME SameHolds(co, co') PROVE Holds' = Holds
BY DEF SameHolds, Holds

LEMMA AcquireShares ==
  ASSUME Inv, NEW p \in Procs, NEW k \in Kinds, Acquire(p, k)
  PROVE  [Exclusion!Next]_Holds
<1>1. Exclusion!Share(<<p, k>>)
  BY Acquiring DEF Inv, Exclusion!Share
<1> QED
  BY <1>1 DEF Exclusion!Next, Kinds

LEMMA LeavingLeaves ==
  ASSUME Inv, NEW g, Settled(co'), co'.guards = co.guards \ {g},
         co.token # Nobody \/ co'.guards # {} \/ co.guards = {} => co'.token = co.token
  PROVE  [Exclusion!Next]_Holds
<1>1. CASE g \in co.guards
  <2>1. co'.token \in Procs \cup {Nobody}
    BY DEF Settled, Coherent, CoState
  <2>2. Exclusion!Leave(g)
    BY <1>1, <2>1 DEF Exclusion!Leave
  <2>3. PICK p \in Procs, k \in Kinds : g = <<p, k>>
    BY <1>1, SettledFields DEF Inv, Guards
  <2> QED
    BY <2>2, <2>3 DEF Exclusion!Next, Kinds
<1>2. CASE g \notin co.guards
  <2>1. co'.guards = co.guards
    BY <1>2
  <2>2. co.guards # {} \/ co.guards = {} => co'.token = co.token
    BY <2>1
  <2> QED
    BY <2>1, <2>2 DEF Holds
<1> QED
  BY <1>1, <1>2

LEMMA ReleaseLeaves ==
  ASSUME Inv, NEW p \in Procs, NEW k, Release(p, k)
  PROVE  [Exclusion!Next]_Holds
BY Releasing, LeavingLeaves DEF Inv, Serves

LEMMA BeginAlone ==
  ASSUME Inv, NEW p \in Procs, BeginGc(p) PROVE [Exclusion!Next]_Holds
<1>1. /\ co'.guards = co.guards
      /\ \/ co'.token = co.token
         \/ co.token = Nobody /\ co.guards = {} /\ co'.token = p
  BY Beginning DEF Inv
<1>2. CASE co'.token = co.token
  BY <1>1, <1>2 DEF Holds
<1>3. CASE co.token = Nobody /\ co.guards = {} /\ co'.token = p
  BY <1>1, <1>3 DEF Exclusion!Next, Exclusion!Alone
<1> QED
  BY <1>1, <1>2, <1>3

LEMMA EndsAlone ==
  ASSUME Inv, Settled(co'), co'.guards = co.guards,
         co'.token = co.token \/ co.token # Nobody
  PROVE  [Exclusion!Next]_Holds
<1>1. CASE co'.token = co.token
  BY <1>1 DEF Holds
<1>2. CASE co.token # Nobody
  <2>1. co'.token \in Procs \cup {Nobody}
    BY DEF Settled, Coherent, CoState
  <2> QED
    BY <1>2, <2>1 DEF Exclusion!Next, Exclusion!EndAlone
<1> QED
  BY <1>1, <1>2

LEMMA SameStutter == ASSUME Inv, Serves(co, co') /\ SameHolds(co, co') PROVE [Exclusion!Next]_Holds
BY SameHoldsStutter

LEMMA UnmovedStutter == ASSUME UNCHANGED co PROVE [Exclusion!Next]_Holds
BY DEF Holds

LEMMA ContinueHolds ==
  ASSUME Inv, Inv', NEW p \in Procs, Continue(p) PROVE [Exclusion!Next]_Holds
<1>1. CASE StartWorker(p) \/ Transfer(p)
  <2>1. Acquire(p, "write") \/ UNCHANGED co
    BY <1>1 DEF StartWorker, Transfer
  <2> QED
    BY <2>1, AcquireShares, UnmovedStutter DEF Kinds
<1>2. CASE Install(p)
  <2>1. Release(p, "write") \/ UNCHANGED co
    BY <1>2 DEF Install
  <2> QED
    BY <2>1, ReleaseLeaves, UnmovedStutter
<1>3. CASE Finish(p)
  BY <1>3, ReleaseLeaves DEF Finish
<1>4. CASE \/ Protect(p) \/ Check(p) \/ Commit(p) \/ Resolve(p) \/ Open(p) \/ CloseRead(p)
           \/ Verify(p) \/ CommitImport(p) \/ List(p) \/ Scan(p) \/ CloseAnswer(p)
           \/ \E d \in Digests : Delete(p, d)
  <2>1. UNCHANGED co
    BY <1>4 DEF Protect, Check, Commit, Resolve, Open, CloseRead, Verify, CommitImport,
                List, Scan, CloseAnswer, Delete, coordinator
  <2> QED
    BY <2>1, UnmovedStutter
<1>5. CASE BeginCollection(p)
  BY <1>5, BeginAlone DEF BeginCollection
<1>6. CASE BeginAnswered(p)
  BY <1>6, Reading, SameStutter DEF BeginAnswered, Inv
<1>7. CASE EndCollection(p)
  <2>1. /\ Settled(co') /\ co'.guards = co.guards
        /\ co.token # p => co'.token = co.token
    BY <1>7, EndingCall DEF EndCollection, Inv, Serves
  <2>2. co'.token = co.token \/ co.token # Nobody
    BY <2>1, CoordinatorAssumption
  <2> QED
    BY <2>1, <2>2, EndsAlone
<1> QED
  BY <1>1, <1>2, <1>3, <1>4, <1>5, <1>6, <1>7 DEF Continue

LEMMA BeginHolds ==
  ASSUME Inv, NEW p \in Procs, Begin(p) PROVE [Exclusion!Next]_Holds
<1>1. ASSUME NEW d \in Digests, StartUpload(p, d) PROVE [Exclusion!Next]_Holds
  BY <1>1, AcquireShares DEF StartUpload, Kinds
<1>2. ASSUME NEW d \in Digests, StartBatch(p, d) PROVE [Exclusion!Next]_Holds
  BY <1>2, AcquireShares DEF StartBatch, Kinds
<1>3. ASSUME NEW d \in Digests, StartMutation(p, d) PROVE [Exclusion!Next]_Holds
  BY <1>3, AcquireShares DEF StartMutation, Kinds
<1>4. ASSUME NEW d \in Digests, StartRead(p, d) PROVE [Exclusion!Next]_Holds
  BY <1>4, AcquireShares DEF StartRead, Kinds
<1>5. ASSUME NEW d \in Digests, Diff(p, d) PROVE [Exclusion!Next]_Holds
  BY <1>5, UnmovedStutter DEF Diff
<1>6. CASE BeginCollection(p)
  BY <1>6, BeginAlone DEF BeginCollection
<1>7. CASE StartClose(p)
  BY <1>7, BeginningClose, SameStutter DEF StartClose, Inv
<1> QED
  BY <1>1, <1>2, <1>3, <1>4, <1>5, <1>6, <1>7 DEF Begin

LEMMA HandleHolds ==
  ASSUME Inv, Handle PROVE [Exclusion!Next]_Holds
<1>1. ASSUME NEW g \in co.guards, GuardDown(g) PROVE [Exclusion!Next]_Holds
  BY <1>1, Leaving, LeavingLeaves DEF GuardDown, Inv, Serves
<1>2. CASE GcCallerDown
  <2>1. /\ Settled(co') /\ co'.guards = co.guards
        /\ co'.token = co.token \/ co.token \in Procs
    BY <1>2, CallerDying DEF Inv, Serves
  <2>2. co'.token = co.token \/ co.token # Nobody
    BY <2>1, CoordinatorAssumption
  <2> QED
    BY <2>1, <2>2, EndsAlone
<1>3. ASSUME NEW t \in Tasks, TaskDown(t) PROVE [Exclusion!Next]_Holds
  BY <1>3, TaskDying, SameStutter DEF Inv
<1> QED
  BY <1>1, <1>2, <1>3 DEF Handle

LEMMA StepHolds == Inv /\ Inv' /\ [Next]_vars => [Exclusion!Next]_Holds
<1> SUFFICES ASSUME Inv, Inv', [Next]_vars PROVE [Exclusion!Next]_Holds
  OBVIOUS
<1>1. ASSUME NEW p \in Procs, Continue(p) \/ Begin(p) PROVE [Exclusion!Next]_Holds
  BY <1>1, ContinueHolds, BeginHolds
<1>2. ASSUME NEW p \in Procs, StoreFails(p) PROVE [Exclusion!Next]_Holds
  <2>1. Release(p, "write") \/ UNCHANGED co
    BY <1>2 DEF StoreFails
  <2> QED
    BY <2>1, ReleaseLeaves, UnmovedStutter
<1>3. ASSUME NEW p \in Procs, Fails(p) \/ Kill(p) PROVE [Exclusion!Next]_Holds
  BY <1>3, UnmovedStutter DEF Fails, Kill, coordinator
<1>4. ASSUME NEW d \in Digests, Expire(d) PROVE [Exclusion!Next]_Holds
  BY <1>4, UnmovedStutter DEF Expire, coordinator
<1>5. ASSUME NEW d \in Digests, Compact(d) PROVE [Exclusion!Next]_Holds
  <2>1. UNCHANGED co \/ \E t \in Tasks : StartTask(t)
    BY <1>5 DEF Compact, coordinator
  <2>2. ASSUME NEW t \in Tasks, StartTask(t) PROVE [Exclusion!Next]_Holds
    BY <2>2, StartingTask, SameStutter, AttachmentsAssumption DEF Inv
  <2> QED
    BY <2>1, <2>2, UnmovedStutter
<1>6. CASE Handle
  BY <1>6, HandleHolds
<1>7. CASE Limit
  BY <1>7, Limiting, SameStutter DEF Limit, Inv
<1>8. CASE Crash
  BY <1>8, Restarting DEF Crash, Inv, Exclusion!Next, Exclusion!Forget
<1>9. CASE UNCHANGED vars
  BY <1>9, UnmovedStutter DEF vars, coordinator
<1> QED
  BY <1>1, <1>2, <1>3, <1>4, <1>5, <1>6, <1>7, <1>8, <1>9 DEF Next

(* The coordinator with any callers implements the promise that guards are      *)
(* shared and a collection is alone, through deaths, closes and restarts.       *)
THEOREM CollectionIsAlone == Spec => GuardsExclude
<1>1. Init => Exclusion!Init
  BY DEF Init, CoInit, Started, Exclusion!Init
<1>2. Inv /\ Inv' /\ [Next]_vars => [Exclusion!Next]_(Exclusion!holds)
  BY StepHolds DEF Exclusion!holds, Holds
<1> QED
  BY <1>1, <1>2, AttachmentsInvariant, PTL DEF Spec, GuardsExclude, Exclusion!Spec

-------------------------------------------------------------------------------
(* Which run collects what.  As long as nothing goes wrong, a file without a   *)
(* row is the business of some process: an upload that is about to protect it, *)
(* a collection that deletes it, or one that has not listed yet.               *)

\* The file x is in the list of p, or p has not made its list, or p protects it.
CoveredBy(p, x) ==
  \/ step[p] = "starting"
  \/ step[p] \in {"waiting", "listing"} /\ co.token = p
  \/ step[p] = "waiting" /\ (co.waiter = p \/ co.followUp = p)
  \/ step[p] = "protecting" /\ blob[p] = x
  \/ step[p] = "scanning" /\ x \notin found[p]
  \/ step[p] = "deleting" /\ x \in found[p]

Covered(x) == \E p \in Procs : CoveredBy(p, x)

\* The coordinator and the owner know where a process is.
Placed(p) ==
  /\ ~alive[p] => step[p] = "idle"
  /\ co.token = p =>
       /\ alive[p]
       /\ \/ step[p] \in {"listing", "scanning", "deleting"}
          \/ step[p] = "waiting" /\ co.answer[p] = "granted"
  /\ co.waiter = p \/ co.followUp = p =>
       alive[p] /\ step[p] = "waiting" /\ co.answer[p] = "none"
  /\ ~(co.waiter = p /\ co.followUp = p)
  /\ importing = p => step[p] = "importing"

\* Who waits for guards is not queued as well.
Apart(s) == \A q \in Procs : ~(s.waiter = q /\ s.followUp = q)

\* While nothing is wrong every process is in its place and every file has a row or a
\* process that minds it.
Orderly ==
  /\ used.crashes = 0 /\ exits = {}
  /\ \A p \in Procs : Placed(p)
  /\ \A x \in disk \ Reachable : Covered(x)

\* What a handler called by p does to the runs of the others: a token is kept, or
\* given to one who waits; nobody is forgotten.
Advances(s, r, p) ==
  /\ \A q \in Procs \ {p} :
       /\ r.token = q => \/ s.token = q /\ r.answer[q] = s.answer[q]
                         \/ (q = s.waiter \/ q = s.followUp) /\ r.answer[q] = "granted"
       /\ r.waiter = q \/ r.followUp = q =>
            (q = s.waiter \/ q = s.followUp) /\ r.answer[q] = s.answer[q]
       /\ ~(r.waiter = q /\ r.followUp = q)
  /\ s.token \in Procs \ {p} => r.token = s.token
  /\ s.waiter # Nobody \/ s.followUp # Nobody =>
       \/ r.waiter # Nobody \/ r.followUp # Nobody
       \/ r.token # Nobody /\ (r.token = s.waiter \/ r.token = s.followUp)

LEMMA AdvancesMore == ASSUME NEW p, Advances(co, co', Nobody) PROVE Advances(co, co', p)
BY CoordinatorAssumption DEF Advances

LEMMA UnmovedAdvances == ASSUME Apart(co), UNCHANGED co PROVE Advances(co, co', Nobody)
BY DEF Advances, Apart

(* maybe_complete_waiters (attachment_coordinator.ex), open: nothing, or the    *)
(* one who waits has the token.                                                 *)
GrantsOrStays(s, r) ==
  \/ r = s
  \/ /\ s.waiter \in Procs /\ s.token = Nobody
     /\ r.token = s.waiter /\ r.waiter = Nobody /\ r.followUp = s.followUp
     /\ \A q \in Procs : r.answer[q] = IF q = s.waiter THEN "granted" ELSE s.answer[q]

LEMMA OpenCompleting ==
  ASSUME NEW s, Coherent(s), ~s.closing
  PROVE  GrantsOrStays(s, MaybeCompleteWaiters(s))
<1> USE CoordinatorAssumption
<1>1. CASE s.barrier /\ s.token = Nobody /\ s.waiter # Nobody /\ s.guards = {}
  <2> DEFINE a == [s.answer EXCEPT ![s.waiter] = "granted"]
             g == [s EXCEPT !.token = s.waiter, !.waiter = Nobody, !.answer = a]
  <2>1. MaybeGrantGc(s) = g
    BY <1>1 DEF MaybeGrantGc
  <2>2. s.waiter \in Procs /\ s \in CoState /\ s.answer \in [Procs -> Answers]
    BY <1>1 DEF Coherent, CoState
  <2>3. \A q \in Procs : a[q] = IF q = s.waiter THEN "granted" ELSE s.answer[q]
    BY <2>2
  <2> HIDE DEF a
  <2>4. /\ g.token = s.waiter /\ g.waiter = Nobody /\ g.followUp = s.followUp
        /\ g.closing = s.closing /\ g.answer = a
    BY <2>2 DEF CoState
  <2> HIDE DEF g
  <2>5. MaybeCompleteWaiters(s) = g
    BY <2>1, <2>4 DEF MaybeCompleteWaiters, MaybeCompleteClose
  <2> QED
    BY <1>1, <2>2, <2>3, <2>4, <2>5 DEF GrantsOrStays
<1>2. CASE ~(s.barrier /\ s.token = Nobody /\ s.waiter # Nobody /\ s.guards = {})
  <2>1. MaybeCompleteWaiters(s) = s
    BY <1>2 DEF MaybeCompleteWaiters, MaybeGrantGc, MaybeCompleteClose
  <2> QED
    BY <2>1 DEF GrantsOrStays
<1> QED
  BY <1>1, <1>2

LEMMA AcquireAdvances ==
  ASSUME Settled(co), Apart(co), NEW p, NEW k, Acquire(p, k)
  PROVE  Advances(co, co', Nobody)
<1>1. co \in CoState
  BY SettledFields
<1>2. /\ co'.token = co.token /\ co'.waiter = co.waiter /\ co'.followUp = co.followUp
      /\ co'.answer = co.answer
  BY <1>1 DEF Acquire, CoState
<1> QED
  BY <1>2 DEF Advances, Apart

LEMMA LeavingAdvances ==
  ASSUME Settled(co), Apart(co), ~co.closing, NEW g,
         co' = MaybeCompleteWaiters([co EXCEPT !.guards = @ \ {g}])
  PROVE  Advances(co, co', Nobody)
<1> USE CoordinatorAssumption
<1> DEFINE o == [co EXCEPT !.guards = co.guards \ {g}]
<1>1. co \in CoState /\ co.guards \ {g} \in SUBSET Guards
  BY SettledFields
<1>2. /\ o \in CoState /\ o.guards = co.guards \ {g}
      /\ o.token = co.token /\ o.waiter = co.waiter /\ o.barrier = co.barrier
      /\ o.caller = co.caller /\ o.followUp = co.followUp
      /\ o.closing = co.closing /\ o.answer = co.answer
  BY <1>1 DEF CoState
<1>3. co' = MaybeCompleteWaiters(o)
  OBVIOUS
<1> HIDE DEF o
<1>4. Coherent(o)
  BY <1>2 DEF Settled, Coherent
<1>5. GrantsOrStays(o, co')
  BY <1>2, <1>3, <1>4, OpenCompleting
<1>6. Apart(o)
  BY <1>2 DEF Apart
<1> QED
  BY <1>2, <1>5, <1>6 DEF Advances, Apart, GrantsOrStays

LEMMA ReleaseAdvances ==
  ASSUME Settled(co), Apart(co), ~co.closing, NEW p, NEW k, Release(p, k)
  PROVE  Advances(co, co', Nobody)
<1>1. CASE <<p, k>> \in co.guards
  <2>1. co' = MaybeCompleteWaiters([co EXCEPT !.guards = @ \ {<<p, k>>}])
    BY <1>1 DEF Release
  <2> QED
    BY <2>1, LeavingAdvances
<1>2. CASE <<p, k>> \notin co.guards
  BY <1>2, UnmovedAdvances DEF Release
<1> QED
  BY <1>1, <1>2

LEMMA TaskDownAdvances ==
  ASSUME Settled(co), Apart(co), ~co.closing, NEW t, TaskDown(t)
  PROVE  Advances(co, co', Nobody)
<1> USE CoordinatorAssumption
<1> DEFINE o == [co EXCEPT !.tasks = co.tasks \ {t}]
<1>1. co \in CoState /\ co.tasks \ {t} \in SUBSET Procs
  BY SettledFields
<1>2. /\ o \in CoState /\ o.guards = co.guards
      /\ o.token = co.token /\ o.waiter = co.waiter /\ o.barrier = co.barrier
      /\ o.caller = co.caller /\ o.followUp = co.followUp
      /\ o.closing = co.closing /\ o.answer = co.answer
  BY <1>1 DEF CoState
<1>3. co' = MaybeCompleteWaiters(o)
  BY DEF TaskDown
<1> HIDE DEF o
<1>4. Coherent(o)
  BY <1>2 DEF Settled, Coherent
<1>5. GrantsOrStays(o, co')
  BY <1>2, <1>3, <1>4, OpenCompleting
<1>6. Apart(o)
  BY <1>2 DEF Apart
<1> QED
  BY <1>2, <1>5, <1>6 DEF Advances, Apart, GrantsOrStays

LEMMA LimitAdvances ==
  ASSUME Settled(co), Apart(co), UpdateLimits PROVE Advances(co, co', Nobody)
<1>1. co \in CoState
  BY SettledFields
<1>2. /\ co'.token = co.token /\ co'.waiter = co.waiter /\ co'.followUp = co.followUp
      /\ co'.answer = co.answer
  BY <1>1 DEF UpdateLimits, CoState
<1> QED
  BY <1>2 DEF Advances, Apart

\* Only the answer to p is another.
AnswerOnly(p) ==
  /\ co'.token = co.token /\ co'.waiter = co.waiter /\ co'.followUp = co.followUp
  /\ \A q \in Procs \ {p} : co'.answer[q] = co.answer[q]

LEMMA AnswerAdvances ==
  ASSUME Apart(co), NEW p, AnswerOnly(p) PROVE Advances(co, co', p)
BY DEF Advances, Apart, AnswerOnly

LEMMA StartTaskAdvances ==
  ASSUME Settled(co), NEW t \in Procs, StartTask(t) PROVE AnswerOnly(t)
<1>1. co \in CoState /\ co.answer \in [Procs -> Answers]
  BY SettledFields
<1> DEFINE a == [co.answer EXCEPT ![t] = "none"]
<1>2. co' = [co EXCEPT !.tasks = co.tasks \cup {t}, !.answer = a]
  BY DEF StartTask
<1>3. \A q \in Procs \ {t} : a[q] = co.answer[q]
  BY <1>1
<1> HIDE DEF a
<1> QED
  BY <1>1, <1>2, <1>3 DEF AnswerOnly, CoState

LEMMA ReadAdvances ==
  ASSUME Settled(co), NEW p \in Procs, Read(p) PROVE AnswerOnly(p)
<1>1. co \in CoState /\ co.answer \in [Procs -> Answers]
  BY SettledFields
<1> DEFINE a == [co.answer EXCEPT ![p] = "none"]
<1>2. co' = [co EXCEPT !.answer = a]
  BY DEF Read
<1>3. \A q \in Procs \ {p} : a[q] = co.answer[q]
  BY <1>1
<1> HIDE DEF a
<1> QED
  BY <1>1, <1>2, <1>3 DEF AnswerOnly, CoState

\* Where begin_gc leaves its caller: with the token, waiting, or covered by the call
\* that is queued.
Begun(p) ==
  /\ co'.token = p => co'.answer[p] = "granted"
  /\ co'.waiter = p \/ co'.followUp = p => co'.answer[p] = "none"
  /\ ~(co'.waiter = p /\ co'.followUp = p)
  /\ co'.token = p \/ co'.waiter = p \/ co'.followUp # Nobody

(* begin_gc (attachment_coordinator.ex), open.                                 *)
LEMMA BeginAdvances ==
  ASSUME Settled(co), Apart(co), ~co.closing, NEW p \in Procs, BeginGc(p),
         p \notin {co.token, co.waiter, co.followUp}
  PROVE  Advances(co, co', p) /\ Begun(p)
<1> USE CoordinatorAssumption
<1>0. co \in CoState /\ co.answer \in [Procs -> Answers]
  BY SettledFields
<1>1. CASE co.barrier /\ co.followUp = Nobody
  <2> DEFINE a == [co.answer EXCEPT ![p] = "none"]
  <2>1. co' = [co EXCEPT !.followUp = p, !.answer = a]
    BY <1>1 DEF BeginGc
  <2>2. \A q \in Procs : a[q] = IF q = p THEN "none" ELSE co.answer[q]
    BY <1>0
  <2> HIDE DEF a
  <2>3. /\ co'.token = co.token /\ co'.waiter = co.waiter /\ co'.followUp = p
        /\ co'.answer = a
    BY <1>0, <2>1 DEF CoState
  <2> QED
    BY <1>1, <2>2, <2>3 DEF Advances, Begun, Apart
<1>2. CASE co.barrier /\ co.followUp # Nobody
  <2> DEFINE a == [co.answer EXCEPT ![p] = "coalesced"]
  <2>1. co' = [co EXCEPT !.answer = a]
    BY <1>2 DEF BeginGc
  <2>2. \A q \in Procs : a[q] = IF q = p THEN "coalesced" ELSE co.answer[q]
    BY <1>0
  <2> HIDE DEF a
  <2>3. /\ co'.token = co.token /\ co'.waiter = co.waiter /\ co'.followUp = co.followUp
        /\ co'.answer = a
    BY <1>0, <2>1 DEF CoState
  <2> QED
    BY <1>2, <2>2, <2>3 DEF Advances, Begun, Apart
<1>3. CASE ~co.barrier /\ co.guards = {}
  <2> DEFINE a == [co.answer EXCEPT ![p] = "granted"]
  <2>1. co' = [co EXCEPT !.barrier = TRUE, !.caller = p, !.token = p, !.answer = a]
    BY <1>3 DEF BeginGc
  <2>2. \A q \in Procs : a[q] = IF q = p THEN "granted" ELSE co.answer[q]
    BY <1>0
  <2> HIDE DEF a
  <2>3. /\ co'.token = p /\ co'.waiter = co.waiter /\ co'.followUp = co.followUp
        /\ co'.answer = a
    BY <1>0, <2>1 DEF CoState
  <2>4. co.token = Nobody
    BY <1>3 DEF Settled, Coherent
  <2> QED
    BY <1>3, <2>2, <2>3, <2>4 DEF Advances, Begun, Apart
<1>4. CASE ~co.barrier /\ co.guards # {}
  <2> DEFINE a == [co.answer EXCEPT ![p] = "none"]
  <2>1. co' = [co EXCEPT !.barrier = TRUE, !.caller = p, !.waiter = p, !.answer = a]
    BY <1>4 DEF BeginGc
  <2>2. \A q \in Procs : a[q] = IF q = p THEN "none" ELSE co.answer[q]
    BY <1>0
  <2> HIDE DEF a
  <2>3. /\ co'.token = co.token /\ co'.waiter = p /\ co'.followUp = co.followUp
        /\ co'.answer = a
    BY <1>0, <2>1 DEF CoState
  <2>4. co.token = Nobody /\ co.followUp = Nobody
    BY <1>4 DEF Settled, Coherent
  <2> QED
    BY <1>4, <2>2, <2>3, <2>4 DEF Advances, Begun, Apart
<1> QED
  BY <1>1, <1>2, <1>3, <1>4

(* end_gc (attachment_coordinator.ex), open: the queued call has its turn.      *)
LEMMA EndAdvances ==
  ASSUME Settled(co), Apart(co), ~co.closing, NEW p \in Procs, EndGc(p),
         p \notin {co.waiter, co.followUp}
  PROVE  Advances(co, co', p) /\ p \notin {co'.token, co'.waiter, co'.followUp}
<1> USE CoordinatorAssumption
<1>1. CASE co.token = p /\ co.caller = p
  <2> DEFINE o == [co EXCEPT !.token = Nobody, !.barrier = FALSE, !.caller = Nobody,
                             !.waiter = Nobody]
             f == PromoteGcFollowUp(o)
  <2>1. co \in CoState /\ co.waiter = Nobody /\ co.followUp \in Procs \cup {Nobody}
    BY <1>1, SettledFields DEF Settled, Coherent
  <2>2. /\ o \in CoState /\ o.guards = co.guards /\ ~o.closing
        /\ o.token = Nobody /\ o.waiter = Nobody /\ ~o.barrier /\ o.caller = Nobody
        /\ o.followUp = co.followUp /\ o.answer = co.answer
    BY <2>1 DEF CoState
  <2>3. co' = MaybeCompleteWaiters(f)
    BY <1>1 DEF EndGc, EndRun
  <2> HIDE DEF o
  <2>4. /\ Coherent(f) /\ ~f.closing /\ f.token = Nobody /\ f.answer = co.answer
        /\ f.waiter = co.followUp /\ f.followUp = Nobody
    <3>1. CASE o.followUp = Nobody
      <4>1. f = o
        BY <3>1 DEF PromoteGcFollowUp
      <4> QED
        BY <4>1, <2>2, <3>1 DEF Coherent
    <3>2. CASE o.followUp # Nobody
      <4>1. f = [o EXCEPT !.followUp = Nobody, !.barrier = TRUE, !.caller = o.followUp,
                          !.token = Nobody, !.waiter = o.followUp]
        BY <2>2, <3>2 DEF PromoteGcFollowUp
      <4>2. /\ f \in CoState /\ f.guards = o.guards /\ f.closing = o.closing
            /\ f.token = Nobody /\ f.waiter = o.followUp /\ f.barrier
            /\ f.caller = o.followUp /\ f.followUp = Nobody /\ f.answer = o.answer
        BY <2>2, <4>1 DEF CoState
      <4> QED
        BY <4>2, <2>2, <3>2 DEF Coherent
    <3> QED
      BY <3>1, <3>2
  <2> HIDE DEF f
  <2>5. GrantsOrStays(f, co')
    BY <2>3, <2>4, OpenCompleting
  <2> QED
    BY <1>1, <2>1, <2>4, <2>5 DEF Advances, GrantsOrStays
<1>2. CASE ~(co.token = p /\ co.caller = p)
  <2>1. co' = co
    BY <1>2 DEF EndGc
  <2>2. co.token # p
    BY <1>2 DEF Settled, Coherent
  <2> QED
    BY <2>1, <2>2, UnmovedAdvances, AdvancesMore
<1> QED
  BY <1>1, <1>2

-------------------------------------------------------------------------------
(* A close that began goes on until a restart.                                 *)

LEMMA ReleaseCloses ==
  ASSUME Settled(co), co.closing, NEW p, NEW k, Release(p, k) PROVE co'.closing
<1> DEFINE o == [co EXCEPT !.guards = co.guards \ {<<p, k>>}]
<1>1. co \in CoState /\ co.guards \ {<<p, k>>} \in SUBSET Guards
  BY SettledFields
<1>2. /\ o \in CoState /\ o.guards = co.guards \ {<<p, k>>}
      /\ o.token = co.token /\ o.waiter = co.waiter /\ o.barrier = co.barrier
      /\ o.caller = co.caller /\ o.followUp = co.followUp /\ o.closing = co.closing
  BY <1>1 DEF CoState
<1>3. co' = MaybeCompleteWaiters(o) \/ co' = co
  BY DEF Release
<1> HIDE DEF o
<1>4. Coherent(o)
  BY <1>2 DEF Settled, Coherent
<1>5. co' = MaybeCompleteWaiters(o) => co'.closing = o.closing
  BY <1>4, Completing
<1> QED
  BY <1>2, <1>3, <1>5

LEMMA TaskDownCloses ==
  ASSUME Settled(co), co.closing, NEW t, TaskDown(t) PROVE co'.closing
<1> DEFINE o == [co EXCEPT !.tasks = co.tasks \ {t}]
<1>1. co \in CoState /\ co.tasks \ {t} \in SUBSET Procs
  BY SettledFields
<1>2. /\ o \in CoState /\ o.guards = co.guards
      /\ o.token = co.token /\ o.waiter = co.waiter /\ o.barrier = co.barrier
      /\ o.caller = co.caller /\ o.followUp = co.followUp /\ o.closing = co.closing
  BY <1>1 DEF CoState
<1>3. co' = MaybeCompleteWaiters(o)
  BY DEF TaskDown
<1> HIDE DEF o
<1>4. Coherent(o)
  BY <1>2 DEF Settled, Coherent
<1>5. co'.closing = o.closing
  BY <1>3, <1>4, Completing
<1> QED
  BY <1>2, <1>5

\* The death of a holder is handled as its release.
LEMMA GuardDownReleases ==
  ASSUME Settled(co), NEW g \in co.guards, GuardDown(g) PROVE \E p, k : Release(p, k)
<1>1. PICK p \in Procs, k \in Kinds : g = <<p, k>>
  BY SettledFields DEF Guards
<1>2. Release(p, k)
  BY <1>1 DEF GuardDown, Release
<1> QED
  BY <1>2

LEMMA EndCloses ==
  ASSUME Settled(co), co.closing, co' = EndRun(co) \/ co' = co PROVE co'.closing
BY Ending

LEMMA BeginCloses ==
  ASSUME Settled(co), co.closing, NEW p, BeginGc(p) PROVE co'.closing
<1>1. co \in CoState
  BY SettledFields
<1> DEFINE a == [co.answer EXCEPT ![p] = "refused"]
<1>2. co' = [co EXCEPT !.answer = a]
  BY DEF BeginGc
<1> HIDE DEF a
<1> QED
  BY <1>1, <1>2 DEF CoState

LEMMA ReadCloses ==
  ASSUME Settled(co), co.closing, NEW p, Read(p) PROVE co'.closing
<1>1. co \in CoState
  BY SettledFields
<1> DEFINE a == [co.answer EXCEPT ![p] = "none"]
<1>2. co' = [co EXCEPT !.answer = a]
  BY DEF Read
<1> HIDE DEF a
<1> QED
  BY <1>1, <1>2 DEF CoState

LEMMA LimitCloses ==
  ASSUME Settled(co), co.closing, UpdateLimits PROVE co'.closing
<1>1. co \in CoState
  BY SettledFields
<1> QED
  BY <1>1 DEF UpdateLimits, CoState

(* What went wrong stays wrong.                                                 *)
LEMMA Faulty == ASSUME Inv, NEW n \in Nat, Fault(n) PROVE used'.faults # 0
<1>1. /\ used \in [compactions : Nat, crashes : Nat, faults : Nat]
      /\ used' = [used EXCEPT !.faults = used.faults + 1, !.crashes = used.crashes + n]
  BY DEF Inv, Typed, Fault
<1>2. used'.faults = used.faults + 1 /\ used.faults \in Nat
  BY <1>1
<1> QED
  BY <1>2

LEMMA ContinueCloses ==
  ASSUME Inv, NEW p \in Procs, Continue(p) \/ StoreFails(p), co.closing PROVE co'.closing
<1>1. CASE StartWorker(p) \/ Transfer(p)
  <2>1. Acquire(p, "write") \/ UNCHANGED co
    BY <1>1 DEF StartWorker, Transfer
  <2> QED
    BY <2>1 DEF Acquire, MayAcquire, EnsureOpen
<1>2. CASE Install(p) \/ StoreFails(p)
  <2>1. Release(p, "write") \/ UNCHANGED co
    BY <1>2 DEF Install, StoreFails
  <2> QED
    BY <2>1, ReleaseCloses DEF Inv
<1>3. CASE Finish(p)
  BY <1>3, ReleaseCloses DEF Finish, Inv
<1>4. CASE \/ Protect(p) \/ Check(p) \/ Commit(p) \/ Resolve(p) \/ Open(p) \/ CloseRead(p)
           \/ Verify(p) \/ CommitImport(p) \/ List(p) \/ Scan(p) \/ CloseAnswer(p)
           \/ \E d \in Digests : Delete(p, d)
  <2>1. UNCHANGED co
    BY <1>4 DEF Protect, Check, Commit, Resolve, Open, CloseRead, Verify, CommitImport,
                List, Scan, CloseAnswer, Delete, coordinator
  <2> QED
    BY <2>1
<1>5. CASE BeginCollection(p)
  BY <1>5, BeginCloses DEF BeginCollection, Inv
<1>6. CASE BeginAnswered(p)
  BY <1>6, ReadCloses DEF BeginAnswered, Inv
<1>7. CASE EndCollection(p)
  BY <1>7, EndCloses DEF EndCollection, EndGc, Inv
<1> QED
  BY <1>1, <1>2, <1>3, <1>4, <1>5, <1>6, <1>7 DEF Continue

LEMMA BeginCallCloses ==
  ASSUME Inv, NEW p \in Procs, Begin(p), co.closing PROVE co'.closing
<1>1. ASSUME NEW d \in Digests,
             StartUpload(p, d) \/ StartBatch(p, d) \/ StartMutation(p, d) \/ StartRead(p, d)
      PROVE  co'.closing
  BY <1>1 DEF StartUpload, StartBatch, StartMutation, StartRead, Acquire, MayAcquire, EnsureOpen
<1>2. ASSUME NEW d \in Digests, Diff(p, d) PROVE co'.closing
  BY <1>2 DEF Diff
<1>3. CASE BeginCollection(p)
  BY <1>3, BeginCloses DEF BeginCollection, Inv
<1>4. CASE StartClose(p)
  BY <1>4, BeginningClose DEF StartClose, Inv
<1> QED
  BY <1>1, <1>2, <1>3, <1>4 DEF Begin

LEMMA HandleCloses == ASSUME Inv, Handle, co.closing PROVE co'.closing
<1>1. ASSUME NEW g \in co.guards, GuardDown(g) PROVE co'.closing
  BY <1>1, GuardDownReleases, ReleaseCloses DEF Inv
<1>2. CASE GcCallerDown
  BY <1>2, EndCloses DEF GcCallerDown, Inv
<1>3. ASSUME NEW t \in Tasks, TaskDown(t) PROVE co'.closing
  BY <1>3, TaskDownCloses DEF Inv
<1> QED
  BY <1>1, <1>2, <1>3 DEF Handle

LEMMA Undisturbing ==
  ASSUME Inv, [Next]_vars, Undisturbed'
  PROVE  /\ Undisturbed
         /\ \A n \in Nat : ~Fault(n)
<1>0. /\ used'.faults = 0 /\ ~co'.closing
      /\ used \in [compactions : Nat, crashes : Nat, faults : Nat]
  BY DEF Undisturbed, Inv, Typed
<1>1. \A n \in Nat : ~Fault(n)
  BY <1>0, Faulty
<1>2. used'.faults = used.faults
  <2>1. ASSUME NEW d \in Digests, Compact(d) PROVE used'.faults = used.faults
    <3>1. used' = [used EXCEPT !.compactions = used.compactions + 1]
      BY <2>1 DEF Compact
    <3> QED
      BY <1>0, <3>1
  <2>2. ASSUME NEW p \in Procs, Continue(p) \/ Begin(p) \/ StoreFails(p) PROVE used' = used
    BY <2>2 DEF Continue, Begin, StoreFails, StartWorker, Install, Protect, Finish, Check,
                Commit, Resolve, Open, CloseRead, Transfer, Verify, CommitImport,
                BeginCollection, BeginAnswered, List, Scan, EndCollection, Delete,
                CloseAnswer, StartUpload, StartBatch, StartMutation, StartRead, Diff,
                StartClose, OnlyClients, rest
  <2>3. ASSUME NEW p \in Procs, Fails(p) \/ Kill(p) PROVE used' = used
    BY <1>1, <2>3 DEF Fails, Kill
  <2>4. ASSUME NEW d \in Digests, Expire(d) PROVE FALSE
    BY <1>1, <2>4 DEF Expire
  <2>5. CASE Handle \/ Limit \/ UNCHANGED vars
    BY <2>5 DEF Handle, Limit, vars, rest
  <2>6. ~Crash
    BY <1>1 DEF Crash
  <2> QED
    BY <2>1, <2>2, <2>3, <2>4, <2>5, <2>6 DEF Next
<1>3. ~co.closing
  <2> SUFFICES ASSUME co.closing PROVE co'.closing
    BY <1>0
  <2>1. ASSUME NEW p \in Procs, Continue(p) \/ Begin(p) \/ StoreFails(p) PROVE co'.closing
    BY <2>1, ContinueCloses, BeginCallCloses
  <2>2. ASSUME NEW p \in Procs, Fails(p) \/ Kill(p) PROVE co'.closing
    BY <2>2 DEF Fails, Kill, coordinator
  <2>3. ASSUME NEW d \in Digests, Compact(d) PROVE co'.closing
    BY <2>3 DEF Compact, coordinator
  <2>4. ASSUME NEW d \in Digests, Expire(d) PROVE co'.closing
    BY <2>4 DEF Expire, coordinator
  <2>5. CASE Handle
    BY <2>5, HandleCloses
  <2>6. CASE Limit
    BY <2>6, LimitCloses DEF Limit, Inv
  <2>7. CASE UNCHANGED vars
    BY <2>7 DEF vars, coordinator
  <2>8. ~Crash
    BY <1>1 DEF Crash
  <2> QED
    BY <2>1, <2>2, <2>3, <2>4, <2>5, <2>6, <2>7, <2>8 DEF Next
<1> QED
  BY <1>0, <1>1, <1>2, <1>3 DEF Undisturbed

-------------------------------------------------------------------------------
(* Order is kept by the steps of one process.                                  *)

Busy == {"starting", "waiting", "listing", "scanning", "deleting", "protecting"}

\* A step that p, if it is a process, does in its own place.
OnlyMover(p) ==
  \A q \in Procs \ {p} :
    /\ alive'[q] = alive[q] /\ step'[q] = step[q] /\ blob'[q] = blob[q]
    /\ found'[q] = found[q] /\ (importing' = q => importing = q)

LEMMA OrderApart == ASSUME Orderly PROVE Apart(co)
BY DEF Orderly, Placed, Apart

LEMMA OthersPlaced ==
  ASSUME Orderly, NEW p, OnlyMover(p), Advances(co, co', p), NEW q \in Procs \ {p}
  PROVE  Placed(q)'
<1>1. /\ Placed(q)
      /\ alive'[q] = alive[q] /\ step'[q] = step[q] /\ (importing' = q => importing = q)
  BY DEF Orderly, OnlyMover
<1>2. /\ co'.token = q => \/ co.token = q /\ co'.answer[q] = co.answer[q]
                          \/ (q = co.waiter \/ q = co.followUp) /\ co'.answer[q] = "granted"
      /\ co'.waiter = q \/ co'.followUp = q =>
           (q = co.waiter \/ q = co.followUp) /\ co'.answer[q] = co.answer[q]
      /\ ~(co'.waiter = q /\ co'.followUp = q)
  BY DEF Advances
<1>3. ~alive'[q] => step'[q] = "idle"
  BY <1>1 DEF Placed
<1>4. co'.token = q =>
        /\ alive'[q]
        /\ \/ step'[q] \in {"listing", "scanning", "deleting"}
           \/ step'[q] = "waiting" /\ co'.answer[q] = "granted"
  BY <1>1, <1>2 DEF Placed
<1>5. co'.waiter = q \/ co'.followUp = q =>
        alive'[q] /\ step'[q] = "waiting" /\ co'.answer[q] = "none"
  BY <1>1, <1>2 DEF Placed
<1>6. importing' = q => step'[q] = "importing"
  BY <1>1 DEF Placed
<1> QED
  BY <1>2, <1>3, <1>4, <1>5, <1>6 DEF Placed

LEMMA OthersCover ==
  ASSUME Settled(co'), Orderly, NEW p, OnlyMover(p), Advances(co, co', p),
         p \in Procs => Placed(p)' /\ p \notin {co.waiter, co.followUp},
         NEW q \in Procs \ {p}, NEW x, CoveredBy(q, x)
  PROVE  Covered(x)'
<1> USE CoordinatorAssumption
<1>1. /\ step'[q] = step[q] /\ blob'[q] = blob[q] /\ found'[q] = found[q]
  BY DEF OnlyMover
<1>2. CASE \/ step[q] = "starting"
           \/ step[q] = "protecting" /\ blob[q] = x
           \/ step[q] = "scanning" /\ x \notin found[q]
           \/ step[q] = "deleting" /\ x \in found[q]
  <2>1. CoveredBy(q, x)'
    BY <1>1, <1>2 DEF CoveredBy
  <2> QED
    BY <2>1 DEF Covered
<1>3. CASE step[q] \in {"waiting", "listing"} /\ co.token = q
  <2>1. co'.token = q
    BY <1>3 DEF Advances
  <2>2. CoveredBy(q, x)'
    BY <1>1, <1>3, <2>1 DEF CoveredBy
  <2> QED
    BY <2>2 DEF Covered
<1>4. CASE step[q] = "waiting" /\ (co.waiter = q \/ co.followUp = q)
  <2>1. \/ co'.waiter # Nobody \/ co'.followUp # Nobody
        \/ co'.token # Nobody /\ (co'.token = co.waiter \/ co'.token = co.followUp)
    BY <1>4 DEF Advances
  <2>2. /\ co'.waiter \in Procs \cup {Nobody} /\ co'.followUp \in Procs \cup {Nobody}
        /\ co'.token \in Procs \cup {Nobody}
    BY SettledFields
  <2>3. ASSUME NEW r \in Procs, co'.waiter = r \/ co'.followUp = r PROVE Covered(x)'
    <3>1. step'[r] = "waiting"
      <4>1. CASE r = p
        BY <2>3, <4>1 DEF Placed
      <4>2. CASE r # p
        <5>1. Placed(r)'
          BY <4>2, OthersPlaced
        <5> QED
          BY <2>3, <5>1 DEF Placed
      <4> QED
        BY <4>1, <4>2
    <3>2. CoveredBy(r, x)'
      BY <2>3, <3>1 DEF CoveredBy
    <3> QED
      BY <3>2 DEF Covered
  <2>4. ASSUME NEW r \in Procs, co'.token = r, r = co.waiter \/ r = co.followUp
        PROVE  Covered(x)'
    <3>1. r # p
      BY <2>4
    <3>2. step[r] = "waiting"
      BY <2>4 DEF Orderly, Placed
    <3>3. step'[r] = "waiting"
      BY <3>1, <3>2 DEF OnlyMover
    <3>4. CoveredBy(r, x)'
      BY <2>4, <3>3 DEF CoveredBy
    <3> QED
      BY <3>4 DEF Covered
  <2> QED
    BY <2>1, <2>2, <2>3, <2>4
<1> QED
  BY <1>2, <1>3, <1>4 DEF CoveredBy

(* Such a step keeps order if p is in its place after it, and every file without *)
(* a row is covered that is new or that was covered by p.                        *)
LEMMA OneOrderly ==
  ASSUME Inv', Orderly, NEW p, OnlyMover(p), Advances(co, co', p),
         exits' = {}, used'.crashes = used.crashes,
         p \in Procs => Placed(p)' /\ p \notin {co.waiter, co.followUp},
         \A x \in disk' \ Reachable' :
           \/ Covered(x)'
           \/ x \in disk \ Reachable /\ (p \in Procs => ~CoveredBy(p, x))
  PROVE  Orderly'
<1>1. used'.crashes = 0
  BY DEF Orderly
<1>2. \A q \in Procs : Placed(q)'
  <2> TAKE q \in Procs
  <2>1. CASE q = p
    BY <2>1
  <2>2. CASE q # p
    BY <2>2, OthersPlaced
  <2> QED
    BY <2>1, <2>2
<1>3. \A x \in disk' \ Reachable' : Covered(x)'
  <2> TAKE x \in disk' \ Reachable'
  <2>1. CASE x \in disk \ Reachable /\ (p \in Procs => ~CoveredBy(p, x))
    <3>1. PICK q \in Procs : CoveredBy(q, x)
      BY <2>1 DEF Orderly, Covered
    <3>2. q # p
      BY <2>1, <3>1
    <3>3. Settled(co')
      BY DEF Inv
    <3> QED
      BY <3>1, <3>2, <3>3, OthersCover
  <2> QED
    BY <2>1
<1> QED
  BY <1>1, <1>2, <1>3 DEF Orderly

(* A step of a call that is no collection, and protects nothing: the guards'    *)
(* holders, and what they do with files and rows.                               *)
LEMMA CallOrderly ==
  ASSUME Inv', Orderly, NEW p \in Procs, OnlyMover(p), Advances(co, co', Nobody),
         exits' = exits, used' = used,
         step[p] \notin Busy, step'[p] \notin Busy \ {"protecting"},
         alive'[p] = alive[p], ~alive[p] => step'[p] = "idle",
         importing' = p => step'[p] = "importing",
         \A x \in disk' \ Reachable' :
           x \in disk \ Reachable \/ (step'[p] = "protecting" /\ blob'[p] = x)
  PROVE  Orderly'
<1> USE CoordinatorAssumption
<1>1. /\ p # co.token /\ p # co.waiter /\ p # co.followUp
  BY DEF Orderly, Placed, Busy
<1>2. p # co'.token /\ p # co'.waiter /\ p # co'.followUp
  BY <1>1 DEF Advances
<1>3. Placed(p)'
  BY <1>2 DEF Placed
<1>4. Advances(co, co', p)
  BY AdvancesMore
<1>5. \A x : ~CoveredBy(p, x)
  BY DEF CoveredBy, Busy
<1>6. ASSUME NEW x, step'[p] = "protecting", blob'[p] = x PROVE Covered(x)'
  <2>1. CoveredBy(p, x)'
    BY <1>6 DEF CoveredBy
  <2> QED
    BY <2>1 DEF Covered
<1>7. exits' = {} /\ used'.crashes = used.crashes
  BY DEF Orderly
<1> QED
  BY <1>1, <1>3, <1>4, <1>5, <1>6, <1>7, OneOrderly

\* The coordinator acts, nobody moves.
LEMMA NobodyOrderly ==
  ASSUME Inv', Orderly, Advances(co, co', Nobody), exits' = exits,
         UNCHANGED <<alive, clients, store, rest>>
  PROVE  Orderly'
<1>1. /\ alive' = alive /\ step' = step /\ blob' = blob /\ found' = found
      /\ importing' = importing /\ used' = used
      /\ disk' = disk /\ pending' = pending /\ retained' = retained
  BY DEF clients, store, rest
<1>2. OnlyMover(Nobody)
  BY <1>1 DEF OnlyMover
<1>3. exits' = {} /\ used'.crashes = used.crashes
  BY <1>1 DEF Orderly
<1>4. \A x \in disk' \ Reachable' : x \in disk \ Reachable
  BY <1>1 DEF Reachable
<1> QED
  BY <1>2, <1>3, <1>4, OneOrderly, CoordinatorAssumption

-------------------------------------------------------------------------------
(* The actions, while nothing is wrong.                                        *)

\* Only p moves, to the step s with the blob d.
LEMMA CallMover ==
  ASSUME Inv, NEW p \in Procs, NEW c \in Calls, NEW s \in Steps, NEW d \in Blobs,
         Becomes(p, c, s, d), alive' = alive, found' = found,
         \A q \in Procs \ {p} : importing' = q => importing = q
  PROVE  OnlyMover(p) /\ step'[p] = s /\ blob'[p] = d
<1>1. /\ step'[p] = s /\ blob'[p] = d
      /\ \A q \in Procs \ {p} : step'[q] = step[q] /\ blob'[q] = blob[q]
  BY Moving DEF Inv
<1> QED
  BY <1>1 DEF OnlyMover

\* A live call goes on, or begins, without touching files or rows.
LEMMA ClientOrderly ==
  ASSUME Inv, Inv', Orderly, NEW p \in Procs, NEW c \in Calls, NEW s \in Steps, NEW d \in Blobs,
         Becomes(p, c, s, d), OnlyClients, Advances(co, co', Nobody),
         alive[p], step[p] \notin Busy \cup {"importing"}, s \notin Busy
  PROVE  Orderly'
<1>1. /\ alive' = alive /\ exits' = exits /\ found' = found /\ importing' = importing
      /\ used' = used /\ disk' = disk /\ pending' = pending /\ retained' = retained
  BY DEF OnlyClients, store, rest
<1>2. OnlyMover(p) /\ step'[p] = s /\ blob'[p] = d
  BY <1>1, CallMover
<1>3. importing' # p
  BY <1>1 DEF Orderly, Placed
<1>4. \A x \in disk' \ Reachable' : x \in disk \ Reachable
  BY <1>1 DEF Reachable
<1> QED
  BY <1>1, <1>2, <1>3, <1>4, CallOrderly

\* A known call goes to s, or ends.
LEMMA GoesOrderly ==
  ASSUME Inv, Inv', Orderly, NEW p \in Procs, NEW s \in Steps,
         Goes(p, s) \/ Ends(p), OnlyClients, Advances(co, co', Nobody),
         alive[p], step[p] \notin Busy \cup {"importing"}, s \notin Busy
  PROVE  Orderly'
<1>1. call[p] \in Calls /\ blob[p] \in Blobs
  BY DEF Inv, Typed
<1>2. CASE Becomes(p, call[p], s, blob[p])
  BY <1>1, <1>2, ClientOrderly
<1>3. CASE Becomes(p, "none", "idle", NoBlob)
  BY <1>3, ClientOrderly DEF Calls, Steps, InUse, Blobs, Busy
<1> QED
  BY <1>2, <1>3 DEF Goes, Ends

LEMMA BeginCallOrderly ==
  ASSUME Inv, Inv', Orderly, NEW p \in Procs, NEW d \in Digests,
         \/ StartUpload(p, d) \/ StartBatch(p, d) \/ StartMutation(p, d)
         \/ StartRead(p, d) \/ Diff(p, d)
  PROVE  Orderly'
<1>1. alive[p] /\ step[p] = "idle" /\ OnlyClients /\ d \in Blobs
  BY DEF StartUpload, StartBatch, StartMutation, StartRead, Diff, Starts, At, Blobs
<1>2. Advances(co, co', Nobody)
  <2>1. (\E k \in Kinds : Acquire(p, k)) \/ UNCHANGED co
    BY DEF StartUpload, StartBatch, StartMutation, StartRead, Diff, Kinds
  <2> QED
    BY <2>1, AcquireAdvances, UnmovedAdvances, OrderApart DEF Inv
<1>3. PICK c \in Calls, s \in Steps : Becomes(p, c, s, d) /\ s \notin Busy
  <2>1. CASE StartUpload(p, d)
    BY <2>1 DEF StartUpload, Starts, Calls, Steps, InUse, Busy
  <2>2. CASE StartBatch(p, d)
    BY <2>2 DEF StartBatch, Starts, Calls, Steps, InUse, Busy
  <2>3. CASE StartMutation(p, d)
    BY <2>3 DEF StartMutation, Starts, Calls, Steps, InUse, Busy
  <2>4. CASE StartRead(p, d)
    BY <2>4 DEF StartRead, Starts, Calls, Steps, InUse, Busy
  <2>5. CASE Diff(p, d)
    <3>1. CASE d \in Reachable \cap disk
      BY <2>5, <3>1 DEF Diff, Starts, Calls, Steps, InUse, Busy
    <3>2. CASE d \notin Reachable \cap disk
      BY <2>5, <3>2 DEF Diff, Starts, Calls, Steps, InUse, Busy
    <3> QED
      BY <3>1, <3>2
  <2> QED
    BY <2>1, <2>2, <2>3, <2>4, <2>5
<1>4. step[p] \notin Busy \cup {"importing"}
  BY <1>1 DEF Busy
<1> QED
  BY <1>1, <1>2, <1>3, <1>4, ClientOrderly

\* What a call does next that neither touches a file or a row nor commits.
LEMMA StepsOrderly ==
  ASSUME Inv, Inv', Orderly, ~co.closing, NEW p \in Procs,
         \/ StartWorker(p) \/ StoreFails(p) \/ Finish(p) \/ Check(p) \/ Resolve(p)
         \/ Open(p) \/ CloseRead(p) \/ Transfer(p) \/ CloseAnswer(p)
  PROVE  Orderly'
<1>1. /\ alive[p] /\ OnlyClients
      /\ step[p] \in {"batch", "storing", "stored", "failed", "over", "checking", "resolving",
                      "opening", "reading", "missing", "closing"}
  BY DEF StartWorker, StoreFails, Finish, Check, Resolve, Open, CloseRead, Transfer,
         CloseAnswer, At
<1>2. Advances(co, co', Nobody)
  <2>1. \/ \E k \in Kinds : Acquire(p, k)
        \/ \E k : Release(p, k)
        \/ UNCHANGED co
    BY DEF StartWorker, StoreFails, Finish, Check, Resolve, Open, CloseRead, Transfer,
           CloseAnswer, Kinds
  <2> QED
    BY <2>1, AcquireAdvances, ReleaseAdvances, UnmovedAdvances, OrderApart DEF Inv
<1>3. \E s \in {"storing", "failed", "sending", "committing", "opening", "reading", "over",
                "closed"} : Goes(p, s) \/ Ends(p)
  BY DEF StartWorker, StoreFails, Finish, Check, Resolve, Open, CloseRead, Transfer, CloseAnswer
<1>4. PICK s \in Steps : (Goes(p, s) \/ Ends(p)) /\ s \notin Busy
  BY <1>3 DEF Steps, InUse, Busy
<1>5. step[p] \notin Busy \cup {"importing"}
  BY <1>1 DEF Busy
<1> QED
  BY <1>1, <1>2, <1>4, <1>5, GoesOrderly

LEMMA InstallOrderly ==
  ASSUME Inv, Inv', Orderly, ~co.closing, NEW p \in Procs, Install(p) PROVE Orderly'
<1>1. /\ alive[p] /\ step[p] = "storing" /\ Becomes(p, call[p], "protecting", blob[p])
      /\ disk' = disk \cup {blob[p]}
      /\ alive' = alive /\ exits' = exits /\ pending' = pending /\ retained' = retained
      /\ found' = found /\ importing' = importing /\ used' = used
      /\ Release(p, "write") \/ UNCHANGED co
  BY DEF Install, At, Goes, rest
<1>2. call[p] \in Calls /\ blob[p] \in Blobs
  BY DEF Inv, Typed
<1>3. OnlyMover(p) /\ step'[p] = "protecting" /\ blob'[p] = blob[p]
  BY <1>1, <1>2, CallMover DEF Steps, InUse
<1>4. Advances(co, co', Nobody)
  BY <1>1, ReleaseAdvances, UnmovedAdvances, OrderApart DEF Inv
<1>5. importing' # p
  BY <1>1 DEF Orderly, Placed
<1>6. \A x \in disk' \ Reachable' : x \in disk \ Reachable \/ blob'[p] = x
  BY <1>1, <1>3 DEF Reachable
<1>7. step[p] \notin Busy
  BY <1>1 DEF Busy
<1>8. step'[p] \notin Busy \ {"protecting"}
  BY <1>3
<1> QED
  BY <1>1, <1>3, <1>4, <1>5, <1>6, <1>7, <1>8, CallOrderly

(* The commands at the owner.                                                   *)
LEMMA AnsweredMover ==
  ASSUME Inv, NEW p \in Procs, NEW s \in Steps, Answered(p, s),
         alive' = alive, found' = found, importing' = importing
  PROVE  OnlyMover(p) /\ step'[p] = IF alive[p] THEN s ELSE "idle"
<1>1. call[p] \in Calls /\ blob[p] \in Blobs
  BY DEF Inv, Typed
<1>2. CASE alive[p]
  <2>1. Becomes(p, call[p], s, blob[p])
    BY <1>2 DEF Answered, Goes
  <2> QED
    BY <1>1, <1>2, <2>1, CallMover
<1>3. CASE ~alive[p]
  <2>1. Becomes(p, "none", "idle", NoBlob)
    BY <1>3 DEF Answered, Ends
  <2> QED
    BY <1>3, <2>1, CallMover DEF Calls, Steps, InUse, Blobs
<1> QED
  BY <1>2, <1>3

LEMMA CommitOrderly ==
  ASSUME Inv, Inv', Orderly, NEW p \in Procs, Commit(p) PROVE Orderly'
<1>1. /\ step[p] = "committing" /\ (Answered(p, "over") \/ Answered(p, "failed"))
      /\ co' = co /\ alive' = alive /\ exits' = exits /\ disk' = disk
      /\ found' = found /\ importing' = importing /\ used' = used
      /\ Reachable \subseteq Reachable'
  BY DEF Commit, coordinator, rest, Reachable
<1>2. OnlyMover(p) /\ step'[p] \in {"over", "failed", "idle"} /\ (~alive[p] => step'[p] = "idle")
  BY <1>1, AnsweredMover DEF Steps, InUse
<1>3. Advances(co, co', Nobody)
  BY <1>1, UnmovedAdvances, OrderApart
<1>4. importing' # p
  BY <1>1 DEF Orderly, Placed
<1>5. step[p] \notin Busy /\ step'[p] \notin Busy
  BY <1>1, <1>2 DEF Busy
<1> QED
  BY <1>1, <1>2, <1>3, <1>4, <1>5, CallOrderly

LEMMA VerifyOrderly ==
  ASSUME Inv, Inv', Orderly, NEW p \in Procs, Verify(p) PROVE Orderly'
<1>1. /\ step[p] = "sending" /\ co' = co /\ alive' = alive /\ exits' = exits
      /\ disk' = disk /\ Reachable' = Reachable /\ found' = found /\ used' = used
      /\ importing = Nobody
      /\ \/ importing' = p /\ Becomes(p, call[p], "importing", blob[p])
         \/ importing' = importing /\ Becomes(p, "none", "idle", NoBlob)
  BY DEF Verify, OwnerFree, Goes, Ends, coordinator, store, Reachable
<1>2. call[p] \in Calls /\ blob[p] \in Blobs
  BY DEF Inv, Typed
<1>3. alive[p]
  BY <1>1 DEF Orderly, Placed
<1>4. /\ OnlyMover(p) /\ step'[p] \in {"importing", "idle"}
      /\ importing' = p => step'[p] = "importing"
  <2>1. CASE importing' = p /\ Becomes(p, call[p], "importing", blob[p])
    BY <1>1, <1>2, <2>1, CallMover DEF Steps
  <2>2. CASE importing' = importing /\ Becomes(p, "none", "idle", NoBlob)
    <3>1. OnlyMover(p) /\ step'[p] = "idle"
      BY <1>1, <2>2, CallMover DEF Steps, Calls, Blobs
    <3> QED
      BY <1>1, <2>2, <3>1, CoordinatorAssumption
  <2> QED
    BY <1>1, <2>1, <2>2
<1>5. Advances(co, co', Nobody)
  BY <1>1, UnmovedAdvances, OrderApart
<1>6. step[p] \notin Busy /\ step'[p] \notin Busy
  BY <1>1, <1>4 DEF Busy
<1> QED
  BY <1>1, <1>3, <1>4, <1>5, <1>6, CallOrderly

LEMMA CommitImportOrderly ==
  ASSUME Inv, Inv', Orderly, NEW p \in Procs, CommitImport(p) PROVE Orderly'
<1>1. /\ importing = p /\ importing' = Nobody /\ Becomes(p, "none", "idle", NoBlob)
      /\ co' = co /\ alive' = alive /\ exits' = exits /\ disk' = disk
      /\ found' = found /\ used' = used
      /\ Reachable \subseteq Reachable'
  BY DEF CommitImport, Ends, coordinator, Reachable
<1>2. step[p] = "importing" /\ p # Nobody
  BY <1>1, CoordinatorAssumption DEF Orderly, Placed
<1>3. OnlyMover(p) /\ step'[p] = "idle"
  BY <1>1, CallMover, CoordinatorAssumption DEF Calls, Steps, Blobs
<1>4. Advances(co, co', Nobody)
  BY <1>1, UnmovedAdvances, OrderApart
<1>5. step[p] \notin Busy /\ step'[p] \notin Busy
  BY <1>2, <1>3 DEF Busy
<1> QED
  BY <1>1, <1>2, <1>3, <1>4, <1>5, CallOrderly

LEMMA ProtectOrderly ==
  ASSUME Inv, Inv', Orderly, NEW p \in Procs, Protect(p) PROVE Orderly'
<1>1. /\ step[p] = "protecting" /\ Answered(p, "stored") /\ pending' = pending \cup {blob[p]}
      /\ co' = co /\ alive' = alive /\ exits' = exits /\ disk' = disk /\ retained' = retained
      /\ found' = found /\ importing' = importing /\ used' = used
  BY DEF Protect, coordinator, rest
<1>2. OnlyMover(p) /\ step'[p] \in {"stored", "idle"} /\ (~alive[p] => step'[p] = "idle")
  BY <1>1, AnsweredMover DEF Steps, InUse
<1>3. Advances(co, co', p)
  BY <1>1, UnmovedAdvances, AdvancesMore, OrderApart
<1>4. p \notin {co.token, co.waiter, co.followUp} /\ importing # p
  BY <1>1 DEF Orderly, Placed
<1>5. Placed(p)'
  BY <1>1, <1>2, <1>4 DEF Placed
<1>6. exits' = {} /\ used'.crashes = used.crashes
  BY <1>1 DEF Orderly
<1>7. \A x \in disk' \ Reachable' : x \in disk \ Reachable /\ ~CoveredBy(p, x)
  BY <1>1 DEF Reachable, CoveredBy
<1> QED
  BY <1>2, <1>3, <1>4, <1>5, <1>6, <1>7, OneOrderly

\* The task or the caller that asks for a collection covers what it found uncovered, or
\* leaves it to the call that is queued.
LEMMA BeginCollectionOrderly ==
  ASSUME Inv, Inv', Orderly, ~co.closing, NEW p \in Procs, BeginCollection(p),
         step[p] \in {"idle", "starting"}
  PROVE  Orderly'
<1>1. /\ alive[p] /\ BeginGc(p) /\ alive' = alive /\ exits' = exits /\ found' = found
      /\ importing' = importing /\ used' = used
      /\ disk' = disk /\ pending' = pending /\ retained' = retained
  BY DEF BeginCollection, Starts, At, OnlyClients, store, rest
<1>2. \/ Becomes(p, "gc", "waiting", NoBlob)
      \/ Becomes(p, call[p], "waiting", blob[p])
  BY DEF BeginCollection, Starts, Goes
<1>3. call[p] \in Calls /\ blob[p] \in Blobs
  BY DEF Inv, Typed
<1>4. OnlyMover(p) /\ step'[p] = "waiting"
  <2>1. CASE Becomes(p, "gc", "waiting", NoBlob)
    BY <1>1, <2>1, CallMover DEF Calls, Steps, Blobs
  <2>2. CASE Becomes(p, call[p], "waiting", blob[p])
    BY <1>1, <1>3, <2>2, CallMover DEF Steps
  <2> QED
    BY <1>2, <2>1, <2>2
<1>5. p \notin {co.token, co.waiter, co.followUp} /\ importing # p
  BY DEF Orderly, Placed
<1>6. Advances(co, co', p) /\ Begun(p)
  BY <1>1, <1>5, BeginAdvances, OrderApart DEF Inv
<1>7. Placed(p)'
  BY <1>1, <1>4, <1>5, <1>6 DEF Placed, Begun
<1>8. exits' = {} /\ used'.crashes = used.crashes
  BY <1>1 DEF Orderly
<1>9. ASSUME NEW x PROVE Covered(x)'
  <2>1. CASE co'.token = p \/ co'.waiter = p
    <3>1. CoveredBy(p, x)'
      BY <1>4, <2>1 DEF CoveredBy
    <3> QED
      BY <3>1 DEF Covered
  <2>2. CASE co'.followUp # Nobody
    <3>1. PICK q \in Procs : co'.followUp = q
      BY <2>2, SettledFields DEF Inv
    <3>2. step'[q] = "waiting"
      <4>1. CASE q = p
        BY <1>4, <4>1
      <4>2. CASE q # p
        <5>1. Placed(q)'
          BY <1>4, <1>6, <4>2, OthersPlaced
        <5> QED
          BY <3>1, <5>1 DEF Placed
      <4> QED
        BY <4>1, <4>2
    <3>3. CoveredBy(q, x)'
      BY <3>1, <3>2 DEF CoveredBy
    <3> QED
      BY <3>3 DEF Covered
  <2> QED
    BY <1>6, <2>1, <2>2 DEF Begun
<1> QED
  BY <1>4, <1>5, <1>6, <1>7, <1>8, <1>9, OneOrderly

LEMMA BeginAnsweredOrderly ==
  ASSUME Inv, Inv', Orderly, NEW p \in Procs, BeginAnswered(p) PROVE Orderly'
<1>1. /\ alive[p] /\ step[p] = "waiting" /\ co.answer[p] # "none" /\ Read(p)
      /\ exits' = exits /\ found' = found /\ importing' = importing /\ used' = used
      /\ disk' = disk /\ pending' = pending /\ retained' = retained
      /\ \/ co.answer[p] = "granted" /\ Becomes(p, call[p], "listing", blob[p]) /\ alive' = alive
         \/ co.answer[p] # "granted" /\ Return(p)
  BY DEF BeginAnswered, At, Goes, store, rest
<1>2. call[p] \in Calls /\ blob[p] \in Blobs
  BY DEF Inv, Typed
<1>3. p \notin {co.waiter, co.followUp} /\ importing # p
  BY <1>1 DEF Orderly, Placed
<1>4. AnswerOnly(p)
  BY <1>1, ReadAdvances DEF Inv
<1>5. Advances(co, co', p)
  BY <1>4, AnswerAdvances, OrderApart
<1>6. exits' = {} /\ used'.crashes = used.crashes
  BY <1>1 DEF Orderly
<1>7. p \notin {co'.waiter, co'.followUp} /\ co'.token = co.token
  BY <1>3, <1>4 DEF AnswerOnly
<1>8. CASE co.answer[p] = "granted" /\ Becomes(p, call[p], "listing", blob[p]) /\ alive' = alive
  <2>1. OnlyMover(p) /\ step'[p] = "listing"
    BY <1>1, <1>2, <1>8, CallMover DEF Steps
  <2>2. co.token = p
    BY <1>1, <1>8 DEF Inv, Known, Sound, Orderly
  <2>3. Placed(p)'
    BY <1>1, <1>3, <1>7, <1>8, <2>1 DEF Placed
  <2>4. ASSUME NEW x PROVE Covered(x)'
    <3>1. CoveredBy(p, x)'
      BY <1>7, <2>1, <2>2 DEF CoveredBy
    <3> QED
      BY <3>1 DEF Covered
  <2> QED
    BY <1>3, <1>5, <1>6, <2>1, <2>3, <2>4, OneOrderly
<1>9. CASE co.answer[p] # "granted" /\ Return(p)
  <2>1. /\ step'[p] = "idle"
        /\ \A q \in Procs \ {p} : step'[q] = step[q] /\ blob'[q] = blob[q]
    <3>1. Becomes(p, "none", "idle", NoBlob)
      BY <1>9 DEF Return, Ends
    <3> QED
      BY <3>1, Moving DEF Inv, Calls, Steps, Blobs
  <2>2. \A q \in Procs \ {p} : alive'[q] = alive[q]
    BY <1>9 DEF Return, Inv, Typed
  <2>3. OnlyMover(p)
    BY <1>1, <2>1, <2>2 DEF OnlyMover
  <2>4. co.token # p
    BY <1>1, <1>9 DEF Orderly, Placed
  <2>5. Placed(p)'
    BY <1>1, <1>3, <1>7, <2>1, <2>4 DEF Placed
  <2>6. \A x \in disk' \ Reachable' : x \in disk \ Reachable /\ ~CoveredBy(p, x)
    BY <1>1, <1>3, <2>4 DEF Reachable, CoveredBy
  <2> QED
    BY <1>3, <1>5, <1>6, <2>3, <2>5, <2>6, OneOrderly
<1> QED
  BY <1>1, <1>8, <1>9

\* A collection goes on: its token and its place are as before.
LEMMA RunOrderly ==
  ASSUME Inv, Inv', Orderly, NEW p \in Procs, alive[p],
         step[p] \in {"listing", "scanning", "deleting"},
         step'[p] \in {"scanning", "deleting"},
         UNCHANGED <<co, alive, exits, pending, retained, importing, used>>, disk' \subseteq disk,
         \A q \in Procs \ {p} :
           step'[q] = step[q] /\ blob'[q] = blob[q] /\ found'[q] = found[q],
         \A x \in disk' \ Reachable' : CoveredBy(p, x) => CoveredBy(p, x)'
  PROVE  Orderly'
<1>1. OnlyMover(p)
  BY DEF OnlyMover
<1>2. p \notin {co.waiter, co.followUp} /\ importing # p
  BY DEF Orderly, Placed
<1>3. Placed(p)'
  BY <1>2 DEF Placed
<1>4. Advances(co, co', p)
  BY UnmovedAdvances, AdvancesMore, OrderApart
<1>5. exits' = {} /\ used'.crashes = used.crashes
  BY DEF Orderly
<1>6. \A x \in disk' \ Reachable' :
        Covered(x)' \/ (x \in disk \ Reachable /\ ~CoveredBy(p, x))
  BY DEF Reachable, Covered
<1> QED
  BY <1>1, <1>2, <1>3, <1>4, <1>5, <1>6, OneOrderly

LEMMA ListOrderly ==
  ASSUME Inv, Inv', Orderly, NEW p \in Procs, List(p) PROVE Orderly'
<1>1. /\ alive[p] /\ step[p] = "listing" /\ Becomes(p, call[p], "scanning", blob[p])
      /\ found' = [found EXCEPT ![p] = Reachable]
      /\ UNCHANGED <<co, alive, exits, pending, retained, importing, used>> /\ disk' = disk
  BY DEF List, At, Goes, coordinator, store
<1>2. call[p] \in Calls /\ blob[p] \in Blobs
  BY DEF Inv, Typed
<1>3. /\ step'[p] = "scanning"
      /\ \A q \in Procs \ {p} : step'[q] = step[q] /\ blob'[q] = blob[q]
  BY <1>1, <1>2, Moving DEF Inv, Steps
<1>4. found'[p] = Reachable /\ \A q \in Procs \ {p} : found'[q] = found[q]
  BY <1>1 DEF Inv, Typed
<1>5. \A x \in disk' \ Reachable' : CoveredBy(p, x)'
  BY <1>1, <1>3, <1>4 DEF CoveredBy, Reachable
<1> QED
  BY <1>1, <1>3, <1>4, <1>5, RunOrderly

LEMMA ScanOrderly ==
  ASSUME Inv, Inv', Orderly, NEW p \in Procs, Scan(p) PROVE Orderly'
<1>1. /\ alive[p] /\ step[p] = "scanning" /\ Becomes(p, call[p], "deleting", blob[p])
      /\ found' = [found EXCEPT ![p] = disk \ found[p]]
      /\ UNCHANGED <<co, alive, exits, pending, retained, importing, used>> /\ disk' = disk
  BY DEF Scan, At, Goes, coordinator, store
<1>2. call[p] \in Calls /\ blob[p] \in Blobs
  BY DEF Inv, Typed
<1>3. /\ step'[p] = "deleting"
      /\ \A q \in Procs \ {p} : step'[q] = step[q] /\ blob'[q] = blob[q]
  BY <1>1, <1>2, Moving DEF Inv, Steps
<1>4. found'[p] = disk \ found[p] /\ \A q \in Procs \ {p} : found'[q] = found[q]
  BY <1>1 DEF Inv, Typed
<1>5. \A x \in disk' \ Reachable' : CoveredBy(p, x) => CoveredBy(p, x)'
  BY <1>1, <1>3, <1>4 DEF CoveredBy
<1> QED
  BY <1>1, <1>3, <1>4, <1>5, RunOrderly

LEMMA DeleteOrderly ==
  ASSUME Inv, Inv', Orderly, NEW p \in Procs, NEW d \in Digests, Delete(p, d) PROVE Orderly'
<1>1. /\ alive[p] /\ step[p] = "deleting" /\ step' = step /\ blob' = blob
      /\ found' = [found EXCEPT ![p] = found[p] \ {d}]
      /\ UNCHANGED <<co, alive, exits, pending, retained, importing, used>>
      /\ disk' = disk \ {d}
  BY DEF Delete, At, coordinator, clients
<1>2. found'[p] = found[p] \ {d} /\ \A q \in Procs \ {p} : found'[q] = found[q]
  BY <1>1 DEF Inv, Typed
<1>3. \A x \in disk' \ Reachable' : CoveredBy(p, x) => CoveredBy(p, x)'
  BY <1>1, <1>2 DEF CoveredBy
<1>4. /\ step'[p] \in {"scanning", "deleting"} /\ disk' \subseteq disk
      /\ \A q \in Procs \ {p} :
           step'[q] = step[q] /\ blob'[q] = blob[q] /\ found'[q] = found[q]
  BY <1>1, <1>2
<1>5. step[p] \in {"listing", "scanning", "deleting"}
  BY <1>1
<1> QED
  BY <1>1, <1>3, <1>4, <1>5, RunOrderly

LEMMA EndCollectionOrderly ==
  ASSUME Inv, Inv', Orderly, ~co.closing, NEW p \in Procs, EndCollection(p) PROVE Orderly'
<1>1. /\ alive[p] /\ (step[p] = "ending" \/ (step[p] = "deleting" /\ found[p] = {}))
      /\ EndGc(p) /\ Return(p)
      /\ exits' = exits /\ found' = found /\ importing' = importing /\ used' = used
      /\ disk' = disk /\ pending' = pending /\ retained' = retained
  BY DEF EndCollection, At, store, rest
<1>2. p \notin {co.waiter, co.followUp} /\ importing # p
  BY <1>1 DEF Orderly, Placed
<1>3. Advances(co, co', p) /\ p \notin {co'.token, co'.waiter, co'.followUp}
  BY <1>1, <1>2, EndAdvances, OrderApart DEF Inv
<1>4. /\ step'[p] = "idle"
      /\ \A q \in Procs \ {p} : step'[q] = step[q] /\ blob'[q] = blob[q]
  <2>1. Becomes(p, "none", "idle", NoBlob)
    BY <1>1 DEF Return, Ends
  <2> QED
    BY <2>1, Moving DEF Inv, Calls, Steps, Blobs
<1>5. \A q \in Procs \ {p} : alive'[q] = alive[q]
  BY <1>1 DEF Return, Inv, Typed
<1>6. OnlyMover(p)
  BY <1>1, <1>4, <1>5 DEF OnlyMover
<1>7. Placed(p)'
  BY <1>1, <1>2, <1>3, <1>4 DEF Placed
<1>8. exits' = {} /\ used'.crashes = used.crashes
  BY <1>1 DEF Orderly
<1>9. \A x \in disk' \ Reachable' : x \in disk \ Reachable /\ ~CoveredBy(p, x)
  BY <1>1 DEF Reachable, CoveredBy
<1> QED
  BY <1>2, <1>3, <1>6, <1>7, <1>8, <1>9, OneOrderly

\* The row goes, and a task is there that has not asked yet.
LEMMA CompactOrderly ==
  ASSUME Inv, Inv', Orderly, ~co.closing, NEW d \in Digests, Compact(d) PROVE Orderly'
<1>1. PICK t \in Tasks : Startable(t) /\ StartTask(t) /\ Becomes(t, "gc", "starting", NoBlob)
  BY DEF Compact
<1>2. /\ used' = [used EXCEPT !.compactions = used.compactions + 1]
      /\ disk' = disk /\ found' = found /\ importing' = importing
  BY DEF Compact
<1>3. t \in Procs
  BY AttachmentsAssumption
<1>4. /\ step'[t] = "starting"
      /\ \A q \in Procs \ {t} : step'[q] = step[q] /\ blob'[q] = blob[q]
  BY <1>1, <1>3, Moving DEF Inv, Calls, Steps, Blobs
<1>5. alive'[t] /\ \A q \in Procs \ {t} : alive'[q] = alive[q]
  BY <1>1, <1>3 DEF StartTask, Inv, Typed
<1>6. OnlyMover(t)
  BY <1>2, <1>4, <1>5 DEF OnlyMover
<1>7. ~alive[t] /\ t \notin {co.token, co.waiter, co.followUp} /\ importing # t
  BY <1>1, <1>3 DEF Startable, Orderly, Placed
<1>8. AnswerOnly(t)
  BY <1>1, <1>3, StartTaskAdvances DEF Inv
<1>9. Advances(co, co', t)
  BY <1>8, AnswerAdvances, OrderApart
<1>10. Placed(t)'
  BY <1>2, <1>4, <1>5, <1>7, <1>8 DEF Placed, AnswerOnly
<1>11. exits' = {} /\ used'.crashes = used.crashes
  BY <1>1, <1>2 DEF Orderly, StartTask, Inv, Typed
<1>12. ASSUME NEW x PROVE Covered(x)'
  <2>1. CoveredBy(t, x)'
    BY <1>4 DEF CoveredBy
  <2> QED
    BY <1>3, <2>1 DEF Covered
<1> QED
  BY <1>6, <1>7, <1>9, <1>10, <1>11, <1>12, OneOrderly

LEMMA HandleOrderly ==
  ASSUME Inv, Inv', Orderly, ~co.closing, Handle PROVE Orderly'
<1>1. UNCHANGED <<clients, store, rest>>
  BY DEF Handle
<1>2. ASSUME NEW g \in co.guards, GuardDown(g) PROVE Orderly'
  <2>1. Advances(co, co', Nobody)
    BY <1>2, GuardDownReleases, ReleaseAdvances, OrderApart DEF Inv
  <2> QED
    BY <1>1, <1>2, <2>1, NobodyOrderly DEF GuardDown
<1>3. CASE GcCallerDown
  <2>1. co.caller \in Procs /\ ~alive[co.caller]
    BY <1>3, SettledFields DEF GcCallerDown, Inv
  <2>2. co.token = co.caller \/ co.waiter = co.caller
    BY <2>1, CoordinatorAssumption DEF Inv, Settled, Coherent
  <2> QED
    BY <2>1, <2>2 DEF Orderly, Placed
<1>4. ASSUME NEW t \in Tasks, TaskDown(t) PROVE Orderly'
  <2>1. Advances(co, co', Nobody)
    BY <1>4, TaskDownAdvances, OrderApart DEF Inv
  <2> QED
    BY <1>1, <1>4, <2>1, NobodyOrderly DEF TaskDown
<1> QED
  BY <1>2, <1>3, <1>4 DEF Handle

LEMMA OrderKept ==
  ASSUME Inv, Inv', [Next]_vars, Undisturbed => Orderly, Undisturbed' PROVE Orderly'
<1>1. /\ Orderly /\ ~co.closing /\ exits = {}
      /\ \A n \in Nat : ~Fault(n)
  BY Undisturbing DEF Undisturbed, Orderly
<1>2. ASSUME NEW p \in Procs, Continue(p) \/ StoreFails(p) PROVE Orderly'
  <2>1. CASE \/ StartWorker(p) \/ StoreFails(p) \/ Finish(p) \/ Check(p) \/ Resolve(p)
             \/ Open(p) \/ CloseRead(p) \/ Transfer(p) \/ CloseAnswer(p)
    BY <1>1, <2>1, StepsOrderly
  <2>2. CASE Install(p) \/ Protect(p) \/ Commit(p) \/ Verify(p) \/ CommitImport(p)
    BY <1>1, <2>2, InstallOrderly, ProtectOrderly, CommitOrderly, VerifyOrderly,
       CommitImportOrderly
  <2>3. CASE step[p] = "starting" /\ BeginCollection(p)
    BY <1>1, <2>3, BeginCollectionOrderly
  <2>4. CASE BeginAnswered(p) \/ List(p) \/ Scan(p)
    BY <1>1, <2>4, BeginAnsweredOrderly, ListOrderly, ScanOrderly
  <2>5. CASE EndCollection(p) \/ \E d \in Digests : Delete(p, d)
    BY <1>1, <2>5, EndCollectionOrderly, DeleteOrderly
  <2> QED
    BY <1>2, <2>1, <2>2, <2>3, <2>4, <2>5 DEF Continue
<1>3. ASSUME NEW p \in Procs, Begin(p) PROVE Orderly'
  <2>1. ASSUME NEW d \in Digests,
               \/ StartUpload(p, d) \/ StartBatch(p, d) \/ StartMutation(p, d)
               \/ StartRead(p, d) \/ Diff(p, d)
        PROVE  Orderly'
    BY <1>1, <2>1, BeginCallOrderly
  <2>2. CASE step[p] = "idle" /\ BeginCollection(p)
    BY <1>1, <2>2, BeginCollectionOrderly
  <2>3. ~StartClose(p)
    BY BeginningClose DEF StartClose, Inv, Undisturbed
  <2> QED
    BY <1>3, <2>1, <2>2, <2>3 DEF Begin
<1>4. \A p \in Procs : ~Fails(p) /\ ~Kill(p)
  BY <1>1 DEF Fails, Kill
<1>5. ~Crash /\ \A d \in Digests : ~Expire(d)
  BY <1>1 DEF Crash, Expire
<1>6. ASSUME NEW d \in Digests, Compact(d) PROVE Orderly'
  BY <1>1, <1>6, CompactOrderly
<1>7. CASE Handle
  BY <1>1, <1>7, HandleOrderly
<1>8. CASE Limit
  BY <1>1, <1>8, LimitAdvances, OrderApart, NobodyOrderly DEF Limit, UpdateLimits, Inv
<1>9. CASE UNCHANGED vars
  BY <1>1, <1>9, UnmovedAdvances, OrderApart, NobodyOrderly DEF vars, coordinator
<1> QED
  BY <1>2, <1>3, <1>4, <1>5, <1>6, <1>7, <1>8, <1>9 DEF Next

(* Whatever a compaction leaves without a row is collected before the           *)
(* coordinator is free again (attachment_coordinator.ex, schedule_gc, begin_gc  *)
(* and promote_gc_follow_up; attachments.ex, run_gc), for any number of         *)
(* collections and compactions that overlap.                                    *)
THEOREM CompactionIsCollected == Spec => []CompactedIsCollected
<1>1. Init => (Undisturbed => Orderly)
  <2> SUFFICES ASSUME Init PROVE Orderly
    OBVIOUS
  <2>1. /\ co.token = Nobody /\ co.waiter = Nobody /\ co.followUp = Nobody
        /\ \A p \in Procs : step[p] = "idle"
        /\ importing = Nobody /\ disk = {} /\ exits = {} /\ used.crashes = 0
    BY DEF Init, CoInit, Started
  <2>2. \A p \in Procs : Placed(p)
    BY <2>1, CoordinatorAssumption DEF Placed
  <2> QED
    BY <2>1, <2>2 DEF Orderly
<1>2. Inv /\ Inv' /\ [Next]_vars /\ (Undisturbed => Orderly) => (Undisturbed => Orderly)'
  BY OrderKept
<1>3. Inv /\ (Undisturbed => Orderly) => CompactedIsCollected
  <2> SUFFICES ASSUME Inv, Orderly, ~co.barrier, NEW x \in disk \ Reachable,
                      \A p \in Procs : step[p] \notin {"starting", "protecting"}
               PROVE  FALSE
    BY DEF CompactedIsCollected
  <2>1. co.token = Nobody /\ co.waiter = Nobody /\ co.followUp = Nobody
    BY DEF Inv, Settled, Coherent
  <2>2. PICK p \in Procs : CoveredBy(p, x)
    BY DEF Orderly, Covered
  <2>3. step[p] \in {"scanning", "deleting"}
    BY <2>1, <2>2, CoordinatorAssumption DEF CoveredBy
  <2>4. alive[p]
    BY <2>3 DEF Orderly, Placed
  <2>5. co.token = p
    BY <2>3, <2>4 DEF Inv, Known, Sound, Orderly
  <2> QED
    BY <2>1, <2>5, CoordinatorAssumption
<1> QED
  BY <1>1, <1>2, <1>3, AttachmentsInvariant, PTL DEF Spec
==============================================================================
