----------------------------- MODULE WriterPool -----------------------------
(***************************************************************************)
(* The writer pool of one open disk database (runtime/writer_pool.ex), its *)
(* slots (runtime/writer_slot.ex), the callers of concurrent writes, and   *)
(* the callers of serial commands, which take the writer barrier before    *)
(* their command runs on the database owner (runtime/database_catalog.ex). *)
(*                                                                         *)
(* The pool is one process: each of its steps is one message handler, with *)
(* the grant loop that ends it.  Slots, callers and the owner run beside   *)
(* it, may die between two of their steps, and their messages and exits    *)
(* wait until the pool handles them.  A slot here is one process: the      *)
(* supervisor starts another for one that died.                            *)
(*                                                                         *)
(* A serial command may change what writers keep in per-connection caches  *)
(* (index and view definitions, replication marks): `generation' counts    *)
(* such changes, and `loaded' is the generation a slot's caches hold.      *)
(***************************************************************************)
EXTENDS Integers, Sequences, FiniteSets

CONSTANTS
  Slots,             \* slot processes, those started after a death included
  Requests,          \* concurrent writes, each submitted once
  Documents,         \* documents they touch
  DocumentsOf,       \* Requests -> SUBSET Documents; empty: id made by the server
  Serials,           \* callers of one serial command each
  EffectiveWriters,  \* slots the supervisor keeps running
  QueueLimit,        \* write_queue_limit
  MaxCloses,         \* bound: attempts to close the database
  NoRequest          \* what a slot without a job has

ASSUME DocumentsAssumption == DocumentsOf \in [Requests -> SUBSET Documents]
ASSUME LimitsAssumption ==
  EffectiveWriters \in Nat \ {0} /\ QueueLimit \in Nat \ {0} /\ MaxCloses \in Nat
ASSUME NoneAssumption == NoRequest \notin Requests

VARIABLES
  idle,        \* queue of slots without a job
  busy,        \* the job each slot was given, or NoRequest
  held,        \* documents of those jobs
  waiters,     \* queue of writes not yet given to a slot
  cancelled,   \* jobs whose caller withdrew
  registered,  \* slots the pool monitors
  enabled,     \* the status in the registry, which routing reads
  closing,     \* begin_close was called and not undone
  tokens,      \* callers that hold the barrier or wait for it
  parked,      \* those that wait: quiesce calls not yet answered
  epoch,       \* the cache epoch
  life,        \* each slot: "unborn", "alive" or "dead"
  doing,       \* the job a slot works on, or NoRequest
  step,        \* where it is: "free", "writing", "reporting" or "replying"
  seen,        \* the epoch a slot saw when it last dropped its caches
  loaded,      \* the generation its caches hold; 0: empty
  connected,   \* slots whose writer connection is open
  call,        \* where the caller of each write is
  accepted,    \* history: the writes queued so far, in order of arrival
  phase,       \* where each serial caller is
  command,     \* where its command is: "none", "queued", "running", "over"
  generation,  \* serial changes to cached facts so far, from 1
  escaped,     \* history: was a command at the owner without its barrier?
  closer,      \* the catalog's close: "none", "draining" or "drained"
  closes       \* attempts so far (bound)

poolVars   == <<idle, busy, held, waiters, cancelled, registered, enabled,
                closing, tokens, parked, epoch>>
slotVars   == <<life, doing, step, seen, loaded, connected>>
callerVars == <<call, accepted>>
serialVars == <<phase, command, generation, escaped>>
closeVars  == <<closer, closes>>
vars == <<poolVars, slotVars, callerVars, serialVars, closeVars>>

Free == [s \in Slots |-> NoRequest]

Init ==
  /\ idle = <<>> /\ busy = Free /\ held = {} /\ waiters = <<>>
  /\ cancelled = {} /\ registered = {} /\ enabled = FALSE /\ closing = FALSE
  /\ tokens = {} /\ parked = {} /\ epoch = 0
  /\ life = [s \in Slots |-> "unborn"]
  /\ doing = Free /\ step = [s \in Slots |-> "free"]
  /\ seen = [s \in Slots |-> 0] /\ loaded = [s \in Slots |-> 0]
  /\ connected = {}
  /\ call = [r \in Requests |-> "new"] /\ accepted = <<>>
  /\ phase = [c \in Serials |-> "new"]
  /\ command = [c \in Serials |-> "none"]
  /\ generation = 1 /\ escaped = FALSE
  /\ closer = "none" /\ closes = 0

-----------------------------------------------------------------------------
(* Scheduling: which waiters may start, and the loop that starts them.     *)

RangeOf(q) == {q[i] : i \in DOMAIN q}

Place(i, S) == Cardinality({j \in S : j <= i})

(* The queue without the members of S, in the same order.                  *)
Without(q, S) ==
  LET kept == {i \in DOMAIN q : q[i] \notin S}
  IN [n \in 1..Cardinality(kept) |-> q[CHOOSE i \in kept : Place(i, kept) = n]]

DocumentsIn(R) == UNION {DocumentsOf[r] : r \in R}

(* Documents the waiter at i must leave alone: those of running writes and *)
(* of every write queued before it.                                        *)
Blocked(ws, docs, i) == docs \cup DocumentsIn({ws[j] : j \in 1..(i - 1)})

Ready(ws, docs) ==
  {i \in DOMAIN ws : DocumentsOf[ws[i]] \cap Blocked(ws, docs, i) = {}}

(* grant_loop: ready waiters, in order, to idle slots, in order.  A grant  *)
(* moves documents from the queue to the held ones, so it leaves every     *)
(* other waiter as ready or as blocked as it was.                          *)
GrantLoop(slots, ws, jobs, docs, stopped) ==
  LET ready   == Ready(ws, docs)
      chosen  == IF stopped THEN {}
                 ELSE {i \in ready : Place(i, ready) <= Len(slots)}
      started == {ws[i] : i \in chosen}
  IN /\ idle' = SubSeq(slots, Cardinality(chosen) + 1, Len(slots))
     /\ waiters' = Without(ws, started)
     /\ held' = docs \cup DocumentsIn(started)
     /\ busy' = [s \in Slots |->
          IF \E i \in chosen : slots[Place(i, ready)] = s
            THEN ws[CHOOSE i \in chosen : slots[Place(i, ready)] = s]
            ELSE jobs[s]]

Paused == closing \/ tokens # {}
Running(jobs) == {s \in Slots : jobs[s] # NoRequest}

(* finish_drain: once nothing runs, parked barrier and close callers hear. *)
FinishDrain(jobs) ==
  IF Running(jobs) # {} THEN UNCHANGED <<parked, phase, closer>>
  ELSE /\ parked' = {}
       /\ phase' = [c \in Serials |->
            IF c \in parked /\ phase[c] = "quiescing" THEN "holding" ELSE phase[c]]
       /\ closer' = IF closer = "draining" THEN "drained" ELSE closer

Answered(R) ==
  [r \in Requests |-> IF r \in R /\ call[r] = "waiting" THEN "answered" ELSE call[r]]

-----------------------------------------------------------------------------
(* Slots.                                                                  *)

Alive == {s \in Slots : life[s] = "alive"}

(* The supervisor starts a slot: it opens a connection and registers.      *)
SlotStarts(s) ==
  /\ life[s] = "unborn" /\ Cardinality(Alive) < EffectiveWriters
  /\ life' = [life EXCEPT ![s] = "alive"]
  /\ connected' = connected \cup {s}
  /\ seen' = [seen EXCEPT ![s] = epoch]
  /\ registered' = registered \cup {s}
  /\ enabled' = ~closing
  /\ GrantLoop(Append(idle, s), waiters, busy, held, Paused)
  /\ UNCHANGED <<cancelled, closing, tokens, parked, epoch, doing, step,
                 loaded, callerVars, serialVars, closeVars>>

(* A job is taken: caches are dropped when the epoch moved, and filled     *)
(* again as the write goes, at the earliest now (the worst case for what   *)
(* they may miss).  Without a connection the job just fails.               *)
SlotBegins(s) ==
  /\ life[s] = "alive" /\ step[s] = "free" /\ busy[s] # NoRequest
  /\ doing' = [doing EXCEPT ![s] = busy[s]]
  /\ IF s \in connected
       THEN LET kept == IF seen[s] = epoch THEN loaded[s] ELSE 0
            IN /\ step' = [step EXCEPT ![s] = "writing"]
               /\ seen' = [seen EXCEPT ![s] = epoch]
               /\ loaded' = [loaded EXCEPT ![s] =
                    IF kept = 0 THEN generation ELSE kept]
       ELSE /\ step' = [step EXCEPT ![s] = "reporting"]
            /\ UNCHANGED <<seen, loaded>>
  /\ UNCHANGED <<poolVars, life, connected, callerVars, serialVars, closeVars>>

(* The transaction ended, after the retries of conflicts; the pool is told. *)
SlotFinishes(s) ==
  /\ life[s] = "alive" /\ step[s] = "writing"
  /\ step' = [step EXCEPT ![s] = "reporting"]
  /\ UNCHANGED <<poolVars, life, doing, seen, loaded, connected, callerVars,
                 serialVars, closeVars>>

(* The pool frees the documents and, if it still lives, the slot.  Only an *)
(* exit handled by SlotDown takes a job away, and that comes after this.   *)
Complete(s) ==
  /\ step[s] = "reporting"
  /\ LET jobs == [busy EXCEPT ![s] = NoRequest]
         free == IF life[s] = "alive" /\ s \notin RangeOf(idle)
                   THEN Append(idle, s) ELSE idle
         job  == busy[s]
     IN /\ FinishDrain(jobs)
        /\ GrantLoop(free, waiters, jobs, held \ DocumentsOf[job], Paused)
        /\ cancelled' = cancelled \ {job}
        /\ IF job \in cancelled
             THEN /\ step' = [step EXCEPT ![s] = "free"]
                  /\ doing' = [doing EXCEPT ![s] = NoRequest]
             ELSE /\ step' = [step EXCEPT ![s] = "replying"]
                  /\ UNCHANGED doing
  /\ UNCHANGED <<registered, enabled, closing, tokens, epoch, life, seen,
                 loaded, connected, callerVars, command, generation, escaped,
                 closes>>

(* The pool said :reply, so the slot answers the caller.                   *)
SlotReplies(s) ==
  /\ life[s] = "alive" /\ step[s] = "replying"
  /\ call' = Answered({doing[s]})
  /\ step' = [step EXCEPT ![s] = "free"]
  /\ doing' = [doing EXCEPT ![s] = NoRequest]
  /\ UNCHANGED <<poolVars, life, seen, loaded, connected, accepted,
                 serialVars, closeVars>>

(* A slot dies wherever it is; a call it has sent still arrives.           *)
SlotDies(s) ==
  /\ life[s] = "alive"
  /\ \E t \in Slots : life[t] = "unborn"
  /\ life' = [life EXCEPT ![s] = "dead"]
  /\ connected' = connected \ {s}
  /\ IF step[s] = "reporting"
       THEN UNCHANGED <<doing, step>>
       ELSE /\ doing' = [doing EXCEPT ![s] = NoRequest]
            /\ step' = [step EXCEPT ![s] = "free"]
  /\ seen' = [seen EXCEPT ![s] = 0] /\ loaded' = [loaded EXCEPT ![s] = 0]
  /\ UNCHANGED <<poolVars, callerVars, serialVars, closeVars>>

(* Variant: does not tell those who wait for the last write to finish.     *)
SlotDownUndrained(s) ==
  /\ life[s] = "dead" /\ s \in registered /\ step[s] # "reporting"
  /\ LET job  == busy[s]
         jobs == [busy EXCEPT ![s] = NoRequest]
         docs == IF job = NoRequest THEN held ELSE held \ DocumentsOf[job]
     IN /\ registered' = registered \ {s}
        /\ enabled' = (registered' # {} /\ ~closing)
        /\ call' = Answered({job} \ cancelled)
        /\ cancelled' = cancelled \ {job}
        /\ GrantLoop(Without(idle, {s}), waiters, jobs, docs, Paused)
  /\ UNCHANGED <<closing, tokens, epoch, slotVars, accepted, parked, serialVars,
                 closeVars>>

(* Its monitor fires: the job it was given is answered with an error.      *)
SlotDown(s) ==
  /\ life[s] = "dead" /\ s \in registered /\ step[s] # "reporting"
  /\ LET job  == busy[s]
         jobs == [busy EXCEPT ![s] = NoRequest]
         docs == IF job = NoRequest THEN held ELSE held \ DocumentsOf[job]
     IN /\ registered' = registered \ {s}
        /\ enabled' = (registered' # {} /\ ~closing)
        /\ call' = Answered({job} \ cancelled)
        /\ cancelled' = cancelled \ {job}
        /\ FinishDrain(jobs)
        /\ GrantLoop(Without(idle, {s}), waiters, jobs, docs, Paused)
  /\ UNCHANGED <<closing, tokens, epoch, slotVars, accepted, command,
                 generation, escaped, closes>>

-----------------------------------------------------------------------------
(* Callers of concurrent writes.                                           *)

(* A caller was routed here if the registry said enabled at some earlier   *)
(* time: since the first slot registered.                                  *)
Routed(r) == call[r] = "new" /\ \E s \in Slots : life[s] # "unborn"

(* Occupancy counts running writes and waiters that could start.           *)
Occupancy == Cardinality(Running(busy)) + Cardinality(Ready(waiters, held))

OverLimit(r) ==
  /\ DocumentsOf[r] \cap Blocked(waiters, held, Len(waiters) + 1) = {}
  /\ Occupancy >= EffectiveWriters + QueueLimit

Refused(r) == closing \/ OverLimit(r)

ExecuteRefused(r) ==
  /\ Routed(r) /\ Refused(r)
  /\ call' = [call EXCEPT ![r] = "answered"]
  /\ UNCHANGED <<poolVars, slotVars, accepted, serialVars, closeVars>>

(* Variant: the new write is looked at before those already queued.        *)
ExecuteFirst(r) ==
  /\ Routed(r) /\ ~Refused(r)
  /\ call' = [call EXCEPT ![r] = "waiting"]
  /\ accepted' = Append(accepted, r)
  /\ GrantLoop(idle, <<r>> \o waiters, busy, held, Paused)
  /\ UNCHANGED <<cancelled, registered, enabled, closing, tokens, parked, epoch,
                 slotVars, serialVars, closeVars>>

(* A write is queued behind the others, and perhaps granted at once.       *)
Execute(r) ==
  /\ Routed(r) /\ ~Refused(r)
  /\ call' = [call EXCEPT ![r] = "waiting"]
  /\ accepted' = Append(accepted, r)
  /\ GrantLoop(idle, Append(waiters, r), busy, held, Paused)
  /\ UNCHANGED <<cancelled, registered, enabled, closing, tokens, parked, epoch,
                 slotVars, serialVars, closeVars>>

(* The caller's deadline passes: it will withdraw its request.             *)
CallerExpires(r) ==
  /\ call[r] = "waiting"
  /\ call' = [call EXCEPT ![r] = "expired"]
  /\ UNCHANGED <<poolVars, slotVars, accepted, serialVars, closeVars>>

(* Variant: the documents of a cancelled running write are free at once.   *)
CancelReleases(r) ==
  /\ call[r] = "expired"
  /\ call' = [call EXCEPT ![r] = "withdrawn"]
  /\ LET running == {r} \cap {busy[s] : s \in Slots}
     IN /\ cancelled' = cancelled \cup running
        /\ GrantLoop(idle, Without(waiters, {r}), busy,
                     held \ DocumentsIn(running), Paused)
  /\ UNCHANGED <<registered, enabled, closing, tokens, parked, epoch, slotVars,
                 accepted, serialVars, closeVars>>

(* cancel: a queued request leaves; a running one will not be answered.    *)
Cancel(r) ==
  /\ call[r] = "expired"
  /\ call' = [call EXCEPT ![r] = "withdrawn"]
  /\ IF r \in RangeOf(waiters)
       THEN /\ GrantLoop(idle, Without(waiters, {r}), busy, held, Paused)
            /\ UNCHANGED cancelled
       ELSE /\ cancelled' = cancelled \cup
                 (IF \E s \in Slots : busy[s] = r THEN {r} ELSE {})
            /\ UNCHANGED <<idle, waiters, busy, held>>
  /\ UNCHANGED <<registered, enabled, closing, tokens, parked, epoch, slotVars,
                 accepted, serialVars, closeVars>>

CallerDies(r) ==
  /\ call[r] \in {"waiting", "expired"}
  /\ call' = [call EXCEPT ![r] = "dead"]
  /\ UNCHANGED <<poolVars, slotVars, accepted, serialVars, closeVars>>

(* The exit of a queued caller removes its request, and grants nothing;    *)
(* a granted one is no longer monitored.                                   *)
CallerDown(r) ==
  /\ call[r] = "dead" /\ r \in RangeOf(waiters)
  /\ waiters' = Without(waiters, {r})
  /\ UNCHANGED <<idle, busy, held, cancelled, registered, enabled, closing,
                 tokens, parked, epoch, slotVars, callerVars, serialVars,
                 closeVars>>

-----------------------------------------------------------------------------
(* Callers of serial commands, and the owner that runs those.              *)

AtOwner(c) == command[c] \in {"queued", "running"}

(* The registry is read: with a pool, the barrier comes first; without     *)
(* one, the command goes to the owner as it is.                            *)
RouteSerial(c) ==
  /\ phase[c] = "new"
  /\ IF enabled
       THEN /\ phase' = [phase EXCEPT ![c] = "routed"]
            /\ UNCHANGED <<command, escaped>>
       ELSE /\ phase' = [phase EXCEPT ![c] = "direct"]
            /\ command' = [command EXCEPT ![c] = "queued"]
            /\ escaped' = TRUE
  /\ UNCHANGED <<poolVars, slotVars, callerVars, generation, closeVars>>

(* Variant: answered at once, whatever runs.                               *)
QuiesceAtOnce(c) ==
  /\ phase[c] = "routed"
  /\ tokens' = tokens \cup {c}
  /\ phase' = [phase EXCEPT ![c] = "holding"]
  /\ UNCHANGED <<idle, busy, held, waiters, cancelled, registered, enabled,
                 closing, parked, epoch, slotVars, callerVars, command,
                 generation, escaped, closeVars>>

(* quiesce: answered now if nothing runs, else once nothing does.          *)
Quiesce(c) ==
  /\ phase[c] = "routed"
  /\ tokens' = tokens \cup {c}
  /\ IF Running(busy) = {}
       THEN phase' = [phase EXCEPT ![c] = "holding"] /\ UNCHANGED parked
       ELSE phase' = [phase EXCEPT ![c] = "quiescing"] /\ parked' = parked \cup {c}
  /\ UNCHANGED <<idle, busy, held, waiters, cancelled, registered, enabled,
                 closing, epoch, slotVars, callerVars, command, generation,
                 escaped, closeVars>>

SubmitSerial(c) ==
  /\ phase[c] = "holding"
  /\ phase' = [phase EXCEPT ![c] = "submitted"]
  /\ command' = [command EXCEPT ![c] = "queued"]
  /\ UNCHANGED <<poolVars, slotVars, callerVars, generation, escaped, closeVars>>

(* The owner runs one command at a time, whether or not anybody waits.     *)
OwnerBegins(c) ==
  /\ command[c] = "queued"
  /\ \A d \in Serials : command[d] # "running"
  /\ command' = [command EXCEPT ![c] = "running"]
  /\ UNCHANGED <<poolVars, slotVars, callerVars, phase, generation, escaped,
                 closeVars>>

(* A caller that is done with its command gives back the barrier it holds. *)
Leaving(c) ==
  CASE phase[c] = "direct" -> "done"
    [] phase[c] \in {"quiescing", "holding", "submitted"} -> "resuming"
    [] OTHER -> phase[c]

(* The command changed a cached fact; the caller is answered, if it waits. *)
OwnerEnds(c) ==
  /\ command[c] = "running"
  /\ command' = [command EXCEPT ![c] = "over"]
  /\ generation' = generation + 1
  /\ phase' = [phase EXCEPT ![c] = Leaving(c)]
  /\ UNCHANGED <<poolVars, slotVars, callerVars, escaped, closeVars>>

(* The caller's deadline passes, or admission refuses the command.  One    *)
(* that has reached the owner's mailbox stays there and will run.          *)
SerialGivesUp(c) ==
  /\ phase[c] \in {"quiescing", "holding", "submitted", "direct"}
  /\ phase' = [phase EXCEPT ![c] = Leaving(c)]
  /\ \/ UNCHANGED command
     \/ command[c] = "queued" /\ command' = [command EXCEPT ![c] = "over"]
  /\ UNCHANGED <<poolVars, slotVars, callerVars, generation, escaped, closeVars>>

(* Variants: the epoch stays; nothing is granted.                          *)
EndBarrierSameEpoch(c) ==
  /\ tokens' = tokens \ {c} /\ parked' = parked \ {c}
  /\ escaped' = (escaped \/ AtOwner(c))
  /\ GrantLoop(idle, waiters, busy, held, closing \/ tokens' # {})
  /\ UNCHANGED <<cancelled, registered, enabled, closing, epoch>>

EndBarrierSilent(c) ==
  /\ tokens' = tokens \ {c} /\ parked' = parked \ {c}
  /\ epoch' = epoch + 1
  /\ escaped' = (escaped \/ AtOwner(c))
  /\ UNCHANGED <<cancelled, registered, enabled, closing, idle, waiters, busy,
                 held>>

(* end_barrier: the epoch moves with every barrier that ends.              *)
EndBarrier(c) ==
  /\ IF c \in tokens
       THEN tokens' = tokens \ {c} /\ parked' = parked \ {c} /\ epoch' = epoch + 1
       ELSE UNCHANGED <<tokens, parked, epoch>>
  /\ escaped' = (escaped \/ AtOwner(c))
  /\ GrantLoop(idle, waiters, busy, held, closing \/ tokens' # {})
  /\ UNCHANGED <<cancelled, registered, enabled, closing>>

Resume(c) ==
  /\ phase[c] = "resuming"
  /\ phase' = [phase EXCEPT ![c] = "done"]
  /\ EndBarrier(c)
  /\ UNCHANGED <<slotVars, callerVars, command, generation, closeVars>>

SerialDies(c) ==
  /\ phase[c] \in {"quiescing", "holding", "submitted", "direct", "resuming"}
  /\ phase' = [phase EXCEPT ![c] = "dead"]
  /\ UNCHANGED <<poolVars, slotVars, callerVars, command, generation, escaped,
                 closeVars>>

(* The exit of a caller that holds the barrier, or waits for it, ends it.  *)
HolderDown(c) ==
  /\ phase[c] = "dead" /\ c \in tokens
  /\ EndBarrier(c)
  /\ UNCHANGED <<slotVars, callerVars, phase, command, generation, closeVars>>

-----------------------------------------------------------------------------
(* Closing the database.                                                   *)

(* Variant: the queue keeps the writes it answered.                        *)
BeginCloseKeepsQueue ==
  /\ closer = "none" /\ closes < MaxCloses
  /\ closes' = closes + 1
  /\ closing' = TRUE /\ enabled' = FALSE
  /\ call' = Answered(RangeOf(waiters))
  /\ closer' = IF Running(busy) = {} THEN "drained" ELSE "draining"
  /\ UNCHANGED <<idle, busy, held, waiters, cancelled, registered, tokens,
                 parked, epoch, slotVars, accepted, serialVars>>

(* New writes are refused, queued ones answered, running ones waited for.  *)
BeginClose ==
  /\ closer = "none" /\ closes < MaxCloses
  /\ closes' = closes + 1
  /\ closing' = TRUE /\ enabled' = FALSE
  /\ call' = Answered(RangeOf(waiters))
  /\ waiters' = <<>>
  /\ closer' = IF Running(busy) = {} THEN "drained" ELSE "draining"
  /\ UNCHANGED <<idle, busy, held, cancelled, registered, tokens, parked, epoch,
                 slotVars, accepted, serialVars>>

(* The slots' connections are closed before the runtime stops.             *)
CloseWriters ==
  /\ closer = "drained"
  /\ connected' = connected \ registered
  /\ UNCHANGED <<poolVars, life, doing, step, seen, loaded, callerVars,
                 serialVars, closeVars>>

(* The close is abandoned: it timed out, or a later part of it failed.     *)
CancelClose ==
  /\ closer # "none"
  /\ closer' = "none"
  /\ closing' = FALSE
  /\ enabled' = (registered # {})
  /\ GrantLoop(idle, waiters, busy, held, tokens # {})
  /\ UNCHANGED <<cancelled, registered, tokens, parked, epoch, slotVars,
                 callerVars, serialVars, closes>>

Next ==
  \/ \E s \in Slots : SlotStarts(s)
  \/ \E s \in Slots : SlotBegins(s)
  \/ \E s \in Slots : SlotFinishes(s)
  \/ \E s \in Slots : Complete(s)
  \/ \E s \in Slots : SlotReplies(s)
  \/ \E s \in Slots : SlotDies(s)
  \/ \E s \in Slots : SlotDown(s)
  \/ \E r \in Requests : ExecuteRefused(r)
  \/ \E r \in Requests : Execute(r)
  \/ \E r \in Requests : CallerExpires(r)
  \/ \E r \in Requests : Cancel(r)
  \/ \E r \in Requests : CallerDies(r)
  \/ \E r \in Requests : CallerDown(r)
  \/ \E c \in Serials : RouteSerial(c)
  \/ \E c \in Serials : Quiesce(c)
  \/ \E c \in Serials : SubmitSerial(c)
  \/ \E c \in Serials : OwnerBegins(c)
  \/ \E c \in Serials : OwnerEnds(c)
  \/ \E c \in Serials : SerialGivesUp(c)
  \/ \E c \in Serials : Resume(c)
  \/ \E c \in Serials : SerialDies(c)
  \/ \E c \in Serials : HolderDown(c)
  \/ BeginClose
  \/ CloseWriters
  \/ CancelClose

Spec == Init /\ [][Next]_vars

(* Scheduling: a message that arrived is handled, a process that can go on *)
(* does, a command at the owner ends, and the supervisor starts a slot for *)
(* one that died.  Nothing is owed by deaths, deadlines, new commands or a *)
(* close.                                                                  *)
Fairness ==
  /\ \A s \in Slots :
       /\ WF_vars(SlotStarts(s)) /\ WF_vars(SlotDown(s))
       /\ WF_vars(SlotBegins(s)) /\ WF_vars(SlotFinishes(s))
       /\ WF_vars(Complete(s)) /\ WF_vars(SlotReplies(s))
  /\ \A r \in Requests : WF_vars(Cancel(r)) /\ WF_vars(CallerDown(r))
  /\ \A c \in Serials :
       /\ WF_vars(Quiesce(c)) /\ WF_vars(SubmitSerial(c))
       /\ SF_vars(OwnerBegins(c)) /\ WF_vars(OwnerEnds(c))
       /\ WF_vars(Resume(c)) /\ WF_vars(HolderDown(c))

FairSpec == Spec /\ Fairness

-----------------------------------------------------------------------------
(* Properties.                                                             *)

TypeOK ==
  /\ idle \in Seq(Slots) /\ waiters \in Seq(Requests)
  /\ busy \in [Slots -> Requests \cup {NoRequest}]
  /\ held \subseteq Documents /\ cancelled \subseteq Requests
  /\ registered \subseteq Slots /\ connected \subseteq Slots
  /\ enabled \in BOOLEAN /\ closing \in BOOLEAN /\ escaped \in BOOLEAN
  /\ tokens \subseteq Serials /\ parked \subseteq tokens
  /\ epoch \in Nat /\ generation \in Nat \ {0} /\ closes \in Nat
  /\ life \in [Slots -> {"unborn", "alive", "dead"}]
  /\ doing \in [Slots -> Requests \cup {NoRequest}]
  /\ step \in [Slots -> {"free", "writing", "reporting", "replying"}]
  /\ seen \in [Slots -> Nat] /\ loaded \in [Slots -> Nat]
  /\ call \in [Requests -> {"new", "waiting", "expired", "dead", "answered",
                            "withdrawn"}]
  /\ accepted \in Seq(Requests)
  /\ phase \in [Serials -> {"new", "routed", "quiescing", "holding",
                            "submitted", "direct", "resuming", "done", "dead"}]
  /\ command \in [Serials -> {"none", "queued", "running", "over"}]
  /\ closer \in {"none", "draining", "drained"}

Writing == {s \in Slots : step[s] = "writing"}

(* Two writes that touch the same document never run at the same time,     *)
(* with cancelled jobs, dead slots and reused slots.                       *)
DocumentExclusion ==
  \A s, t \in Writing :
    s # t => DocumentsOf[doing[s]] \cap DocumentsOf[doing[t]] = {}

(* Writes to one document run in the order they arrived: when one runs, no *)
(* earlier one that touches a document of it is queued or given to a slot. *)
WriteOrder ==
  \A s \in Writing, i, j \in DOMAIN accepted :
    /\ accepted[j] = doing[s] /\ i < j
    /\ DocumentsOf[accepted[i]] \cap DocumentsOf[doing[s]] # {}
    => /\ accepted[i] \notin RangeOf(waiters)
       /\ \A t \in Slots : busy[t] # accepted[i]

(* From the answer to its quiesce until it gives the barrier back, a       *)
(* serial caller has every writer stopped.                                 *)
BarrierHolds ==
  (\E c \in tokens : phase[c] \in {"holding", "submitted"}) => Writing = {}

(* No write uses cached facts older than the last serial change to them,   *)
(* as long as every serial command ran inside its barrier.                 *)
FencedCachesFresh ==
  ~escaped => \A s \in Writing : loaded[s] = generation

(* A caller is answered once its write is over or will never start: an     *)
(* answered write is not queued and no slot has it.                        *)
AnsweredIsOver ==
  \A r \in Requests : call[r] = "answered" =>
    r \notin RangeOf(waiters) /\ \A s \in Slots : busy[s] # r

(* A queued write leaves the queue, whatever happens to slots, callers,    *)
(* barriers and closes: no message the pool handles forgets it there.      *)
QueueDrains ==
  \A r \in Requests : r \in RangeOf(waiters) ~> r \notin RangeOf(waiters)

(* A barrier that waits for running writes is granted or given up.         *)
BarrierGranted == \A c \in Serials : c \in parked ~> c \notin parked
=============================================================================
