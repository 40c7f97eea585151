--------------------------- MODULE SequenceLedger ---------------------------
(***************************************************************************)
(* The sequence ledger of one open disk database and the writers it        *)
(* serves: runtime/sequence_ledger.ex with the reservation the writing     *)
(* process carries (storage/services/sequences.ex), the transaction that   *)
(* stores the change rows (storage/sqlite/transaction.ex) and the wait     *)
(* that ends a write (runtime/mutation_commands.ex).                       *)
(*                                                                         *)
(* A writer is a process that runs sequence-producing commands: a slot of  *)
(* the writer pool or the database owner, with the caller that waits for   *)
(* its answer.  It reserves a range, takes numbers from it inside its      *)
(* transaction, commits or rolls back, completes the reservation and waits *)
(* until the write is visible.  Any process may die between two steps, and *)
(* a call of the ledger may be handled after its caller gave it up.        *)
(*                                                                         *)
(* A step of the ledger is one message handler.  The two atomics of its    *)
(* view cell are written one after the other, so a handler that publishes  *)
(* is two steps here, and readers may run between them.                    *)
(***************************************************************************)
EXTENDS Integers, FiniteSets

CONSTANTS
  Writers,        \* processes that run sequence-producing commands
  Block,          \* how far P is raised past what is needed (@block, 4096)
  MaxCount,       \* bound: largest reservation a command asks for
  MaxSeq,         \* bound: highest sequence handed out
  MaxVersion,     \* bound: highest data version
  MaxRestarts,    \* bound: crashes and failed openings, together
  Indexed         \* has the database full-text indexes, whose owner a write
                  \* tells of its changes after its COMMIT?

ASSUME BlockAssumption == Block \in Nat \ {0}
ASSUME BoundsAssumption ==
  /\ MaxCount \in Nat \ {0}
  /\ MaxSeq \in Nat
  /\ MaxVersion \in Nat
  /\ MaxRestarts \in Nat
ASSUME IndexedAssumption == Indexed \in BOOLEAN

VARIABLES
  ledger,       \* the ledger process: "running" (initialized) or "down"
  owner,        \* the database owner: "up" or "down"
  next,         \* the next sequence the ledger hands out
  persisted,    \* the ledger's copy of P
  visible,      \* W, as the ledger knows it and as the view cell holds it
  version,      \* V, as the ledger knows it
  cellVersion,  \* V, as the view cell holds it
  publishing,   \* is the ledger between the cell's two writes?
  raised,       \* is the handler that publishes one that raised W?
  outstanding,  \* reservations neither completed nor aborted
  waiters,      \* writers parked in the ledger by await_visible
  storedP,      \* P in the database file: reserved-through, durable
  rows,         \* the sequences of the change rows in the database file
  orphans,      \* COMMITs in flight whose process is dead: sets of sequences
  phase,        \* where each writer is in its command
  used,         \* each writer's max_used: the last number it took, or 0
  target,       \* the sequence each writer waits to become visible
  answered,     \* sequences whose writers were answered ok
  restarts      \* crashes and failed openings so far (bound)

ledgerVars  == <<ledger, next, persisted, visible, version, cellVersion,
                 publishing, raised, outstanding>>
storageVars == <<storedP, rows, orphans>>
writerVars  == <<phase, used, target, answered, waiters>>
runVars     == <<owner, restarts>>
vars == <<ledgerVars, storageVars, writerVars, runVars>>

Phases == {"idle", "writing", "committing", "committed", "failed",
           "completed", "awaiting"}

(* dead: the monitor of the holder has fired.  lost: the call that asked   *)
(* for the range was given up, and its process knows of no range.          *)
Reservation ==
  [first : Nat \ {0}, last : Nat \ {0}, holder : Writers,
   dead : BOOLEAN, lost : BOOLEAN]

Larger(a, b) == IF a >= b THEN a ELSE b

(* The range w's process holds; empty once it is completed or aborted.     *)
Held(w) == {r \in outstanding : r.holder = w /\ ~r.dead /\ ~r.lost}

(* Writers inside a transaction, or with one not yet completed.            *)
Writing == {w \in Writers : phase[w] \in
              {"writing", "committing", "committed", "failed"}}

(* The ledger takes its next message: it is initialized and not publishing. *)
Serving == ledger = "running" /\ ~publishing

Init ==
  /\ ledger = "down" /\ owner = "down"
  /\ next = 1 /\ persisted = 0 /\ visible = 0
  /\ version = 1 /\ cellVersion = 1 /\ publishing = FALSE /\ raised = FALSE
  /\ outstanding = {} /\ waiters = {}
  /\ storedP = 0 /\ rows = {} /\ orphans = {}
  /\ phase = [w \in Writers |-> "idle"]
  /\ used = [w \in Writers |-> 0]
  /\ target = [w \in Writers |-> 0]
  /\ answered = {}
  /\ restarts = 0

-----------------------------------------------------------------------------
(* Handlers of the ledger.                                                 *)

(* Opening storage: the owner asks the ledger to load P.  A ledger that    *)
(* survived the owner keeps its counters where they are ahead of P; one    *)
(* that was restarted begins from its initial state.  The first block is   *)
(* durable before the view is published.  Callers parked in a surviving    *)
(* ledger are not answered here, though W may have passed their sequence.  *)
Opening == Larger(next, storedP + 1)

Initialize ==
  LET vers == Larger(version, storedP + 1)
  IN /\ owner = "down" /\ ~publishing
     /\ owner' = "up"
     /\ ledger' = "running"
     /\ next' = Opening
     /\ persisted' = Opening - 1 + Block
     /\ storedP' = Opening - 1 + Block
     /\ visible' = IF ledger = "down" THEN storedP ELSE Larger(visible, storedP)
     /\ version' = vers /\ cellVersion' = vers
     /\ UNCHANGED <<publishing, raised, outstanding, rows, orphans,
                    writerVars, restarts>>

(* Variant: looks only at the first number of the range.                   *)
EnsurePersistedFirst(last) ==
  IF next <= persisted
    THEN UNCHANGED <<persisted, storedP>>
    ELSE persisted' = last + Block /\ storedP' = Larger(storedP, last + Block)

(* P must cover the last number of a range before the range is handed out. *)
EnsurePersisted(last) ==
  IF last <= persisted
    THEN UNCHANGED <<persisted, storedP>>
    ELSE persisted' = last + Block /\ storedP' = Larger(storedP, last + Block)

(* Opening fails with the first block durable all the same: the ledger     *)
(* keeps the state it had, and the supervisor starts the owner again.      *)
InitializeFails ==
  /\ owner = "down" /\ ~publishing
  /\ restarts < MaxRestarts
  /\ restarts' = restarts + 1
  /\ storedP' = Opening - 1 + Block
  /\ UNCHANGED <<ledgerVars, rows, orphans, writerVars, owner>>

Reserve(w, count) ==
  LET last == next + count - 1
  IN /\ Serving /\ owner = "up" /\ phase[w] = "idle"
     /\ last <= MaxSeq /\ version < MaxVersion
     /\ EnsurePersisted(last)
     /\ next' = last + 1
     /\ outstanding' = outstanding \cup
          {[first |-> next, last |-> last, holder |-> w,
            dead |-> FALSE, lost |-> FALSE]}
     /\ phase' = [phase EXCEPT ![w] = "writing"]
     /\ UNCHANGED <<ledger, visible, version, cellVersion, publishing, raised,
                    rows, orphans, used, target, answered, waiters, runVars>>

(* The same request, handled after its caller's timeout: the ledger adds   *)
(* the range all the same, monitors a process that will never complete it, *)
(* and its answer reaches nobody.  The process may have died since.        *)
ReserveLate(w, count) ==
  LET last == next + count - 1
  IN /\ Serving /\ w \notin Writing
     /\ last <= MaxSeq
     /\ EnsurePersisted(last)
     /\ next' = last + 1
     /\ outstanding' = outstanding \cup
          {[first |-> next, last |-> last, holder |-> w,
            dead |-> owner = "down", lost |-> TRUE]}
     /\ UNCHANGED <<ledger, visible, version, cellVersion, publishing, raised,
                    rows, orphans, writerVars, runVars>>

(* The update of P is durable but its reply is an error: the ledger keeps  *)
(* its own copy and hands nothing out, and the command ends.               *)
ReserveUnpersisted(count) ==
  LET last == next + count - 1
  IN /\ Serving /\ owner = "up"
     /\ last <= MaxSeq /\ last > persisted
     /\ storedP' = Larger(storedP, last + Block)
     /\ UNCHANGED <<ledgerVars, rows, orphans, writerVars, runVars>>

(* The newest reservation returns the numbers above those it stored.       *)
TakeBack(r, usedThrough) ==
  IF r.last = next - 1 THEN Larger(r.first, usedThrough + 1) ELSE next

(* Variant: everything handed out counts as finished.                      *)
WatermarkAtNext(out, nxt) == nxt - 1

(* W: just below the lowest outstanding range, or below next without one.  *)
Lowest(out) == CHOOSE r \in out : \A s \in out : r.first <= s.first
Watermark(out, nxt) ==
  IF out = {} THEN nxt - 1 ELSE Lowest(out).first - 1

(* finish_reservation: forget r and write W to the cell; V follows.        *)
Finish(r, nxt, vers) ==
  /\ outstanding' = outstanding \ {r}
  /\ next' = nxt
  /\ version' = vers
  /\ visible' = Larger(visible, Watermark(outstanding \ {r}, nxt))
  /\ publishing' = TRUE
  /\ raised' = (visible' > visible)
  /\ UNCHANGED <<ledger, persisted, cellVersion>>

(* A committed write, which stored the numbers up to used[w], completes.   *)
(* Its result reports the last of them, or, when it only replayed earlier  *)
(* writes, a sequence one of those stored.                                 *)
CompleteCommitted(w) ==
  /\ Serving /\ phase[w] = "committed"
  /\ \E r \in Held(w) : Finish(r, TakeBack(r, used[w]), version + 1)
  /\ \E seq \in IF used[w] > 0 THEN {used[w]} ELSE rows \cup {0} :
       target' = [target EXCEPT ![w] = seq]
  /\ phase' = [phase EXCEPT ![w] = "completed"]
  /\ used' = [used EXCEPT ![w] = 0]
  /\ UNCHANGED <<storageVars, answered, waiters, runVars>>

(* A command that failed completes as aborted, with no number in use: the  *)
(* comment in the code says that it stored nothing, and so it is after a   *)
(* rollback, but not when only the flush after its COMMIT failed.          *)
CompleteAborted(w) ==
  /\ Serving /\ phase[w] = "failed"
  /\ \E r \in Held(w) : Finish(r, TakeBack(r, 0), version)
  /\ phase' = [phase EXCEPT ![w] = "idle"]
  /\ used' = [used EXCEPT ![w] = 0]
  /\ UNCHANGED <<storageVars, target, answered, waiters, runVars>>

(* Variant: gives a dead holder's numbers back, as those of a rollback.    *)
HolderDownTakesBack ==
  /\ Serving
  /\ \E r \in outstanding : r.dead /\ Finish(r, TakeBack(r, 0), version)
  /\ UNCHANGED <<storageVars, writerVars, runVars>>

(* Variant: forgets a dead holder's range without publishing W again.      *)
HolderDownSilent ==
  /\ Serving
  /\ \E r \in outstanding : r.dead /\ outstanding' = outstanding \ {r}
  /\ UNCHANGED <<ledger, next, persisted, visible, version, cellVersion,
                 publishing, raised, storageVars, writerVars, runVars>>

(* The monitor reports a dead holder: aborted, and no number taken back.   *)
HolderDown ==
  /\ Serving
  /\ \E r \in outstanding : r.dead /\ Finish(r, next, version)
  /\ UNCHANGED <<storageVars, writerVars, runVars>>

(* Variant: answers only those who wait for exactly W.                     *)
FinishPublishExact ==
  LET woken == {w \in waiters : raised /\ target[w] = visible}
  IN /\ ledger = "running" /\ publishing
     /\ publishing' = FALSE /\ raised' = FALSE
     /\ cellVersion' = version
     /\ waiters' = waiters \ woken
     /\ phase' = [w \in Writers |-> IF w \in woken THEN "idle" ELSE phase[w]]
     /\ target' = [w \in Writers |-> IF w \in woken THEN 0 ELSE target[w]]
     /\ answered' = answered \cup {target[w] : w \in woken}
     /\ UNCHANGED <<ledger, next, persisted, visible, version, outstanding,
                    storageVars, used, runVars>>

(* The handler's second half: V reaches the cell, and, if the handler      *)
(* raised W, the callers waiting for a sequence at or below it are         *)
(* answered.                                                               *)
FinishPublish ==
  LET woken == {w \in waiters : raised /\ target[w] <= visible}
  IN /\ ledger = "running" /\ publishing
     /\ publishing' = FALSE /\ raised' = FALSE
     /\ cellVersion' = version
     /\ waiters' = waiters \ woken
     /\ phase' = [w \in Writers |-> IF w \in woken THEN "idle" ELSE phase[w]]
     /\ target' = [w \in Writers |-> IF w \in woken THEN 0 ELSE target[w]]
     /\ answered' = answered \cup {target[w] : w \in woken}
     /\ UNCHANGED <<ledger, next, persisted, visible, version,
                    outstanding, storageVars, used, runVars>>

-----------------------------------------------------------------------------
(* A writer's own steps.                                                   *)

(* take/2: one more number of the reserved range, inside the transaction.  *)
Take(w) ==
  /\ phase[w] = "writing"
  /\ \E r \in Held(w) :
       /\ used[w] < r.last
       /\ used' = [used EXCEPT ![w] = IF @ = 0 THEN r.first ELSE @ + 1]
  /\ UNCHANGED <<ledgerVars, storageVars, phase, target, answered, waiters,
                 runVars>>

WriterStep(w, from, to) ==
  /\ phase[w] = from
  /\ phase' = [phase EXCEPT ![w] = to]
  /\ UNCHANGED <<ledgerVars, used, target, answered, waiters, runVars>>

(* The numbers w's transaction stores.                                     *)
Taken(w) ==
  UNION {IF used[w] = 0 THEN {} ELSE r.first..used[w] : r \in Held(w)}

(* The body succeeded, so no number it inserted was stored already (the    *)
(* sequence is the primary key of the change rows); the COMMIT statement   *)
(* is now with the engine.                                                 *)
IssueCommit(w) ==
  /\ WriterStep(w, "writing", "committing")
  /\ Taken(w) \cap rows = {}
  /\ UNCHANGED storageVars

(* Variant: takes a COMMIT that failed for one that landed.                *)
RollbackTakenForCommit(w) ==
  /\ \/ WriterStep(w, "writing", "failed")
     \/ WriterStep(w, "committing", "committed")
  /\ UNCHANGED storageVars

(* The body failed, or BEGIN, COMMIT or a row conflict did.                *)
Rollback(w) ==
  /\ \/ WriterStep(w, "writing", "failed")
     \/ WriterStep(w, "committing", "failed")
  /\ UNCHANGED storageVars

(* The search owner, told of the changes after the COMMIT, answers with an *)
(* error or not in time: the command fails although its rows are stored.   *)
FlushFails(w) ==
  /\ Indexed /\ used[w] > 0
  /\ WriterStep(w, "committed", "failed")
  /\ UNCHANGED storageVars

CommitLands(w) ==
  /\ WriterStep(w, "committing", "committed")
  /\ rows' = rows \cup Taken(w)
  /\ UNCHANGED <<storedP, orphans>>

(* The engine finishes a COMMIT whose process died while it ran.           *)
OrphanLands ==
  \E o \in orphans :
    /\ rows' = rows \cup o
    /\ orphans' = orphans \ {o}
    /\ UNCHANGED <<ledgerVars, storedP, writerVars, runVars>>

(* The caller is answered ok, and its command is over.                     *)
Answer(w) ==
  /\ phase' = [phase EXCEPT ![w] = "idle"]
  /\ target' = [target EXCEPT ![w] = 0]
  /\ answered' = answered \cup {target[w]}

(* await_visible: answered at once when the cell's W is there already, or  *)
(* when there is no ledger to ask; else parked by the {:await, seq} handler. *)
Await(w) ==
  /\ phase[w] = "completed"
  /\ \/ /\ ledger = "running" => target[w] <= visible
        /\ Answer(w)
        /\ UNCHANGED waiters
     \/ /\ Serving /\ target[w] > visible
        /\ phase' = [phase EXCEPT ![w] = "awaiting"]
        /\ waiters' = waiters \cup {w}
        /\ UNCHANGED <<target, answered>>
  /\ UNCHANGED <<ledgerVars, storageVars, used, runVars>>

(* The wait also ends with ok at the command's deadline.                   *)
AwaitDeadline(w) ==
  /\ phase[w] = "awaiting"
  /\ Answer(w)
  /\ waiters' = waiters \ {w}
  /\ UNCHANGED <<ledgerVars, storageVars, used, runVars>>

-----------------------------------------------------------------------------
(* Crashes.                                                                *)

(* The processes of D die.  Their connections roll back when closed, but a *)
(* COMMIT already with the engine may still finish after its process: then *)
(* L are the writers whose COMMIT does.                                    *)
Die(D, L) ==
  /\ L \subseteq {w \in D : phase[w] = "committing"}
  /\ orphans' = orphans \cup {Taken(w) : w \in L}
  /\ phase' = [w \in Writers |-> IF w \in D THEN "idle" ELSE phase[w]]
  /\ used' = [w \in Writers |-> IF w \in D THEN 0 ELSE used[w]]
  /\ target' = [w \in Writers |-> IF w \in D THEN 0 ELSE target[w]]
  /\ waiters' = waiters \ D
  /\ UNCHANGED <<storedP, rows>>

(* The reservations of the processes of D, marked as their monitor will.   *)
Orphaned(D) ==
  {IF r.holder \in D THEN [r EXCEPT !.dead = TRUE] ELSE r : r \in outstanding}

(* A writing process is killed, and with it every reservation it asked for *)
(* is dead, the ones it never learned of too; a supervisor starts another. *)
KillWriter(w) ==
  /\ \E r \in outstanding : r.holder = w /\ ~r.dead
  /\ \E L \in SUBSET {w} : Die({w} \cap Writing, L)
  /\ outstanding' = Orphaned({w})
  /\ UNCHANGED <<ledger, next, persisted, visible, version, cellVersion,
                 publishing, raised, answered, runVars>>

(* A caller that waits for its write to be visible is killed.              *)
KillCaller(w) ==
  /\ phase[w] \in {"completed", "awaiting"}
  /\ Die({w}, {})
  /\ UNCHANGED <<ledgerVars, answered, runVars>>

(* The owner dies and its supervisor stops every later child: all writers. *)
OwnerCrash ==
  /\ owner = "up" /\ restarts < MaxRestarts
  /\ owner' = "down"
  /\ restarts' = restarts + 1
  /\ \E L \in SUBSET Writing : Die(Writing, L)
  /\ outstanding' = Orphaned(Writers)
  /\ UNCHANGED <<ledger, next, persisted, visible, version, cellVersion,
                 publishing, raised, answered>>

(* The ledger dies, or the database is closed or the node lost: its state  *)
(* is gone and everything after it stops.  A caller that was waiting for W *)
(* is answered ok (await_visible ignores the exit).  What readers saw of   *)
(* the cell stays here to be compared with what they see next.             *)
LedgerCrash ==
  /\ ledger = "running" /\ restarts < MaxRestarts
  /\ ledger' = "down" /\ owner' = "down"
  /\ restarts' = restarts + 1
  /\ \E L \in SUBSET Writing : Die(Writing \cup waiters, L)
  /\ answered' = answered \cup {target[w] : w \in waiters}
  /\ next' = 1 /\ persisted' = 0 /\ version' = 1
  /\ outstanding' = {} /\ publishing' = FALSE /\ raised' = FALSE
  /\ UNCHANGED <<visible, cellVersion>>

Next ==
  \/ Initialize
  \/ InitializeFails
  \/ \E w \in Writers, count \in 1..MaxCount : Reserve(w, count)
  \/ \E w \in Writers, count \in 1..MaxCount : ReserveLate(w, count)
  \/ \E count \in 1..MaxCount : ReserveUnpersisted(count)
  \/ \E w \in Writers : CompleteCommitted(w)
  \/ \E w \in Writers : CompleteAborted(w)
  \/ HolderDown
  \/ FinishPublish
  \/ \E w \in Writers : Take(w)
  \/ \E w \in Writers : IssueCommit(w)
  \/ \E w \in Writers : Rollback(w)
  \/ \E w \in Writers : CommitLands(w)
  \/ \E w \in Writers : FlushFails(w)
  \/ OrphanLands
  \/ \E w \in Writers : Await(w)
  \/ \E w \in Writers : AwaitDeadline(w)
  \/ \E w \in Writers : KillWriter(w)
  \/ \E w \in Writers : KillCaller(w)
  \/ OwnerCrash
  \/ LedgerCrash

(* Scheduling: a process takes its next step, and a command's transaction *)
(* ends (each has a deadline).  The ledger serves its mailbox in order, so *)
(* a message that waits there is handled whatever else keeps arriving:     *)
(* strong fairness for the handlers, which are disabled while it publishes. *)
(* Nothing is owed by crashes, by new commands or by a deadline.           *)
Fairness ==
  /\ WF_vars(Initialize)
  /\ WF_vars(FinishPublish)
  /\ SF_vars(HolderDown)
  /\ \A w \in Writers :
       /\ SF_vars(CompleteCommitted(w) \/ CompleteAborted(w) \/ Await(w))
       /\ WF_vars(IssueCommit(w) \/ Rollback(w) \/ CommitLands(w))

Spec == Init /\ [][Next]_vars

FairSpec == Spec /\ Fairness

-----------------------------------------------------------------------------
(* Properties.                                                             *)

(* Type invariant, with what ties a writer's place in its command to the   *)
(* reservation the ledger holds for it.                                    *)
TypeOK ==
  /\ ledger \in {"running", "down"} /\ owner \in {"up", "down"}
  /\ next \in Nat \ {0} /\ persisted \in Nat /\ visible \in Nat
  /\ version \in Nat /\ cellVersion \in Nat
  /\ publishing \in BOOLEAN /\ raised \in BOOLEAN
  /\ outstanding \subseteq Reservation
  /\ waiters \subseteq Writers
  /\ storedP \in Nat /\ rows \subseteq Nat
  /\ orphans \subseteq SUBSET Nat
  /\ phase \in [Writers -> Phases]
  /\ used \in [Writers -> Nat] /\ target \in [Writers -> Nat]
  /\ answered \subseteq Nat
  /\ restarts \in Nat

(* P is at or above every stored sequence, every sequence a transaction    *)
(* may still store and every published W, so that a ledger that reloads P  *)
(* starts above all of them, whatever died in between.                     *)
ReservedThrough ==
  /\ \A s \in rows : s <= storedP
  /\ \A r \in outstanding : ledger = "running" => r.last <= storedP
  /\ visible <= storedP

(* No number is handed out twice to writes that store it: what an          *)
(* unfinished transaction took is not stored yet.  The code does not keep  *)
(* this: a write whose flush fails after its COMMIT gives its stored       *)
(* numbers back (FlushFails, CompleteAborted).                             *)
NoSequenceReuse ==
  \A w \in Writers : phase[w] = "writing" => Taken(w) \cap rows = {}

(* What the code does keep: no two transactions take the same number, and  *)
(* no COMMIT in flight, of a living process or of a dead one, stores a     *)
(* number that is stored, that another transaction took or that another    *)
(* such COMMIT stores, with numbers taken back, crashes and restarts.      *)
(* Where there is no flush to fail, nothing stored is handed out again.    *)
NumbersApart ==
  /\ \A w \in Writers : phase[w] = "committing" => Taken(w) \cap rows = {}
  /\ \A w, x \in Writers : w # x => Taken(w) \cap Taken(x) = {}
  /\ \A o \in orphans :
       /\ o \cap rows = {}
       /\ \A w \in Writers : o \cap Taken(w) = {}
       /\ \A p \in orphans : o # p => o \cap p = {}
  /\ ~Indexed => NoSequenceReuse

(* The rows at or below W are what the change feed serves: they never      *)
(* change again, and W never moves back, over every crash and restart,     *)
(* save that a COMMIT whose process died may land below a W that passed    *)
(* its range in the meantime.                                              *)
Landing == UNION orphans
Feed == INSTANCE StableFeed WITH
  horizon <- visible, feed <- {s \in rows : s <= visible}, late <- Landing
FeedIsStable == Feed!Spec

(* A write answered ok is durable, and so is one a replay reported: the    *)
(* answer may come before its row is visible (at the deadline, or when the *)
(* ledger dies), never without the row.                                    *)
AnsweredIsStored == answered \subseteq rows \cup {0}

(* What keeps W below a stored sequence for as long as the ledger, the     *)
(* owner and the writers live: a range at or below it whose caller gave up *)
(* its call, or that the number was given back and is handed out no more.  *)
Overdue(s)   == \E r \in outstanding : r.lost /\ ~r.dead /\ r.first <= s
GivenBack(s) == ledger = "running" /\ next <= s

(* Every stored change is served to readers eventually, unless its number  *)
(* was given back or a range at or below it is overdue.                    *)
StoredBecomesVisible ==
  \A s \in 1..MaxSeq : s \in rows ~> s <= visible \/ Overdue(s) \/ GivenBack(s)

(* A caller that waits for W to reach its write is released without its    *)
(* deadline, unless what it waits for was given back or waits for an       *)
(* overdue range, or the owner restarts: a ledger that loads P again does  *)
(* not answer those whose sequence W passes by that.                       *)
WaitersReleased ==
  \A w \in Writers :
    phase[w] = "awaiting" /\ target[w] > visible
      ~> \/ phase[w] # "awaiting" \/ owner = "down"
         \/ Overdue(target[w]) \/ GivenBack(target[w])
=============================================================================
