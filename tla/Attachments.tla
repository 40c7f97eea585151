----------------------------- MODULE Attachments -----------------------------
(* Attachments of one database: the callers of the coordinator, the blob files *)
(* and the rows that make a blob live (lib/vial_keeper/attachments.ex, with   *)
(* the metadata services, the mutations and the imports that use it).         *)
(*                                                                            *)
(* A process runs one call after another; "step" says where it is.  A step    *)
(* named after a command has sent it, and the command runs although the       *)
(* process dies (or is dropped with it, see Kill).  The pending rows here are *)
(* the unexpired ones: nothing looks at an expired row but its cleanup.       *)
EXTENDS AttachmentCoordinator

CONSTANTS
  Digests, NoBlob,
  Callers,     \* processes that call, one call after another
  Tasks,       \* collections that the coordinator starts after a compaction
  MaxCompactions,   \* bound: rows removed by compactions
  MaxFaults         \* bound: deaths, restarts of the coordinator, expiries and failures

ASSUME AttachmentsAssumption ==
  /\ Procs = Callers \cup Tasks /\ Callers \cap Tasks = {}
  /\ NoBlob \notin Digests

VARIABLES call, step, blob,   \* of each process: its call, where it is, the digest it works on
          disk,         \* files of the store
          pending,      \* rows of pending_blobs that have not expired
          retained,     \* digests that the manifest of a kept revision names
          found,        \* a collection's live digests, then the files it deletes
          importing,    \* the import that the owner is in, or Nobody
          imported,     \* history: digests that an import has committed
          used          \* what the bounds count

store == <<disk, pending, retained>>
clients == <<call, step, blob>>
rest == <<found, importing, imported, used>>
vars == <<coordinator, clients, store, rest>>

Reachable == pending \cup retained

At(p, s) == alive[p] /\ step[p] = s
Becomes(p, c, s, d) ==
  /\ call' = [call EXCEPT ![p] = c]
  /\ step' = [step EXCEPT ![p] = s]
  /\ blob' = [blob EXCEPT ![p] = d]
Starts(p, c, s, d) == p \in Callers /\ At(p, "idle") /\ Becomes(p, c, s, d)
Goes(p, s) == Becomes(p, call[p], s, blob[p])
Ends(p) == Becomes(p, "none", "idle", NoBlob)
\* The answer of a command; a dead caller is not there to get it.
Answered(p, s) == IF alive[p] THEN Goes(p, s) ELSE Ends(p)
OnlyClients == UNCHANGED <<alive, exits, store, rest>>

\* A command can start: the owner is in no import.
OwnerFree == importing = Nobody

\* Something goes wrong; rows expire by the clock.
Fault(n) == used.faults < MaxFaults /\ used' = [used EXCEPT !.faults = @ + 1, !.crashes = @ + n]

Init ==
  /\ CoInit
  /\ alive = [p \in Procs |-> p \in Callers]
  /\ call = [p \in Procs |-> "none"] /\ step = [p \in Procs |-> "idle"]
  /\ blob = [p \in Procs |-> NoBlob]
  /\ disk = {} /\ pending = {} /\ retained = {}
  /\ found = [p \in Procs |-> {}]
  /\ importing = Nobody /\ imported = {}
  /\ used = [compactions |-> 0, crashes |-> 0, faults |-> 0]

-------------------------------------------------------------------------------
(* Uploads.  A refused guard ends the call, so it is no step of an idle caller. *)

StartUpload(p, d) ==
  /\ Starts(p, "upload", "storing", d)
  /\ Acquire(p, "write")
  /\ OnlyClients

\* Variant: a batch holds no reference guard of its own.
StartBatchUnguarded(p, d) ==
  /\ Starts(p, "batch", "batch", d)
  /\ MayAcquire("reference") /\ UNCHANGED co
  /\ OnlyClients

StartBatch(p, d) ==
  /\ Starts(p, "batch", "batch", d)
  /\ Acquire(p, "reference")
  /\ OnlyClients

\* upload_one_batch_source: a collection that waits refuses the worker.
StartWorker(p) ==
  /\ At(p, "batch")
  /\ IF MayAcquire("write")
     THEN Acquire(p, "write") /\ Goes(p, "storing")
     ELSE UNCHANGED co /\ Goes(p, "failed")
  /\ OnlyClients

\* The last step of the write: the file gets its name, unless it is there.  A
\* batch returns the worker's guard before it protects the digests.
Install(p) ==
  /\ At(p, "storing")
  /\ disk' = disk \cup {blob[p]}
  /\ IF call[p] = "batch" THEN Release(p, "write") ELSE UNCHANGED co
  /\ Goes(p, "protecting")
  /\ UNCHANGED <<alive, exits, pending, retained, rest>>

\* The source, its size or the disk fails.
StoreFails(p) ==
  /\ At(p, "storing")
  /\ IF call[p] = "batch" THEN Release(p, "write") ELSE UNCHANGED co
  /\ Goes(p, "failed")
  /\ OnlyClients

\* protect_pending_blob(s), at the owner.
Protect(p) ==
  /\ step[p] = "protecting" /\ OwnerFree
  /\ pending' = pending \cup {blob[p]}
  /\ Answered(p, "stored")
  /\ UNCHANGED <<coordinator, disk, retained, rest>>

\* The guard of each call; an import has one while it transfers.
GuardOf(p) ==
  CASE call[p] \in {"upload", "import"} -> "write"
    [] call[p] \in {"batch", "mutation"} -> "reference"
    [] call[p] = "read" -> "read"

\* The "after" of a call: its guard is returned, however it went.  An import goes
\* on with a blob it has transferred.
Finish(p) ==
  /\ At(p, "stored") \/ At(p, "failed") \/ At(p, "over")
  /\ Release(p, GuardOf(p))
  /\ IF call[p] = "import" /\ step[p] = "stored" THEN Goes(p, "sending") ELSE Ends(p)
  /\ OnlyClients

-------------------------------------------------------------------------------
(* Revisions with attachments, and reading them.                                *)

StartMutation(p, d) ==
  /\ Starts(p, "mutation", "checking", d)
  /\ Acquire(p, "reference")
  /\ OnlyClients

\* materialize_normalized: the digest must be reachable and have a file.
Check(p) ==
  /\ At(p, "checking")
  /\ Goes(p, IF blob[p] \in Reachable \cap disk THEN "committing" ELSE "failed")
  /\ UNCHANGED co /\ OnlyClients

\* The mutation's transaction asks again for the row, and ends the protection.
Commit(p) ==
  /\ step[p] = "committing" /\ OwnerFree
  /\ IF blob[p] \in Reachable
     THEN /\ retained' = retained \cup {blob[p]} /\ pending' = pending \ {blob[p]}
          /\ Answered(p, "over")
     ELSE UNCHANGED <<retained, pending>> /\ Answered(p, "failed")
  /\ UNCHANGED <<coordinator, disk, rest>>

StartRead(p, d) ==
  /\ Starts(p, "read", "resolving", d)
  /\ Acquire(p, "read")
  /\ OnlyClients

\* A ticket names a blob of a kept revision; an encoded representation is asked
\* for by its digest, which must have a file and be reachable.
Resolve(p) ==
  /\ At(p, "resolving")
  /\ Goes(p, IF blob[p] \in retained \cup (Reachable \cap disk) THEN "opening" ELSE "failed")
  /\ UNCHANGED co /\ OnlyClients

Open(p) ==
  /\ At(p, "opening")
  /\ Goes(p, IF blob[p] \in disk THEN "reading" ELSE "failed")
  /\ UNCHANGED co /\ OnlyClients

\* The body is consumed or abandoned.
CloseRead(p) == At(p, "reading") /\ Goes(p, "over") /\ UNCHANGED co /\ OnlyClients

-------------------------------------------------------------------------------
(* Imports: diff_blobs, the transfer of what is missing, and the import command. *)
(* None of them but the transfer holds a guard.                                 *)

Diff(p, d) ==
  /\ Starts(p, "import", IF d \in Reachable \cap disk THEN "sending" ELSE "missing", d)
  /\ UNCHANGED co /\ OnlyClients

\* put_blob_representation; the target may refuse the transfer.
Transfer(p) ==
  /\ At(p, "missing")
  /\ IF MayAcquire("write")
     THEN Acquire(p, "write") /\ Goes(p, "storing")
     ELSE UNCHANGED co /\ Ends(p)
  /\ OnlyClients

\* ensure_physical_blobs, at the owner and before the transaction.
Verify(p) ==
  /\ step[p] = "sending" /\ OwnerFree
  /\ IF blob[p] \in disk
     THEN importing' = p /\ Goes(p, "importing")
     ELSE UNCHANGED importing /\ Ends(p)
  /\ UNCHANGED <<coordinator, store, found, imported, used>>

\* import_tx, in the same command.
CommitImport(p) ==
  /\ importing = p
  /\ retained' = retained \cup {blob[p]} /\ pending' = pending \ {blob[p]}
  /\ importing' = Nobody /\ imported' = imported \cup {blob[p]}
  /\ Ends(p)
  /\ UNCHANGED <<coordinator, disk, found, used>>

-------------------------------------------------------------------------------
(* Collections: gc and run_gc.                                                  *)

BeginCollection(p) ==
  /\ \/ Starts(p, "gc", "waiting", NoBlob)
     \/ At(p, "starting") /\ Goes(p, "waiting")
  /\ BeginGc(p)
  /\ OnlyClients

\* The call returns; a task ends with it.
Return(p) ==
  /\ Ends(p)
  /\ alive' = [alive EXCEPT ![p] = p \in Callers]

\* An answer is taken from the mailbox.
Read(p) == co' = [co EXCEPT !.answer[p] = "none"]

BeginAnswered(p) ==
  /\ At(p, "waiting") /\ co.answer[p] # "none"
  /\ IF co.answer[p] = "granted"
     THEN Goes(p, "listing") /\ UNCHANGED alive
     ELSE Return(p)
  /\ Read(p)
  /\ UNCHANGED <<exits, store, rest>>

\* list_live_attachment_digests: at the owner, one command at a time and behind the
\* ones already sent, whose callers may have died since.
List(p) ==
  /\ At(p, "listing") /\ OwnerFree
  /\ ~\E q \in Procs : ~alive[q] /\ step[q] # "idle"
  /\ found' = [found EXCEPT ![p] = Reachable]
  /\ Goes(p, "scanning")
  /\ UNCHANGED <<coordinator, store, importing, imported, used>>

\* list_digests, after the expired rows are gone.
Scan(p) ==
  /\ At(p, "scanning")
  /\ found' = [found EXCEPT ![p] = disk \ @]
  /\ Goes(p, "deleting")
  /\ UNCHANGED <<coordinator, store, importing, imported, used>>

\* delete_unreachable, one file; a file that is gone is passed over.
Delete(p, d) ==
  /\ At(p, "deleting") /\ d \in found[p]
  /\ disk' = disk \ {d}
  /\ found' = [found EXCEPT ![p] = @ \ {d}]
  /\ UNCHANGED <<coordinator, clients, pending, retained, importing, imported, used>>

\* A command is refused or times out, or the disk fails: a call returns its guard,
\* a collection gives the token back.
Fails(p) ==
  /\ Fault(0)
  /\ \/ \E s \in {"protecting", "committing", "checking", "resolving"} :
          At(p, s) /\ Goes(p, "failed") /\ UNCHANGED found
     \/ At(p, "sending") /\ Ends(p) /\ UNCHANGED found
     \/ /\ \E s \in {"listing", "scanning", "deleting"} : At(p, s)
        /\ Goes(p, "ending") /\ found' = [found EXCEPT ![p] = {}]
  /\ UNCHANGED <<coordinator, store, importing, imported>>

EndCollection(p) ==
  /\ At(p, "ending") \/ (At(p, "deleting") /\ found[p] = {})
  /\ EndGc(p)
  /\ Return(p)
  /\ UNCHANGED <<exits, store, rest>>

\* A task whose name is free in this model.
Startable(t) ==
  ~alive[t] /\ t \notin co.tasks \cup exits \cup {co.caller, co.followUp}

\* compact at the owner: no kept revision names d any more, and a collection is
\* scheduled before the answer, unless the coordinator is closing.
Compact(d) ==
  /\ OwnerFree /\ d \in retained /\ used.compactions < MaxCompactions
  /\ retained' = retained \ {d}
  /\ IF co.closing
     THEN UNCHANGED <<coordinator, clients>>
     ELSE \E t \in Tasks : Startable(t) /\ StartTask(t) /\ Becomes(t, "gc", "starting", NoBlob)
  /\ used' = [used EXCEPT !.compactions = @ + 1]
  /\ UNCHANGED <<disk, pending, found, importing, imported>>

Expire(d) ==
  /\ d \in pending /\ Fault(0)
  /\ pending' = pending \ {d}
  /\ UNCHANGED <<coordinator, clients, disk, retained, found, importing, imported>>

-------------------------------------------------------------------------------
(* Closing and deaths.                                                          *)

StartClose(p) ==
  /\ Starts(p, "close", "closing", NoBlob)
  /\ BeginClose(p)
  /\ UNCHANGED <<store, rest>>

CloseAnswer(p) ==
  /\ At(p, "closing") /\ co.answer[p] # "none"
  /\ IF co.answer[p] = "closed" THEN Goes(p, "closed") ELSE Ends(p)
  /\ UNCHANGED co /\ OnlyClients

\* A process dies, of itself or of a signal.  A command it has sent and that has
\* not started goes with it, or runs all the same; a started import runs.
Kill(p) ==
  /\ alive[p]
  /\ \/ p \in exits /\ UNCHANGED used
     \/ Fault(0)
  /\ alive' = [alive EXCEPT ![p] = FALSE] /\ exits' = exits \ {p}
  /\ \/ step[p] # "importing" /\ Ends(p)
     \/ step[p] \in {"protecting", "committing", "sending", "importing"} /\ UNCHANGED clients
  /\ found' = [found EXCEPT ![p] = {}]
  /\ UNCHANGED <<co, store, importing, imported>>

Crash ==
  /\ Fault(1)
  /\ CoordinatorDown
  /\ UNCHANGED <<clients, store, found, importing, imported>>

-------------------------------------------------------------------------------
(* What a process does next once it has begun. *)
Continue(p) ==
  \/ StartWorker(p) \/ Install(p) \/ Protect(p) \/ Finish(p)
  \/ Check(p) \/ Commit(p)
  \/ Resolve(p) \/ Open(p) \/ CloseRead(p)
  \/ Transfer(p) \/ Verify(p) \/ CommitImport(p)
  \/ step[p] = "starting" /\ BeginCollection(p)
  \/ BeginAnswered(p) \/ List(p) \/ Scan(p) \/ EndCollection(p)
  \/ \E d \in Digests : Delete(p, d)
  \/ CloseAnswer(p)

Begin(p) ==
  \/ \E d \in Digests : StartUpload(p, d) \/ StartBatch(p, d) \/ StartMutation(p, d)
                       \/ StartRead(p, d) \/ Diff(p, d)
  \/ step[p] = "idle" /\ BeginCollection(p)
  \/ StartClose(p)

Handle ==
  /\ (\E g \in co.guards : GuardDown(g)) \/ GcCallerDown \/ \E t \in Tasks : TaskDown(t)
  /\ UNCHANGED <<clients, store, rest>>

Limit == UpdateLimits /\ UNCHANGED <<clients, store, rest>>

Next ==
  \/ \E p \in Procs : Continue(p) \/ Begin(p) \/ StoreFails(p) \/ Fails(p) \/ Kill(p)
  \/ \E d \in Digests : Compact(d) \/ Expire(d)
  \/ Handle \/ Limit \/ Crash

Spec == Init /\ [][Next]_vars

-------------------------------------------------------------------------------
(* Properties.                                                                  *)

\* The coordinator's fields tell of one run and one queued call: a barrier has its
\* caller, who holds the token or waits for guards that are really in use (a free
\* coordinator grants at once, whoever released, died or ended last), and a call is
\* queued only behind a run.
OneRun ==
  /\ co.barrier = (co.caller # Nobody)
  /\ co.barrier => {co.token, co.waiter} = {co.caller, Nobody}
  /\ ~co.barrier => {co.token, co.waiter, co.followUp} = {Nobody}
  /\ co.waiter # Nobody => co.guards # {}
  /\ co.closing => co.waiter = Nobody /\ co.followUp = Nobody

\* A blob that a kept revision names or an unexpired upload protects has its file:
\* no collection deletes what was stored, protected or referred to meanwhile, by
\* callers that live or die.
BlobsPresent == Reachable \subseteq disk

\* The same while every guard is known, of the digests that no import has touched.
GuardedBlobsPresent == used.crashes = 0 => Reachable \ imported \subseteq disk

\* A reader that was given a ticket finds the file, although the revision may be
\* compacted between the two.
TicketsOpen ==
  \A p \in Callers : used.crashes = 0 /\ At(p, "opening") => blob[p] \in disk \cup imported

InUse == {"batch", "storing", "protecting", "stored", "failed", "over", "checking",
          "committing", "resolving", "opening", "reading"}

\* Once a close is answered nothing reads, writes or deletes files, and no call
\* that refers to a blob is on its way; the database's files may be moved.
CloseIsQuiet ==
  used.crashes = 0 /\ (\E k \in Callers : co.answer[k] = "closed") =>
    \A p \in Procs : alive[p] => step[p] \notin InUse \cup {"scanning", "deleting"}

\* Guards are shared, a collection is alone.
Exclusion == INSTANCE SharedOrExclusive WITH sharing <- co.guards, exclusive <- co.token
GuardsExclude == Exclusion!Spec

\* Nothing kept a collection from its end.
Undisturbed == used.faults = 0 /\ ~co.closing

\* When no collection runs, waits or is about to begin, no file is left of a blob
\* that lost its last row: a compaction during a collection is covered by the run that
\* is queued behind it, and so is a trigger that was dropped for that one.
CompactedIsCollected ==
  Undisturbed /\ ~co.barrier /\ (\A p \in Procs : step[p] \notin {"starting", "protecting"})
    => disk \subseteq Reachable

==============================================================================
