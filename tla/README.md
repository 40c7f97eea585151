# VialKeeper, specified

TLA+ specifications of the concurrent core of VialKeeper, the document database of this repository
(Elixir on the BEAM, with SQLite and Turso as storage engines behind native drivers). They are written from
the source; every definition that models code is listed with its lines in `PROJECT.json` ("map"). Paths below
are relative to `src/lib/vial_keeper/` unless they start with `src/`.

1. [The system](#1-the-system)
2. [What is modelled now](#2-what-is-modelled-now)
3. [What the runs check](#3-what-the-runs-check)
4. [Bounds and fairness](#4-bounds-and-fairness)
5. [What is proved](#5-what-is-proved)
6. [Where the code and its words disagree](#6-where-the-code-and-its-words-disagree)
7. [What is not modelled](#7-what-is-not-modelled)
8. [Plan](#8-plan)

## 1. The system

A *database* is a file bundle served by one runtime: a supervisor (`runtime/database_runtime_supervisor.ex`)
with `rest_for_one` children in this order: ownership lock, sequence ledger, database owner, admission, read
pool, writer pool, attachment coordinator, change notifier, views, subscriptions, retention scheduler. A child
that dies takes every later one with it, which is why a dead ledger means a dead owner and dead writers.

The *catalog* (`runtime/database_catalog.ex`) opens and closes runtimes and routes every command by its access
mode: reads go to the read pool, or to admission without one; concurrent writes to the writer pool, or to
admission without one; serial writes take the writer pool's barrier and then go through admission to the owner;
exclusive commands take the writers' barrier, then the readers', then admission.

| Component | State | Operations | Why it is hard | What makes it correct |
|---|---|---|---|---|
| Sequence ledger `runtime/sequence_ledger.ex` | next, P (durable), W, V, outstanding reservations, waiters | initialize, reserve, complete, await, DOWN | several writers commit out of order; numbers are given back; crash anywhere | no two transactions take one number; the feed below W does not change under its readers; ok implies durable |
| Reservation and view cell `storage/services/sequences.ex`, `storage/sequence_view.ex` | per-process reservation; two atomics | put, take, pop; publish, read | two separate writes of W and V | readers never see W ahead of the rows |
| Write commands `runtime/mutation_commands.ex` | none | reserve, transaction, complete, wait | deadline during the wait | an ok answer and the feed agree |
| Writer pool `runtime/writer_pool.ex` | idle slots, running jobs, held documents, queue, barrier tokens, cache epoch | register, execute, cancel, complete, quiesce, resume, close, DOWN | deaths of slots and callers between any two messages | exclusion and arrival order per document; the barrier stops all |
| Writer slots `runtime/writer_slot.ex` | connection, caches and the epoch seen | run a job with retries, complete, reply | dies before or after its completion | caches are never older than the last fenced serial change |
| Database owner `runtime/database_owner.ex` | storage context | one command at a time | its caller gives up while the command waits or runs | one at a time, ledger loaded before any write |
| Admission `runtime/database_admission.ex` and its parts | per-class queues, schedule cursor, permit, reserved slots | admit, start, finish, abandon, drain, close | the start flag races cancellation; executor crashes | one permit; no class starves; capacity is kept |
| Read pool `runtime/read_pool.ex` | workers, queue, barriers, deadlines | execute, cancel, complete, interrupt, quiesce, close | an interrupt races the next request | an interrupt hits the request it is for |
| Attachment coordinator `runtime/attachment_coordinator.ex` | guards, GC barrier, waiter, follow-up, scheduled tasks | guard, release, collect, close, DOWN | callers die while they hold, wait or delete | guards are shared, a collection is alone; whoever waits is answered |
| Attachments `attachments.ex`, `storage/services/attachments.ex` | blob files; rows that protect or name a blob | upload, batch, mutate, read, import, collect | a file and the rows that make it live change one after the other | no live blob loses its file |
| Change notifier, subscription hub `runtime/change_notifier.ex`, `query/subscription_hub.ex` | per subscription mode, cursor, credits, pending read | snapshot, activate, notify, ack, retry, reset | hand-over from snapshot to live events | every change once and in order, or a reset |
| Bookmarks `query/snapshot_checks.ex` | V, W and base inside a token | issue, check | V moves after the commit | pages of one query see one version |
| Replication `replication/worker.ex`, `replication/checkpoint_reconciler.ex` | state, checkpoints at source and target | transfer, checkpoint, retry | crash between the two checkpoints | no change is skipped |
| Transfer pipeline `replication/transfer_pipeline.ex` | tasks in flight, byte budget | schedule, finish, cancel | limits with oversized blobs | bounded, and every item finishes or fails |
| Retention `retention/*`, `runtime/retention_scheduler.ex` | peers' positions, floor | report, advance, expire | old reports against live peers | history a live peer needs is kept |
| Revision trees `revisions/*` | leaves of a document | merge, winner, resolve | order of arrival | the winner depends on the leaf set only |
| Full-text search `search.ex`, `search/owner.ex`, `search/tantivy.ex` | per index: a writer's operations, a commit, a published searcher, a marker file; a flag for readers; one timer | stage, publish, search, build, restart | readers go past the owner; a build and a failure may drop what is staged | a search sees what completed before it, as far as builds allow; what is staged is published |
| Tantivy binding `src/native/tantivy_ex` | schema handles, one index, a writer behind a mutex, the process's tokenizers | grow a schema, create, open, add, delete, commit, roll back, tokenize, query | every conversion is written out several times | the copies agree; what is stored is found again and deleted |
| Native SQLite driver `src/native/vial_sqlite` | a handle behind a mutex; atomics for cancel and limit | query (inline or waiting), execute, cancel, close, busy handler | the atomics are written while a statement sleeps | nothing runs on a closed handle; a wait ends in time and at a cancel |
| Shadows `shadow/*` | journal, generation, binding | provision, ready, read, destroy | crash between journal and bundle | reads of an old generation are refused |
| Derived and materialized views, federation, queries, HTTP, backup, configuration, the native Turso driver | | | data transformation more than control | |

Interactions that matter most: the ledger and the slots share reservations by messages and monitors; readers
and the ledger share the view cell without a lock; the catalog, the pools and the owner hold each other up
during serial commands and close; subscriptions, bookmarks, replication and retention all live on the feed
that the ledger publishes; a writer hands its rows to the search owner after its `COMMIT`, and readers look at
the owner's table and at Tantivy by themselves; every statement ends in a native connection that several
processes may call, cancel and close. The hazards each part is exposed to are listed line by line in `PROJECT.json`.

## 2. What is modelled now

| Module | Models | Role |
|---|---|---|
| `StableFeed` | nothing in particular: what consumers of the change feed are promised | abstract specification |
| `SequenceLedger` | the ledger, the writers it serves, the transaction that stores rows, the wait that ends a write, crashes | component |
| `SequenceLedgerProofs` | theorems about `SequenceLedger`, and its refinement of `StableFeed` | proofs |
| `WriterPool` | the pool, its slots, callers of concurrent writes, callers of serial commands with the owner, closing | component |
| `WriterPoolProofs` | theorems about `WriterPool` | proofs |
| `Admission` | the scheduler of one database, its executor, the owner's mailbox, callers, the close that drains it, deaths and restarts | component |
| `AdmissionProofs` | theorems about `Admission` | proofs |
| `FoldLemmas` | what sums over a finite set and flattened sequences are, for the proof modules that need it | lemmas |
| `NativeConn` | one connection of the SQLite driver: mutex, cancel, close, busy handler, with the threads that call it and another connection's lock | component |
| `NativeConnProofs` | theorems about `NativeConn` | proofs |
| `DocumentFields` | the binding's conversions of one value and of one document, as operators | algorithms |
| `TextIndex` | tokenizers, analyzers, and the queries a text becomes, as operators | algorithms |
| `TextEngine` | schema handles, an index and its writer, over the two modules above | component |
| `Selections` | the elements of a sequence that pass a test, as these three modules use it | helper |
| `TextEngineProofs` | theorems about `TextEngine` and its two modules | proofs |
| `SearchOwner` | the owner of a database's indexes, with writers, readers, builds, failures and restarts | component |
| `SearchOwnerProofs` | theorems about `SearchOwner` | proofs |
| `SharedOrExclusive` | what the attachment coordinator promises its callers | abstract specification |
| `AttachmentCoordinator` | the coordinator's state and handlers | component |
| `Attachments` | uploads, batches, mutations, reads, imports, collections, compactions and closes of one database, with the coordinator | component, composed with the one above |
| `AttachmentsProofs` | theorems about `Attachments` with its coordinator, and its refinement of `SharedOrExclusive` | proofs |
| `MCSequenceLedger`, `MCWriterPool`, `MCAdmission`, `MCNativeConn`, `MCTextEngine`, `MCSearchOwner`, `MCAttachments` | instances for TLC (symmetry, documents of each write, classes of clients, words and terms) | model checking |

Definitions whose comment begins with *Variant* are plausible errors in the definition that follows them; the
runs are shown to notice them (`PROJECT.json`, "mutants"). They are no part of the specifications.

### SequenceLedger

| Code | Model |
|---|---|
| `next`, `persisted`, `visible`, `version` of the GenServer state | variables of the same name |
| the view cell (`sequence_view.ex`): two atomics | `visible` (written by the handler's first step) and `cellVersion` (second step, `FinishPublish`) |
| `reserved_through` in the database's metadata | `storedP` |
| change rows | `rows`, by their sequence |
| the reservation in a writer's process dictionary and in the ledger | one record in `outstanding`, marked `dead` when its holder is, and `lost` when the call that asked for it was given up |
| a `COMMIT` with the engine whose process died | a set of sequences in `orphans` |
| `max_used` of a reservation | `used` |
| `initialize/2`, `handle_call({:reserve, ..})`, `{:complete, ..}`, `{:await, ..}`, `handle_info({:DOWN, ..})` | `Initialize`/`InitializeFails`, `Reserve`/`ReserveLate`/`ReserveUnpersisted`, `CompleteCommitted`/`CompleteAborted`, `Await`, `HolderDown` |
| `finish_reservation` with `take_back` and `watermark` | `Finish`, `TakeBack`, `Watermark` |
| `Sequences.take/2`, the transaction | `Take`, `IssueCommit`, `Rollback`, `CommitLands` |
| `flush_search_pending` after the `COMMIT` (`search.ex:202`) ends with an error or an exit | `FlushFails` |
| exits and restarts | `KillWriter`, `KillCaller`, `OwnerCrash`, `LedgerCrash`, `OrphanLands` |

A handler is one step, except that a handler that publishes is two, because readers look at the cell between its
two writes. While `publishing`, no other message is handled (`Serving`). Failures with a known answer (the raise
of P commits and its reply is an error; opening fails after the raise) are actions. After a ledger crash
`visible` and `cellVersion` keep what readers last saw: the process's own copies are gone, and the next
`Initialize` computes them again, which is what the properties compare.

Three things may come out otherwise than the code's comments expect, and the model has each of them. The native
driver runs `COMMIT` in a dirty scheduler, which a kill does not interrupt: a `COMMIT` in flight may land after its
process is gone (`Die`, `orphans`, `OrphanLands`). `reserve/3` is a call with a timeout, and the ledger waits for its
persist inside the handler: a caller may have given up when the ledger handles its request, and the ledger adds a range
that nobody will complete (`ReserveLate`). And a write tells the search owner of its rows after its `COMMIT`: if
that fails, the command fails, and its reservation is completed as aborted although the rows are stored (`FlushFails`,
then `CompleteAborted`). The last happens only in a database with full-text indexes (`Indexed`).

`raised` says whether the handler that publishes has raised W, since waiters are answered only then
(`sequence_ledger.ex:420-427`).

### WriterPool

| Code | Model |
|---|---|
| `idle`, `busy`, `waiters`, `cancelled`, `closing?`, `epoch`, barrier tokens of the state | `idle`, `busy`, `waiters`, `cancelled`, `closing`, `epoch`, `tokens` (all) and `parked` (not yet answered) |
| documents of running jobs | `held` |
| status in the registry, read by routing | `enabled` |
| a job's life in a slot (`writer_slot.ex`) | `doing`, `step` (free, writing, reporting, replying) |
| the connection's caches and the epoch they are for | `loaded`, `seen` |
| `grant_loop` | `GrantLoop`: all ready waiters in order to idle slots in order, in one step |
| `execute`, `cancel`, `complete`, `quiesce`, `resume`, `begin_close`, `cancel_close`, `close_writers`, register, DOWN | actions of the same names; DOWN is `SlotDown`, `CallerDown` and `HolderDown` |
| `with_quiesce` around a serial command | `RouteSerial`, `Quiesce`, `SubmitSerial`, `OwnerBegins`, `OwnerEnds`, `Resume`, with `SerialGivesUp` and `SerialDies` at every point |

A slot that dies is replaced by another (`Slots` has more members than run at a time). A completion call that
was sent arrives though its sender died, and the exit is handled after it: signals of one process keep their
order. `accepted`, `escaped` and `generation` are history variables, no part of the code's state: the order of
arrival, whether a command was ever at the owner without its barrier, and the number of serial changes to
cached facts.

### Admission

| Code | Model |
|---|---|
| the scheduler process | `phase`: serving, inside `grant_loop`, down, or starting while `init` waits for the owner's sync |
| `active`, `queues`, `cursor`, `closing?` | variables of these names; withdrawn references, which the code skips later, leave `queue` at once |
| the drain task and its retry | `drain` |
| acquire messages in the scheduler's mailbox | `asked` |
| a caller in `GenServer.call`, in its cancellation, or dead | `call` |
| the executor's place in one command | `exec`; the atomic of `admitted_command.ex` is `flag` |
| the owner's mailbox | `mailbox`; `late` are commands whose executor stopped waiting for them |
| `drain_admission` of the catalog | `closer` |
| `accepts?`, `build`, `scan_grant` | `Accepts`, `Schedule`, `ScanStopsAt` |
| handlers | `Acquire`, `Cancel`, `CallerDown` and `ExecutorDown` (DOWN), `Done`, `DrainStarts`, `DrainEnds`, `DrainFails`, `BeginClose`, `AwaitIdle`, `CancelClose` |

`grant_loop` is a step of its own for each waiter it looks at (`Grant`), during which the scheduler handles
nothing: deadlines may pass and callers die between two rounds. The executor and the scheduler act
independently on `flag`, so that every order of starting and abandoning a command is explored. After the
scheduler's death its executor goes on until the supervisor stops it (`Restart`), which is where a second
command could meet the first one at the owner. A client's next command begins when nothing of its last is left
(no executor, no message at the owner); that reuses names and loses no order, since all clients of a class are
alike. `passed` is a history variable: what was granted to others since a class began to wait, or since the last of
its slots at which a waiter was found (`scan_grant` moves the cursor past that slot even when the waiter turns out to
be overdue or cannot be started).

### NativeConn

| Code (`src/native/vial_sqlite/src/lib.rs`) | Model |
|---|---|
| `Mutex<Option<SendHandle>>` | `owner`, `open` |
| `Shared.cancelled`, `Shared.busy_timeout_ms` | `cancelled`, `timeout` |
| SQLite's interrupt flag and its active statements | `interrupted`, `Statements` |
| another connection's write lock | `foreign` |
| where a thread is in its call | `pc`; a call is `Call` or `CallInline`, then `Acquire`, `WithDb`, `Step`, `Fails` |
| `busy_handler` up to its sleep, and after it | `BusyHandler`, `Wake`, with `Delay`, `Waited`, `Nap` |
| `cancel/1`: the store, then the interrupt | `Cancel`, `Interrupt` |
| `close/1`: the store, then the handle under the mutex | `Close`, `TakeHandle` |

The busy handler keeps no account of the time it slept: it adds up the schedule's delays for the number of its
invocations. `stmt.slept` is the account kept beside it, and `stmt.seen` the limits it read, so that a property
can compare the two while `SetBusyTimeout` moves the limit. `stmt.hit` remembers that a cancel came after the
statement had started. Milliseconds are those of the naps; the time a statement runs is not counted, and the
code does not count it either.

### DocumentFields, TextIndex and TextEngine

| Code (`src/native/tantivy_ex/native/tantivy_ex/src/modules/`) | Model |
|---|---|
| an Elixir term handed to the binding | `Str`, `Whole`, `Float`, `Bool`, `List`, `Map`, `Nil` of `DocumentFields` |
| `writer_add_document`, `writer_add_document_with_schema`, `writer_add_document_batch`, `validate_document_against_schema` | `SingleField`, `WithSchemaField`, `AddField`, `ValidField` for one value; `AddDocument`, `AddDocumentWithSchema`, `AddBatch`, `ValidDocument` for documents |
| `writer_delete_term`, `query_term`, `query_range_*` on a field that is not text | `DeleteValue`, `QueryValue`, `InRange` |
| `register_text_analyzer`, `register_default_tokenizers`, `tokenize_text` | `AnalyzerOf`, `DefaultTokenizers`, `TokenizeText` of `TextIndex` |
| the text branches of `query_term` and `writer_delete_term`; `search/tantivy.ex` `build_query` | `QueryTerm`, `DeleteTerm`, `BuildQuery` |
| `schema_add_*`, `index_create_*`, `index_open_*`, the writer's calls | actions of `TextEngine` |

A text is a sequence of chunks between spaces and a chunk a sequence of words between punctuation, so that the
tokenizers that split differently do so. An empty chunk at an end stands for white space there (`Solid` leaves it
out), because a query takes one word as it is typed and a deletion does not. What Tantivy and the parsers do with a text
(lower case, stems, stop words, which strings are dates) is given by constants. The branches that differ between the
copies of one conversion are kept as they are: a branch the code has twice is there twice, the ten arms that copy a
schema's fields are a table of ten (`CopyArms`), and the 32 chains of analyzers are 32 rows (`SimpleChain`,
`WhitespaceChain`).

A document goes to the writer as field numbers of a schema handle of the caller (`Handles`: the index's own, or the
one grown since). `Read` is what the index makes of the numbers. A number it does not know kills Tantivy's indexing
thread (`Unknown`): the call succeeds and the writer is `"failed"` until it is rolled back or opened anew.

### SearchOwner

| Code (`search/owner.ex`, `search.ex`, `storage/sqlite/index_candidates.ex`) | Model |
|---|---|
| a generation on disk, the pending marker file | `disk`, `marker` |
| the owner's state: open handles, staged updates, timer, builds | `live`, `work`, `pending`, `timer` and `due`, `build` |
| the ETS table: the flag and the searchers | `flag`, `published` |
| a writer after its `COMMIT`, a reader in its own process | `hand`, `rd` |
| `refresh_many`, `publish_pending`, the timer's message, `search/7`, `begin_rebuild`, `rebuild_batch`, `finish_rebuild`, `init/1`, `terminate/2` | `Refresh`/`RefreshFails`, `PublishIndexes`/`PublishFails` then `ClearFlag`, `TimerFires`, `Search` to `Lookup` and `AskSearch`, `BeginBuild`, `Batch`, `FinishBuild`, `Restart`, `Stop` |

A handler is one step unless readers can see it half done: publishing changes searchers, then the flag, and
the end of a build changes the generation, then its searcher (`phase`). `Crash` may fall in between, with any
part of a publish done. An index holds *copies*, one version of one document each; deleting the old copy is the
query of `search/tantivy.ex:136`, which lower-cases the id and splits it at spaces. `Found` says whose copies the
query of an id finds: its own (`Plain`), those of another id (the ids in `Disturbed`), or none. Writers commit at any
time, also during a reader's build, and any number of readers may build.

`missed` and `owed` are history. `missed[i]` are the documents that a build has left out of date in the index i: a
build publishes what its reader's snapshot had, and drops what was staged on the generation it replaces. A document
leaves it when an update of it is staged or the index is built again. What a search is `owed` are the documents that
were not missed when it began, less those a build misses while it runs.

### AttachmentCoordinator and Attachments

| Code | Model |
|---|---|
| the GenServer state (`runtime/attachment_coordinator.ex`) | the record `co`: `guards`, `limit`, `barrier`, `token`, `caller`, `waiter`, `followUp`, `tasks`, `closing`, `closers`; `answer` is what was sent last to each caller |
| a token and its monitor | `<<process, kind>>`, since a process has at most one guard of a kind; a DOWN may come once the process is not `alive` |
| `acquire_*`, `release_*`, `begin_gc`, `end_gc`, `schedule_gc`, `begin_close`, `update_limits`, DOWN | `Acquire`, `Release`, `BeginGc`, `EndGc`, `StartTask`, `BeginClose`, `UpdateLimits`, and `GuardDown`, `GcCallerDown`, `TaskDown` |
| `maybe_grant_gc`, `maybe_complete_close`, `promote_gc_follow_up`, `abort_gc_for_close` | `MaybeGrantGc`, `MaybeCompleteClose`, `PromoteGcFollowUp`, `AbortGcForClose` |
| blob files; unexpired rows of `pending_blobs`; digests in manifests of kept revisions | `disk`, `pending`, `retained` |
| where a call is (`attachments.ex` and the commands it sends) | `call`, `step`, `blob` |
| `upload_stream`, `upload_batch`, `put` and `bulk_write` with attachments, `open_stream`, `diff_blobs` and the import, `gc` | `StartUpload`, `StartBatch`, `StartMutation`, `StartRead`, `Diff` and what follows each in `Continue`; `BeginCollection` to `EndCollection` |

The coordinator's handlers are operators on its state; `Attachments` puts each one into the step of the caller
that sends it. A guard that is refused ends a call before it began, so it is no step, except where the caller has
more to undo (`StartWorker`, `Transfer`). A batch and its worker are one process, because the worker is
linked to it: each dies with the other. A step that is named after a command has sent it to the owner. If its
process dies then, the command may be dropped or may run all the same (`Kill`), and listing the live digests
waits for such commands, because it is an exclusive command and they were sent before it
(`runtime/command_io.ex:85`). The owner runs one command at a time; an import is two steps, for the check of its files is
outside its transaction. An expired row is no row: nothing reads it but the cleanup, so the cleanup changes
nothing here, and a protection that is taken back by its owner is an `Expire`. A collection looks at one page of
digests.

## 3. What the runs check

| Run | Configuration | Shows |
|---|---|---|
| `ledger` | `MCSequenceLedger.cfg` | `ReservedThrough`: P covers every stored row, every open range and W. `NumbersApart`: no two transactions take one number, and no `COMMIT` under way stores one twice. `AnsweredIsStored`: ok implies durable. `FeedIsStable`: the ledger implements `StableFeed`. Under fair scheduling `StoredBecomesVisible` and `WaitersReleased` |
| `ledger_reuse` | `MCLedgerReuse.cfg` | counterexample, section 6 |
| `writer_safety` | `MCWriterPool.cfg` | `DocumentExclusion`, `WriteOrder`, `AnsweredIsOver` with replacement slots and a close that is undone |
| `writer_barrier` | `MCWriterBarrier.cfg` | `BarrierHolds`, `FencedCachesFresh`, and under fair scheduling `QueueDrains`, `BarrierGranted`, with a serial caller |
| `admission_safety` | `MCAdmission.cfg` | `OneAtOwner`, `AnsweredNeverStarts`, `ReservationsKept`, `BoundedPassing`, `DrainedIsIdle` |
| `admission_liveness` | `MCAdmissionLiveness.cfg` | `CallersAnswered`, `CloseAnswered` |
| `native_connection` | `MCNativeConn.cfg` | `ClosedIsQuiet`, `WaitsItsTimeout`, `CancelEndsWait`, `CallsAnswered` with three callers that may each call, close and cancel |
| `text_engine` | `MCTextEngine.cfg` | `CopiesAgree`, `ValuesAreFound`, `DeletionIsAQuery`, `SearchFindsContent`, `AnalyzersKeepOrder`, `DocumentsFitIndex` |
| `search_owner` | `MCSearchOwner.cfg` | `SearchSeesStaged`, `StagedIsPublished`, `TypeOK` with commits at any time and one failure or death anywhere |
| `search_stale` | `MCSearchStale.cfg` | counterexample, section 6 |
| `attachments` | `MCAttachments.cfg` | `GuardedBlobsPresent`, `TicketsOpen`, `CloseIsQuiet`, `CompactedIsCollected`, `OneRun`, `GuardsExclude`, with a death, an expiry, a failure or a restart of the coordinator anywhere |
| `attachment_import` | `MCAttachmentImport.cfg` | counterexample, section 6 |

The types of the ledger, the pool, admission and the native connection are theorems (section 5) and no run repeats
them.

`FeedIsStable` is the statement consumers rely on: bookmarks, subscriptions, replication checkpoints and view
builders all assume that having read up to W they have read everything at or below it. It relates rows stored
by transactions that commit in any order to a watermark computed from reservations, and it has to survive every
restart. What the code does not keep is part of the abstract specification, by name: a write that was above W when
its process died may become `late`, and a late row may arrive below a W that passed it. Nothing else may.

`NumbersApart` is why numbers may be taken back only by the newest reservation. It says that no two transactions
take one number, that no `COMMIT` under way, of a live process or a dead one, stores a number that is stored or that
another will store, and, for databases without full-text indexes, that no stored number is handed out again. With
indexes it is: `NoSequenceReuse` is the statement refuted by `ledger_reuse`, and what keeps the second row out
then is the primary key of the change rows (the guard of `IssueCommit`).

`StoredBecomesVisible` and `WaitersReleased` name what may hold W down for as long as the processes live: a range
whose reserve call was given up (`Overdue`), and a number that was given back after a failed flush and not handed out
since (`GivenBack`). `WaitersReleased` is about callers that wait for a sequence above W; of one whose sequence a
restarted owner's `Initialize` has passed it says nothing (section 6).
`QueueDrains` is not obvious: the DOWN handler of a queued caller (`CallerDown`) removes a waiter that may have
blocked others and grants nothing. It holds since a waiter is blocked only while a write ahead of it is queued
or runs, and whatever ends that write grants again.

`OneAtOwner` is what the single permit is for. It says nothing of a command whose executor's call reached its
deadline: that command stays at the owner, the permit is freed, and the next one queues behind it. With that
exception it survives every death, because the permit of a started command outlives its caller and its
executor, and because a new scheduler waits for the owner. `AnsweredNeverStarts` holds except between a
scheduler's death and the stop of its executor: callers have been told by then. `ReservationsKept` is the
inductive form of "a class below its reservation is never refused". `BoundedPassing` bounds what others are
granted before a waiting class has its next slot by their share of one round of the schedule, whatever is withdrawn.
A class whose slot went to an overdue waiter may be passed over for another round: with two classes of weight 1 and a
waiter of the second that expires at its slot, the first is granted twice in a row. `CloseAnswered` requires that the close is still known: a scheduler that dies between
`begin_close` and `await_idle` forgets it, and the new one answers that it is idle while it admits.

`WaitsItsTimeout` compares two accounts of the same wait. It holds because the delays of the schedule and their
sums agree at every invocation and because the last nap is cut to the limit; a limit that is lowered while the
statement sleeps ends the wait at the next invocation. `CancelEndsWait` is about the flag being one for all
callers: the next statement clears it, and must not do so while the one it was set for is inside. `CallsAnswered`
needs nobody to release the foreign lock.

`CopiesAgree`, `ValuesAreFound` and `DeletionIsAQuery` relate branches of code that were written out several
times and that nothing keeps in step. The second has the ends of the unsigned and the signed range in it, where
an unsigned value is stored by a cast. `SearchFindsContent` relates two tokenizers: a search's words come from
VialKeeper's own, the index's from Tantivy's, and the query has to meet what the second one stored. Words
longer than the index keeps are left out of it; so are fields without positions, whose phrases find nothing.
`DocumentsFitIndex` says that no value of a document ends up under another field or as another type, with handles
that the caller has grown since the index was created: every field added copies the ones before it, arm by arm, and must
leave their places and types. `DeletionIsAQuery` compares a deletion of one word with the query for the word alone,
since the query for the word with a space beside it finds nothing (section 6). `AnalyzersKeepOrder` compares each of the
32 rows with what an analyzer of these options should make of words.

`SearchSeesCompleted` is the promise of `search/7`: of each document one copy, and none older than what was
answered before the search began. Builds break it (`search_stale`). `SearchSeesStaged` is what remains of it with
commits, builds and failures in any order: a search may miss a document only if a build left it out of date and nobody
has written it since, or if the update of another id deletes its copies. It relates five things that change one
after the other (the writer's memory, the commit, the searcher, the marker, the flag) over the failure of any of them
and a restart that trusts only what has no marker. Of an id that its own deletion does not find, an old copy may stay
beside the new one; the property then only asks for the new one. `TypeOK` of this module includes the owner's
book-keeping between two handlers, which the liveness property rests on: whatever is staged has its marker, its flag and
a timer that runs.

`GuardedBlobsPresent` relates the files to the rows. A collection lists the live digests, then the files, and
deletes one after the other without looking at the rows again; in between an upload may protect, a mutation may
refer, a caller may die with its command sent. It holds because everything that makes a digest live holds a guard from
before the file is looked at until the row is there, or had sent its command before the digests are listed. An
import does not, which is the finding: `BlobsPresent` is the statement for all digests, `GuardedBlobsPresent` the
one for digests no import has committed, and only while the coordinator was not restarted, since a restart forgets
every guard. `TicketsOpen` says that a compaction between a reader's ticket and its file does no harm.
`CloseIsQuiet` is what lets the caller of a close move the database's files: a scheduled collection that was killed by
the close may still hold the token and be deleting. `OneRun` includes that a collection waits only while a guard is
in use, so that no order of releases, deaths and ends leaves one parked that could run. `GuardsExclude` is the
refinement of `SharedOrExclusive`: a release or a death may hand the exclusive hold on in the same step, and a restart
forgets every hold. `CompactedIsCollected` is about coalescing: a call that finds one run in progress and one queued is
dropped, and what it was for must be covered by the queued one.

Deadlock checking is off: the bounds stop every behaviour in the end, and a database nobody writes to is at rest.

## 4. Bounds and fairness

Ledger. Two writers, ranges of one or two numbers with `MaxSeq = 2`, `Block = 1` (4096 in the code) and two
crashes are enough for the interesting cases: a range that needs P raised and one that does not; a newest
reservation that gives numbers back, which are handed out again, while an older one is open; a restart of the
ledger and then of the owner, in both orders, with transactions in any phase and `COMMIT`s that land after both; a
range nobody knows of, below and above others; and a second run reusing numbers the first gave back. `Block = 1`
makes P tight, so that an error in the raise shows. `MaxVersion` caps V where `Reserve` starts another command; it does
not cut a command short. `Indexed` is true: the part of `NumbersApart` about databases without indexes is left to
the theorem.

Writer pool. Three writes whose documents cross (`{1}`, `{1,2}`, `{2}`) give a middle write that waits for
both neighbours. Two slots run at a time and a third replaces one that died. `writer_barrier`
has two writes and one serial caller, so that liveness can be checked beside safety; that one barrier may end while
another lasts is covered by the theorems alone, which are for any number of serial callers.

Admission. With `Limit = 3` and one slot reserved for each of two classes, three foreground clients meet the
reservation of the fourth, and two of them can pass the maintenance client in turn under weights 2 and 1. One
client has a deadline, so that it can expire in the queue, in the executor and at the owner beside clients that
do not. One death of any process in the safety run, two in the liveness run (with two clients): an executor
that dies and a drain that fails are two.

Native connection. Three callers are the fewest for one inside the connection, one at the mutex and one that
cancels or closes. `DefaultTimeout = 7` and `Timeouts = {2}` put the limits between two sums of the schedule
(1, 3, 8), so that naps are cut and a lowered limit finds a statement that has slept longer; the other
connection takes its lock twice, so that the second wait of one text starts its own count. The proofs have no
such bounds.

Text engine. The words have one with a capital, one whose stem is another word, a stop word, a stop word with
a capital, a stop word's stem, one that is too long, and strings that parse as each other type. Integers have
four bits (`Bits`, 64 in the code), with terms at both ends of both ranges and one past them. Two fields are enough for a field to
be copied by the next one's addition and for a handle that has grown past its index, two documents for one that a
deletion must spare; each type is reached as the first field and as the second. Texts have white space at the front or
nowhere, and one is white space alone; a chunk of punctuation alone is left out. Of the handles a caller may have kept
there are two, the index's own and the latest, which with two fields are all there can be since its creation; the
theorem is about these two as well, for schemas of any length.

Search owner. Two indexes are the fewest for one to fail after another; of two documents one has an id that its
deletion finds and the other does not; three commits give two versions of one document and one of the other, the third
version being a deletion (`Gone`); one failure or death at each possible point. With one reader a build meets
commits, failures, `rebuild_index` and the death of the owner. Two readers that replace each other's builds, and ids that
delete one another's copies, are in the theorem and not in this run; TLC has checked the inductive invariant
with two readers as well.

Attachments. One digest is enough, since a file's life depends on rows of its own digest only, and a
collection that deletes several is one that deletes each. Two callers that may make every call meet each other in
every pair of calls, each beside a compaction (which needs no caller of its own) and the collection it schedules;
two callers that collect and a scheduled collection are a run, a queued one and one that is dropped. With one
upload and one read at a time a second is refused; with two it is not, and the limit may move below what is in use
(`OneOrTwo`). `MaxCompactions = 1` and `MaxFaults = 1` (a death, an expiry, a failure or a restart of the
coordinator, at any point) bound the run; `Tasks` names the scheduled collections, and a name is used again only when
nothing of its last run is left.

In admission every handler runs in the end (strong fairness, since `grant_loop` disables the
others for a moment), and the executor and the owner take their steps.

Symmetry is used in safety runs only: over slots and serial callers (pool); the requests differ by their documents.

Fairness. The ledger, the pool and the slots are processes that the BEAM schedules and that handle their
mailbox in order: a message that has arrived is handled. Where a handler is disabled for short spells that come
back (the ledger between the two writes of its cell; the owner while it runs another command) this is strong
fairness (in the ledger for each writer's messages together, since a writer has one of them under way), elsewhere weak. A transaction ends because commands carry deadlines and the engine's busy waits are
bounded. In the driver every thread goes on (`Proceed`); nothing is assumed of the other connection. In the
search owner a handler that has begun ends, and the timer's message is handled in its turn (strong fairness, since
other handlers run in between); callers owe nothing. Supervisors restart what died. Nothing is assumed of crashes, of new commands, of deadlines (`AwaitDeadline`,
`CallerExpires`, `SerialGivesUp`, `CallerTimesOut`) or of a close: the liveness properties hold without their help.

## 5. What is proved

`SequenceLedgerProofs` proves, for any set of writers, any block size and any bounds:

| Theorem | States | Assumes |
|---|---|---|
| `TypeCorrect` | `Spec => []TypeOK` | the constants' types |
| `PersistedFirst` | `Spec => []ReservedThrough` | the constants' types |
| `SequencesApart` | `Spec => []NumbersApart` | the constants' types |
| `AnswersDurable` | `Spec => []AnsweredIsStored` | the constants' types |
| `FeedStability` | `Spec => FeedIsStable`, that is, `Spec` implements `StableFeed!Spec` | the same |
| `NothingWaitsForNothing` | `Spec => []HeldBackByRange` | the same |

Nothing is assumed of failures: writers die with their `COMMIT` under way, flushes fail after it, calls are given
up and handled all the same. Uniqueness, durability and the cover of P survive all of that, because the monitor's
handler gives no number of a dead holder back, and because a `COMMIT` finds a number that was given back after a failed
flush in the rows already.

None of the properties is inductive: that `HolderDown` may raise W, for instance, is safe only because what lies
below the new W is stored or never will be. The inductive invariant `LedgerInv` has these named parts:

- `TypeOK`;
- `RangesOK`: outstanding ranges are not empty, lie below `next` and do not meet;
- `CountersOK`: W is covered by the stored P, and in a running ledger is below `next`, which its P covers, which
  the stored P covers; a ledger that is down takes the owner with it and has nothing outstanding; while the owner
  is down every range is of a dead process;
- `HoldersOK`: W is below every live range; a writer is inside a transaction exactly when it holds a live range that it
  knows of, and holds only one such; the numbers it took are inside;
- `RowsOK`: every stored row is at or below the stored P, what a committed holder took last is stored, and what a
  `COMMIT` under way is to store is not; without full-text indexes (`RowsBelowNext`) rows are below `next`, and lie in a
  live range only if its holder has committed them;
- `AnswersOK`: what a completed or waiting writer will be answered with is stored, and so is every sequence
  answered already;
- `OrphansOK`: what a `COMMIT` without a process may still store is covered like a row, lies in no live range, is not
  stored yet, and is no other such `COMMIT`'s.

There is one step of the proof per action and one lemma for what several share (`AddRangeKeeps` for both ways a request
is handled, `FinishKeeps`, `CompleteKeeps`, `DeathKeeps`, `TakenInRange`, `TakenApart`, `CommitsApart`), with lemmas about `Lowest`, `Watermark` and the ranges a death marks. The
refinement is proved step by step: a step leaves W and the rows at or below it, or is an `Advance` of `StableFeed`, the
`Fall` of what a death leaves with the engine, or its `Arrive`. The lowest range exists because the natural numbers are well-founded (a library theorem); nothing
assumes that the set of reservations is finite.

`HeldBackByRange` is the safety side of `StoredBecomesVisible` and `WaitersReleased`, stated in `SequenceLedgerProofs`:
while the ledger runs, a stored row above W lies at or beyond the start of an open range, or is at or above `next`,
which takes full-text indexes; a parked caller waits for such a sequence, is about to be answered, or has lived through
a restart; and every open range has a holder that is inside its transaction, dead, or one that gave up its call. So
the state in which W is held down by nothing is never reached. Inductive with `LedgerInv` are `ParkedForMore` and
`FeedReaches` (W is just below `next` or has come to the start of an open range; a ledger that lost its state starts
over), which say of `finish_reservation` that it publishes the whole way and of `{:await, seq}` that it parks only what a
later publication will find (`FinishReaches`, `BeyondIsHeld`).

`WriterPoolProofs` proves, for any slots, writes, documents, limits and serial callers:

| Theorem | States | Assumes |
|---|---|---|
| `TypeCorrect` | `Spec => []TypeOK` | the constants' types |
| `DocumentsExclusive` | `Spec => []DocumentExclusion` | the same |
| `OrderKept` | `Spec => []WriteOrder` | the same |
| `AnswersFinal` | `Spec => []AnsweredIsOver` | the same |
| `BarrierStops` | `Spec => []BarrierHolds` | the same |
| `CachesFenced` | `Spec => []FencedCachesFresh` | the same |
| `NobodyIsForgotten` | `Spec => []NobodyIsLeft` | the same |

The inductive invariant `WriterPoolInv` (`InductiveInvariant`) has these parts:

- `TypeOK`;
- `PoolOK`: the queues repeat nothing, an idle slot has no job, a running job is not queued, its documents are
  held, and two running jobs are different and share no document;
- `Ordered`: the queue is in the order of arrival, and no earlier write that shares a document with a running one
  is queued or running. Exclusion and order hang together: what a waiter must leave alone is what runs and what
  is queued before it;
- `CallsOK`: what is queued or given to a slot has arrived, and nobody was answered for it;
- `SlotsOK`: a slot at work lives and works on the job the pool gave it; one that replies has a job the pool has
  done with; one that is not born has nothing;
- `BarrierOK`: whoever was told that the barrier holds has a token, and nothing runs;
- `CachesOK`: no slot saw a later epoch; unless a command escaped its barrier, a command at the owner has its token
  and nothing runs, and caches that count as fresh are, or the barrier that makes them stale has not ended yet.

`GrantKeeps` proves once that `grant_loop` keeps `PoolOK` and `Ordered` from any queues it may be called with; the
handlers that end with it (`SlotStarts`, `Complete`, `SlotDown`, `Execute`, `Cancel`, the two ends of a barrier,
`CancelClose`) only show what they hand to it. It rests on lemmas about places in a set of positions (`PlaceRises`,
`PlaceReached`) and about a queue some members left (`WithoutFacts`), since the loop gives the n-th ready waiter to
the n-th idle slot. `FencedCachesFresh` is the deepest: that a command's end may make caches stale is safe only
because nothing runs then, and because the epoch moves before anything may.

`NobodyIsLeft` is the safety side of `QueueDrains` and `BarrierGranted`, stated in `WriterPoolProofs` and confirmed by
TLC on the instances of `writer_safety` and `writer_barrier`, the latter with a close. It is inductive with
`WriterPoolInv`, and its parts name what each waiter waits for:

- `HeldByRunning`: the locked documents are exactly those of running writes, so that no ended, cancelled or crashed
  one leaves a document locked;
- `SlotsUsed`: a slot that lives is idle or has a job, and the pool monitors every slot that lives, is idle or has one;
- `QueueServed`: while no barrier or close pauses the pool, writes are queued only beside a running one or without
  an idle slot. That every write that may start is granted would be false: the exit of a queued caller
  (`CallerDown`) may free the documents another waits for, and grants nothing. What runs then ends with `grant_loop`;
- `DrainsEnd`: a barrier or a close that waits has a running write to wait for;
- `PausesEnd`: a pause belongs to a close under way or to callers on their way to the end of their barrier.

`GrantServes` is its part of `grant_loop`: the n-th idle slot is used or is left idle, never dropped
(`PlaceReached`), and with nothing running the first in the queue is always ready.

`AdmissionProofs` proves, for any clients, classes, weights, reservations, limit and bound on faults:

| Theorem | States | Assumes |
|---|---|---|
| `AdmissionTypes` | `Spec => []TypeOK` | the constants' types |
| `OwnerExclusive` | `Spec => []OneAtOwner` | the same |
| `NoLateStart` | `Spec => []AnsweredNeverStarts` | the same |
| `DrainIsOver` | `Spec => []DrainedIsIdle` | the same |
| `ReservedForEver` | `Spec => []ReservationsKept` | the same |
| `PassingIsBounded` | `Spec => []BoundedPassing` | the same |
| `NothingIsForgotten` | `Spec => []NothingForgotten` | the same |

The inductive invariant `AdmissionInv` (`AdmissionInvariant`) has these parts:

- `TypeOK`;
- `PlacesOK`: a client's command is in the scheduler's mailbox, or once in one queue, the one of its class, or
  further on, and never in two of these; who still waits for a grant has not been answered;
- `CommandsOK`: the flag, the executor and the owner's mailbox agree: what has been called or returned has won
  its flag, and what is at the owner and waited for is there once;
- `PermitOK`: a command that may still start, or has started and may still be at the owner, is `Pending`; while
  the scheduler lives only the active one is, and after its death at most one. `OneAtOwner` follows;
- `PhaseOK`: a scheduler that is down or starting holds nothing, no executor lives while it starts, a grant finds
  the permit free, and a drain belongs to an active command whose executor is gone;
- `AnsweredNeverStarts` itself.

`DrainIsOver` needs one more part, `ClosingOK`, kept by every step of its own (`CloseKeeps`): while the database
closes, the scheduler lives, nothing is queued, and a close that was told of idleness finds no permit in use. A
scheduler that dies forgets its close, so the part follows the close through deaths. What is still in the owner's
mailbox then is waited for by nobody, because `PermitOK` lets no command but the active one be `Pending`.

`OneAtOwner` is not inductive: that a grant does not send a second command is safe only because a free permit
means that nothing is pending, which three handlers (`Abandon`, `ExecutorDown`, `DrainEnds`), the death of the
scheduler and its restart keep each in its own way. There is a lemma per action, with a step per part, and
lemmas about what appending to, taking from and removing from a sequence without repetitions leaves.

`ReservationsKept` compares a sum over the classes with the limit. A class has (`Held`) what it occupies or what is
reserved for it, whichever is more, and the sum of that is never above the limit. Only `Acquire` lets anybody in
(`OthersAdmitNone`: a grant takes a place from the queue to the permit, every other step gives places back or keeps
them), and `AcceptedFits` shows that the test of `accepts?`, which adds up the reservations the other classes have not
used, is the right one: it leaves room for one more in the sum of `Held`.

`BoundedPassing` is kept with `PassingOK`, which says how near a waiting class is to its slot: from the cursor on, the
class's first slot comes after no more slots of others than are left to its bound. `Near` counts them round the
schedule. The slots of a class are one block (`ScheduleBlocks`, a fact about `FlattenSeq`), so that from any
cursor it has a slot within `Len(Schedule) - Weight` others (`NearFromAnywhere`); a scan that stops at another class has
gone by at least one of those (`NearerAfterScan`).

`NothingForgotten` is the safety side of `CallersAnswered` and `CloseAnswered`, stated in `AdmissionProofs` and
confirmed by TLC on the instance of `admission_safety`. Its three parts say that nobody is left waiting for an event
that cannot come: while the scheduler serves, clients are queued only behind a permit in use (`QueuesServed`); a permit
in use has a drain, an executor that may still start or is beyond its start, or the exit of a dead caller that will
give it back (`PermitReturns`); and a close that waits for idleness waits for such a permit (`CloseIsTold`). It needs
`AdmissionInv` and `ClosingOK`: `PlacesOK` to know that a waiter leaving its queue is not the one in use, `ClosingOK`
that the permit a closing scheduler frees was its last work, so that `notify_idle` cannot find a queue to hold it back.

Sums and flattening are defined by recursion in the community modules. `FoldLemmas` gets at them without an induction
principle over predicates: a recursive function is first shown to exist, then a smallest counterexample is taken among
the subsets of a finite set or among the naturals, which are well-founded by library theorems about sets.

`NativeConnProofs` proves, for any callers, limits and bounds:

| Theorem | States | Assumes |
|---|---|---|
| `TypeCorrect` | `Spec => []TypeOK` | the constants' types |
| `ClosedStaysQuiet` | `Spec => []ClosedIsQuiet` | the same |
| `CancelEndsIt` | `Spec => CancelEndsWait` | the same |
| `TimeoutKept` | `Spec => WaitsItsTimeout` | the same |

The last two are properties of steps, from the invariant `Inv`: `TypeOK`; `ClosedIsQuiet`; `HitCancels`, which
says that the flag is set while a statement it hit is inside; and `Sleeps`, which says what a statement has slept
in terms of the number of its invocations. `Sleeps` is where the arithmetic is: at an invocation the statement has
slept exactly the sum of the delays so far, or more than that only while it sleeps its last, cut nap, after
which it gives up under every limit it has read. That the table of sums is the sum of the table of delays is a
lemma (`WaitedNext`: the sum after one more invocation is the sum plus its delay), by cases on the table's
entries; it needs no induction, since the sums are the table the code has.

`AttachmentsProofs` proves, for any callers, tasks, digests, limits and bounds:

| Theorem | States | Assumes |
|---|---|---|
| `RunIsOne` | `Spec => []OneRun` | the constants' types |
| `GuardsKeepBlobs` | `Spec => []GuardedBlobsPresent` | the same |
| `TicketsAreGood` | `Spec => []TicketsOpen` | the same |
| `ClosedIsQuiet` | `Spec => []CloseIsQuiet` | the same |
| `CompactionIsCollected` | `Spec => []CompactedIsCollected` | the same |
| `CollectionIsAlone` | `Spec => GuardsExclude`, that is, `Spec` implements `SharedOrExclusive!Spec` | the same |

The first and the last hold through restarts of the coordinator; the others speak of the time before the first one,
since a restarted coordinator knows no guard. The inductive invariant `Inv` has these parts:

- `Typed`;
- `Settled`, of the coordinator alone: `OneRun`, no token beside a guard, and its type. `Coherent` is what is left
  of it in the middle of a handler, when the last guard has gone and nobody has looked for a grant yet: every
  handler ends with `MaybeCompleteWaiters`, which makes it `Settled` again;
- `Quiet`: a close that was answered "closed" found no guard and no token, and none is given any more;
- `Sound`, of each process: in the middle of a call it has the call's guard, in a run the token; a file whose
  protection is on its way to the owner is there, even if its caller is dead; what a run has listed covers all that is
  reachable, and what it still has to delete is not reachable; a ticket names a file;
- `Alone`: no protection is on its way while a run that has its list lives. This is where `List` has to be behind the
  commands of dead callers: their guards are gone, so the token does not exclude them;
- `Kept`: what is reachable and was not imported has its file.

None of `GuardedBlobsPresent`, `TicketsOpen` and `CloseIsQuiet` is inductive: that a deletion is safe rests on the list,
the list's worth on `Alone`, and `Alone` on the exclusion of guards and token, hence on every handler of the
coordinator. The proof goes the other way. There is a lemma per handler that says what it does to the guards,
the token and the answers (`Serves`, `SameHolds`), and nothing else of the coordinator is used after them. A step of
one process leaves the others sound if it takes no guard or token from them and no blob from the store
(`OthersSound`); a lemma per action then has only its own process to look at. Two actions do more, `Protect` and
`Delete`, and they are the two that meet in a race. The refinement maps guards to shared holds and the token to the
exclusive one, with a lemma per kind of step. TLC found no state of `MCAttachments` outside `Inv`.

`CompactionIsCollected` has an invariant of its own above `Inv`: while nothing went wrong and no close began, `Orderly`
holds. Its parts:

- `Placed`, of each process: the dead do nothing; who has the token is in its run or has the grant unread; who waits or
  is queued is alive, waits, and was told nothing yet;
- every file without a row is `Covered`: by an upload about to protect it, by the run that has it in its list or has
  made none yet, by a call that waits or is queued, or by a task that has not asked.

The property alone says nothing of a run in progress, and there a compaction may take the last row of a file after the
run made its list. What has to be followed is how cover moves: from a task to the call queued before it when it is
told "coalesced", from a call that waits to the token when the last guard goes, from the list of reachable digests to
the files to delete. `Advances` is what each handler owes to the runs of the others: a token is kept or given to one who
waited, and as long as somebody waits or is queued nobody is forgotten; with it `OthersCover` and `OneOrderly` reduce
every action to its own process. TLC checked `Undisturbed => Orderly` beforehand, with two tasks and two compactions.

`SearchOwnerProofs` proves, for any documents, indexes, writers, readers, deletions and bounds:

| Theorem | States | Assumes |
|---|---|---|
| `OwnerTypes` | `Spec => []TypeOK` | the constants' types; documents are finitely many; the order of the indexes names each once |
| `SearchesSeeStaged` | `Spec => []SearchSeesStaged` | the same |

Nothing is assumed of ids, of the number of readers that build, or of what commits during a build. Failures of
staging, of publishing and of builds, deaths of the owner between any two of its steps, restarts and `rebuild_index` are
not restricted either.

`TypeInv` makes the bookkeeping of `TypeOK` inductive: `TypeOK` speaks of the moments between two handlers, `TypeInv`
also of those inside a publish or a build (`DataOK`, `HandOK`, `PhaseOK`, `StagingOK`). `SearchSeesStaged` follows from
`SeenInv(d)`, for each document d that no other id's update touches (`Own`):

- `Served`: while the owner runs, a built index is `Applied` (its writer holds the staged update of d, or what the
  generation holds, which answers the last write unless d is missed), `Shown` (its searcher is new enough unless an
  update of d is staged, hence flagged, or d is missed) and, between the removal of the markers and the clearing of the
  flag, `Committed`; an index that is not built has its marker and no searcher;
- `Trusted`: while it does not run, a generation without a marker answers every write of d unless d is missed;
- `Reading`: what a reader relies on at each place of its search (`Knows`). One that is owed d and has found no flag, or
  has been told that its publish is over, finds a searcher not older than its floor.

That d is not missed is what a build must not take away in silence: `FinishBuild` compares what it publishes with
what was answered (`Lacking`) and with what it discards, and takes both from what readers under way are owed.

The hard steps are those that make a promise of one reader about a later state of the owner: a reader between the flag
and the lookup, while an index fails, is rolled back and its flag is cleared by the last staged index that goes; and
the crash, which may leave any part of a publish done. `GoneSeen` is what the three ways of ending have in common, and
`CallerSeen` what all steps of readers have. TLC checked the invariant beforehand, with two indexes and with two
readers and two failures.

`TextEngineProofs` proves, for any words, texts, terms, documents, names, options, widths of integers and bounds:

| Theorem | States | Assumes |
|---|---|---|
| `DocumentsFit` | `Spec => []DocumentsFitIndex` | the constants' types: strings are texts of words, the numbers of terms are integers, documents map names to terms |
| `CopiesStoreAlike` | `Spec => []CopiesAgree` | the same |
| `StoredValuesAreFound` | `Spec => []ValuesAreFound` | the same |
| `DeletionsAreFound` | `Spec => []DeletionIsAQuery` | the same |
| `ContentIsFound` | `Spec => []SearchFindsContent` | also that what lower case makes of a word is a word, and that a word is a prefix of itself |
| `AnalyzersFilterInOrder` | `Spec => []AnalyzersKeepOrder` | also that lower case and stems are words |

The run checks these on 19 words and about forty terms in integers of four bits; the theorems say that nothing hangs on that
choice. What the parsers take, what a stemmer does and which words a language stops are arbitrary.

The inductive invariant `EngineInv` says how the state was made: `FieldsAreMade` (schemas have only fields the schema
functions make), `NamesApart` and `IndexBegins` (every name is one field's, and the schema grows from the index's),
`DocumentsAreMade` (the documents of the writer and of the last commit are what one of the three ways of adding makes of
a document under the schema of their index, and there are none before it) and `DefaultIsSimple` (the registered default
tokenizer is the simple one without filters). `DocumentsFitIndex`, `DeletionIsAQuery` and `SearchFindsContent` speak of
live documents and do not follow from themselves after a rollback or a new writer, which bring the committed documents
back. For `DocumentsFit`, `CopiedAsIs` goes through the ten arms, `HandlesAgree` shows that a grown handle has the fields
of the index in their places and types, and `ReadIsMade` that the index then reads what the handle's conversion made.
TLC found no state of `MCTextEngine` outside `EngineInv`.

What is left are facts about the operators, none of which may go through a recursion, since the provers have no
induction principle to cite. Three places needed one:

- a chain of filters is a fold. `Filters` says what the fold's recursive function is, `FiltersExist` that there is one,
  and `AfterOneMore` that one more filter is applied to what the others leave; `ChainsAreThese` goes through the 32 rows
  of the code, `ChainApplies` through the combinations of options, and `SelectionOfTokens`, `LowerOfTokens` and `StemOfTokens` carry each filter from tokens to words;
- the words of a text are its chunks, flattened. `PartOccurs` in `FoldLemmas` shows that the words of consecutive chunks
  stand in the words of the whole, one after the other; the phrase query needs the order, the others only that they are
  there;
- what passes a filter is picked from a sequence in order. `Selections` writes that without recursion, as the
  elements at the positions that pass, the nth of them being the one that has n of them up to itself; `NthExists` shows that
  there is one. The model uses this form, so that model and proofs speak of the same thing.

`DeletedIsFound` is where the two copies of the text term meet: the deletion's phrase is at least as narrow as the
query's conjunction, in a field with positions and in one without, for one chunk with white space around it or without,
and for several. `FoundInAnyMode` does the
same for the four modes of a search. The conversions are lemmas by type of field (`AddsAgree`, `DeletedAsStored`,
`StoredIsDeletable`, `DeletedAsQueried`, `RangeOfOne`), with the arithmetic of the signed and the unsigned range in the last.

With these, every invariant and every property of steps that a passing run checks is a theorem. Only model-checked are
the liveness properties (`StoredBecomesVisible`, `WaitersReleased`, `QueueDrains`, `BarrierGranted`, `CallersAnswered`,
`CloseAnswered`, `CallsAnswered`, `StagedIsPublished`), since fairness and ENABLED are beyond the prover.

## 6. Where the code and its words disagree

Three runs check a quoted statement and TLC refutes it by what the code does.

- `ledger_reuse` (`runtime/sequence_ledger.ex:203`: "A rolled-back write stored nothing, whatever numbers it took."; `:19`
  says that a restart never reuses stored sequences): a write commits, the search owner cannot be told of its
  changes in time (`search.ex:202`), the command fails and its reservation is completed as aborted. The newest
  reservation gives all its numbers back, the next write takes one that is stored, and its `INSERT` breaks the
  primary key of the change rows. It rolls back, gives the number back in turn, and so on until another reservation is
  the newest or the ledger is started again.
- `search_stale` (`search/owner.ex:111`: "Staged updates are published first, so a search observes every write that
  completed before it."): a reader takes its view of the rows; a write commits, is staged and answered; the index stops
  serving, because a later update cannot be staged (or published, or the owner dies); the reader finds no generation and
  builds one from its older view (`storage/sqlite/index_candidates.ex:462`); the next search misses the write.
- `attachment_import` (`src/Operations.md:581`): a revision may be kept whose blob has no file. An import asks which
  blobs are missing, finds one present, and holds no guard; a compaction removes the last row that names the
  blob, a collection lists it as dead; the import finds the file, commits; the collection deletes the file.

Observations of the models that no run states, each a place where a comment promises more than the code keeps:

- A reserve call that is given up leaves a range that nobody completes (`runtime/sequence_ledger.ex:78, 244-250`): the
  ledger monitors the caller, which lives on, so W, and with it the feed of the database, stays below the range until that
  process dies. A slot of the writer pool or the owner lives as long as the database is open.
- Callers parked in a ledger that outlives its owner stay parked when the reload raises W past their sequence
  (`load/2`, 287-306, answers nobody): they are answered when W next rises (420-427) or at their deadline.
- A write whose flush failed after its `COMMIT` does not raise V, so query bookmarks stay valid over rows that changed
  (`sequence_ledger.ex:408`).
- A serial command may run beside concurrent writes: its caller gives up and returns the barrier while the owner
  still has the command (`runtime/writer_pool.ex:195`), although the pool's first lines (`:15`) speak of a barrier around
  serial commands. `FencedCachesFresh` speaks of the runs in which that did not happen (`escaped`).
- The id of a document is lower-cased and split to find its old copy (`search/tantivy.ex:136`): an id with spaces
  keeps its old copies, and an update of an id with capitals deletes the copy of the same id in small letters.
- A build drops what is staged on the generation it replaces before its own searcher is published
  (`search/owner.ex:547-556, 614-637`): a search in between reads the old searcher without the staged updates, since
  the flag is gone with them.
- Of one word, a query takes the text as it is typed (`query.rs:119`), while a deletion drops the white space around it
  (`document.rs:246`): a deletion by `"rust "` takes documents that the query for `"rust "` does not find. Both are in
  `src/native/tantivy_ex/native/tantivy_ex/src/modules/`.
- An addition by a grown handle with a value for a field the index does not have is answered with success and kills the
  indexing thread (`document.rs:473, 591`); what the writer had not committed is lost with it.
- A batch's reference guard does not outlive the coordinator (`attachments.ex:86` says that collection cannot race the
  batch): a restarted coordinator knows no guard, so a collection may run beside
  a batch and delete what the batch has stored and not protected yet. The batch goes on and answers ok.
- The base of a run is not always above the data versions of earlier runs (`runtime/sequence_ledger.ex:18`,
  `storage/sequence_view.ex:4`). Commits that store nothing raise V, and their numbers are taken back, so V
  outruns P; after a restart the base is `P + 1`.
- A successful write response does not always imply that the feed includes the write
  (`runtime/mutation_commands.ex:8`): at the caller's deadline, or when the ledger exits, the wait is given up and
  the answer is still success. It is always durable (`AnsweredIsStored`).
- A writer killed while the engine runs its `COMMIT` may still commit (`runtime/sequence_ledger.ex:272` says that it
  does not): its row may then appear below a W that readers have passed, and no bookmark, subscription or replication
  that has read to W sees it. It is the exception of `StableFeed` (`Fall`, `Arrive`).
- After a close that is abandoned past `close_writers` (`runtime/writer_pool.ex:301`), the pool accepts writes
  that its slots can only refuse.
- `close/1` does not always wake a statement (`storage/sqlite/connection.ex:54`): one that takes the mutex
  between the store of the flag and the close's turn clears it, and waits for a foreign lock as long as its
  limit says.
- A close that fails after `begin_close` (`runtime/database_catalog.ex:1195`) leaves the coordinator closing: nothing
  takes it back, and uploads and reads of the database that stays open are refused.
- Pending protection is one row per digest: a mutation that refers to the digest ends the protection of another
  upload of it before `expires_at` (`storage/services/attachments.ex:157`).
- A dropped (coalesced) trigger trusts the queued run; if the caller of that one dies, neither runs until the next trigger.

## 7. What is not modelled

- Content of documents, revisions and queries; the ledger's rows are their sequences.
- The ledger: the timeout of `complete`, whose caller may likewise go on before the ledger has handled it; several
  commands of one process under way at once.
- Databases without a ledger (memory adapter, shadows, the standalone path of `sequences.ex`) and the overlay of
  an identity map.
- The number and delays of a slot's conflict retries: a write is one step of any length.
- A crash of the writer pool itself, after which its supervisor starts all slots anew.
- Concurrent writes routed to the owner while the pool is not enabled.
- Admission, between the barrier and the owner, is in `WriterPool` only a command that is queued, may be refused
  and runs alone; `Admission` models it by itself. The two are not composed yet.
- `with_permit`, which lends the permit to its caller and which only tests use; the parked executor that the
  scheduler reuses (each grant has a fresh one in the model).
- The occupancy that `writer_pool.ex` states in its first lines may be exceeded when the end of one write makes
  several waiters ready; nothing depends on it, and no run shows it.
- Search: dropping an index, generation numbers and their directories, failed writes of the marker file, ranking
  and paging of hits, several documents in one flush. The catch-up of a build reads the changes through the
  view the builder already has, so it finds nothing new.
- Tantivy binding: `delete_all`, fuzzy, regex, phrase-prefix, existence, facet and more-like-this queries, the query
  parser, scores, fast fields, the precision of floats, segments and merging. Aggregations, collectors, readers'
  caches and index warming have state of their own, but VialKeeper does not call them.
- Attachments: contents, digests and compression; staging files and their cleanup; read-only databases; the
  pages of a long listing; ranges and credits of a body. A deletion that a killed collection had handed to the
  file server may land after its death; in the model it does not. Guard calls that time out after the coordinator
  has granted them. The owner's calls of the coordinator and the coordinator's start, which asks the owner for its
  configuration, are instantaneous. That `begin_gc` and `begin_close` are answered is not stated as liveness: `OneRun`
  says that whoever waits has somebody to wait for.
- Native drivers: the values of parameters and columns, `serialize`'s bytes; the Turso driver.
- Everything the table of section 1 names and section 2 does not; `PROJECT.json` gives a reason for each.

## 8. Plan

In this order, each with an abstract specification where one is worth stating:

1. `ReadPool`, and `RuntimeClose`, which composes both pools, admission and the catalog's close: who waits for
   whom, interrupts that meet the next request, undoing a close.
2. `SubscriptionHub`, over `StableFeed`: every change once and in order, or a reset. `Bookmarks`, over the
   ledger's V and W.
3. `Replication` with both checkpoints, and `Retention`: no change skipped, no history lost that a live peer
   needs. `TransferPipeline` as a component of it.
4. `Shadow`: journal, bundle and generation across crashes.
5. `Revisions`: winner and conflict resolution as operators, against a reference definition on small trees.

Runs for each: one for safety, one for liveness where the component owes any, with two or three clients, one or
two crashes, and queues of length one or two.
