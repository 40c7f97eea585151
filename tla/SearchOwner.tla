----------------------------- MODULE SearchOwner -----------------------------
(* The owner of a database's full-text indexes (lib/vial_keeper/search/        *)
(* owner.ex) between the writers that commit rows and then hand them over, the *)
(* readers that search in their own process, and the builds of new             *)
(* generations.  A copy is one version of one document in an index.  Tantivy   *)
(* is external: a writer whose operations apply at its commit, and a searcher  *)
(* that sees one commit.  The catch-up of a build finds nothing: a reader has  *)
(* one view of the rows throughout, and the exclusive build has no writers.    *)
EXTENDS Integers, Sequences, FiniteSets, Functions

CONSTANTS Docs,
          Found,        \* the document whose copies the delete query of an id
                        \* finds: its own, that of another id, or None
          IndexOrder,   \* the indexes, in the order of the owner's map
          Writers, Readers,
          Admin,        \* the caller of rebuild_index, which excludes both
          Gone,         \* versions that are deletions
          None,
          MaxCommits,   \* bound: commits in all
          MaxFaults     \* bound: deaths of the owner and failed calls in all

Indexes == Range(IndexOrder)
Builders == Readers \cup {Admin}
Versions == 0..MaxCommits
Copies == Docs \X Versions

ASSUME SearchOwnerAssumption ==
  /\ IndexOrder \in Seq(Indexes) /\ IsInjective(IndexOrder)
  /\ IsFiniteSet(Docs) /\ None \notin Docs /\ Found \in [Docs -> Docs \cup {None}]
  /\ Gone \subseteq Nat \ {0}
  /\ Admin \notin Readers /\ None \notin Readers \cup Writers \cup {Admin}
  /\ MaxCommits \in Nat /\ MaxFaults \in Nat

VARIABLES rows,      \* the version of each document in the database
          acked,     \* the version of each whose write was answered with ok
          hand,      \* the update a writer has committed and not handed over
          disk,      \* copies in the generation the manifest names
          marker,    \* the pending marker file
          up, run,   \* the owner runs; its incarnation
          live,      \* indexes with a handle
          work,      \* copies the index would have if its writer committed
          pending,   \* staged and unpublished versions, the owner's map
          timer,     \* publish_timer is set
          due,       \* timers that run and messages of theirs in the mailbox
          build,     \* copies of the generation being built, or None
          phase,     \* the handler the owner is inside, if it shows outside
          flag,      \* {uuid, :pending} in the table of published searchers
          published, \* copies the published searcher of an index sees, or None
          rd,        \* the readers, and the caller of rebuild_index
          missed,    \* history: the documents a build left out of date in an
                     \* index, until they are next written or the index built
          faults

db == <<rows, acked, hand>>
files == <<disk, marker>>
memory == <<up, run, live, work, pending, timer, due, build>>
table == <<flag, published, missed>>   \* what readers rely on
vars == <<db, files, memory, phase, table, rd, faults>>

Ready == [at |-> "ready", index |-> None, caller |-> None]
Free == up /\ phase = Ready
NoUpdate == [d \in {} |-> 0]
Staged == {i \in Indexes : pending[i] # NoUpdate}

Idle == [pc |-> "idle", index |-> None, pid |-> 0, again |-> FALSE, got |-> {},
         snap |-> [d \in Docs |-> 0], floor |-> [d \in Docs |-> 0], owed |-> {},
         todo |-> {}]

Fault == faults < MaxFaults /\ faults' = faults + 1

\* What an index holds of a document at version v.
Copy(d, v) == IF v = 0 \/ v \in Gone THEN {} ELSE {<<d, v>>}

\* Tantivy.replace/4: a delete by a term query, then an add.  The id field is
\* indexed as it is, and the query is lower cased and cut at spaces: it finds an id
\* in small letters, of an id with capitals the one in small letters, and no id of
\* several words.
Replace(copies, d, v) == {c \in copies : c[1] # Found[d]} \cup Copy(d, v)

Plain == {d \in Docs : Found[d] = d}

\* Ids whose copies the update of another id deletes.
Disturbed == {d \in Docs : \E e \in Docs \ {d} : Found[e] = d}

\* An index with these copies finds d at a version from floor on, and at no other
\* when the delete query finds d.
Holds(copies, d, floor) ==
  \E v \in floor[d]..rows[d] :
    /\ Copy(d, v) \subseteq copies
    /\ d \in Plain => {c \in copies : c[1] = d} \subseteq Copy(d, v)

\* The documents of which these copies are not up to date with the answers given.
Lacking(copies) == {d \in Docs : ~Holds(copies, d, acked)}

\* The indexes S have been given the newest version of d.
Remedied(S, d) == [i \in Indexes |-> IF i \in S THEN missed[i] \ {d} ELSE missed[i]]

-------------------------------------------------------------------------------
Init ==
  /\ rows = [d \in Docs |-> 0] /\ acked = rows
  /\ hand = [w \in Writers |-> None]
  /\ disk = [i \in Indexes |-> {}]
  /\ marker = [i \in Indexes |-> FALSE]
  /\ up = TRUE /\ run = 1
  /\ live = Indexes
  /\ work = disk
  /\ pending = [i \in Indexes |-> NoUpdate]
  /\ timer = FALSE /\ due = 0
  /\ build = [i \in Indexes |-> None]
  /\ phase = Ready
  /\ flag = FALSE
  /\ published = disk
  /\ rd = [r \in Builders |-> Idle]
  /\ missed = [i \in Indexes |-> {}]
  /\ faults = 0

-------------------------------------------------------------------------------
(* Writers: the transaction commits, then its winners go to the owner.         *)

Commit(w, d) ==
  /\ hand[w] = None
  /\ rd[Admin].pc = "idle"
  /\ \A o \in Writers : hand[o] # None => hand[o][1] # d
  /\ FoldFunction(+, 0, rows) < MaxCommits
  /\ rows' = [rows EXCEPT ![d] = @ + 1]
  /\ hand' = [hand EXCEPT ![w] = <<d, rows[d] + 1>>]
  /\ UNCHANGED <<acked, files, memory, phase, table, rd, faults>>

\* Staging sets the timer unless it is set.
Schedule(S) ==
  /\ timer' = (timer \/ S # {})
  /\ due' = IF S # {} /\ ~timer THEN due + 1 ELSE due

\* The update u is in the writers of the indexes S, each marked pending.
Stage(S, u) ==
  /\ work' = [i \in Indexes |-> IF i \in S THEN Replace(work[i], u[1], u[2]) ELSE work[i]]
  /\ pending' = [i \in Indexes |->
       IF i \in S THEN [d \in DOMAIN pending[i] \cup {u[1]} |->
                          IF d = u[1] THEN u[2] ELSE pending[i][d]]
       ELSE pending[i]]
  /\ marker' = [i \in Indexes |-> marker[i] \/ (i \in S /\ pending[i] = NoUpdate)]
  /\ flag' = (flag \/ S # {})
  /\ Schedule(S)

\* The built indexes among the first n.
First(n) == {i \in live : \E k \in 1..n : IndexOrder[k] = i}

\* refresh_many; full when it has staged the last update of a group.
Refresh(w, full) ==
  /\ Free /\ hand[w] # None
  /\ Stage(live, hand[w])
  /\ phase' = IF full /\ live # {} THEN [Ready EXCEPT !.at = "publishing"] ELSE phase
  /\ acked' = [acked EXCEPT ![hand[w][1]] = hand[w][2]]
  /\ hand' = [hand EXCEPT ![w] = None]
  /\ missed' = Remedied(live, hand[w][1])
  /\ UNCHANGED <<rows, disk, up, run, live, build, published, rd, faults>>

\* The index stops serving and its staged updates are dropped.
Invalidate(i) ==
  /\ live' = live \ {i}
  /\ published' = [published EXCEPT ![i] = None]

\* Staging fails in the index after the first n: the write is answered with the
\* error, and later indexes do not see it.  The failing index is rolled back to its
\* generation and given its earlier updates again in their order, so its writer has
\* what it had before; it stops serving when one of them fails too.
RefreshFails(w, n, restored) ==
  /\ Free /\ hand[w] # None
  /\ Fault
  /\ LET i == IndexOrder[n + 1]
         S == First(n)
         u == hand[w]
     IN /\ i \in live
        /\ pending[i] = NoUpdate => restored
        /\ work' = [j \in Indexes |->
             IF j \in S THEN Replace(work[j], u[1], u[2]) ELSE work[j]]
        /\ pending' = [j \in Indexes |->
             IF j \in S THEN [d \in DOMAIN pending[j] \cup {u[1]} |->
                                IF d = u[1] THEN u[2] ELSE pending[j][d]]
             ELSE IF j = i /\ ~restored THEN NoUpdate ELSE pending[j]]
        /\ marker' = [j \in Indexes |-> marker[j] \/ j \in S]
        /\ flag' = (\E j \in Indexes : pending'[j] # NoUpdate)
        /\ Schedule(S)
        /\ IF restored THEN UNCHANGED <<live, published>> ELSE Invalidate(i)
  /\ hand' = [hand EXCEPT ![w] = None]
  /\ missed' = Remedied(First(n), hand[w][1])
  /\ UNCHANGED <<rows, acked, disk, up, run, build, phase, rd>>

-------------------------------------------------------------------------------
(* Publishing: one commit and one searcher for each index with staged updates. *)

\* handle_info, also for a message that was in the mailbox when its timer was
\* cancelled.
TimerFires ==
  /\ Free /\ due > 0
  /\ due' = due - 1
  /\ timer' = FALSE
  /\ phase' = IF Staged = {} THEN phase ELSE [Ready EXCEPT !.at = "publishing"]
  /\ UNCHANGED <<db, files, up, run, live, work, pending, build, table, rd, faults>>

\* Cancels the timer; its message may be in the mailbox already.
CancelTimer == due' \in {due, IF timer THEN due - 1 ELSE due}

\* Every staged index is committed, its searcher published, its marker removed.
PublishIndexes ==
  /\ up /\ phase.at = "publishing"
  /\ disk' = [i \in Indexes |-> IF i \in Staged THEN work[i] ELSE disk[i]]
  /\ published' = [i \in Indexes |-> IF i \in Staged THEN work[i] ELSE published[i]]
  /\ marker' = [i \in Indexes |-> marker[i] /\ i \notin Staged]
  /\ CancelTimer
  /\ phase' = [phase EXCEPT !.at = "unflagging"]
  /\ UNCHANGED <<db, up, run, live, work, pending, timer, build, flag, rd, missed, faults>>

\* As above, but index bad fails, at its commit or (seen) at its new searcher.
PublishFails(bad, seen) ==
  /\ up /\ phase.at = "publishing"
  /\ bad \in Staged
  /\ Fault
  /\ LET S == Staged \ {bad} IN
     /\ disk' = [i \in Indexes |->
          IF i \in S \/ (i = bad /\ seen) THEN work[i] ELSE disk[i]]
     /\ published' = [i \in Indexes |->
          IF i \in S THEN work[i] ELSE IF i = bad THEN None ELSE published[i]]
     /\ marker' = [i \in Indexes |-> marker[i] /\ i \notin S]
  /\ work' = [work EXCEPT ![bad] = disk'[bad]]
  /\ live' = live \ {bad}
  /\ CancelTimer
  /\ phase' = [phase EXCEPT !.at = "unflagging"]
  /\ UNCHANGED <<db, up, run, pending, timer, build, flag, rd, missed>>

\* Variant: the cancelled timer is still taken for a running one.
ClearFlagKeepsTimer ==
  /\ up /\ phase.at = "unflagging"
  /\ flag' = FALSE
  /\ pending' = [i \in Indexes |-> NoUpdate]
  /\ rd' = IF phase.caller = None THEN rd
           ELSE [rd EXCEPT ![phase.caller].pc = "lookup"]
  /\ phase' = Ready
  /\ UNCHANGED <<db, files, up, run, live, work, timer, due, build, published, missed, faults>>

\* Then the flag is cleared, the group forgotten and the caller answered.
ClearFlag ==
  /\ up /\ phase.at = "unflagging"
  /\ flag' = FALSE
  /\ pending' = [i \in Indexes |-> NoUpdate]
  /\ timer' = FALSE
  /\ rd' = IF phase.caller = None THEN rd
           ELSE [rd EXCEPT ![phase.caller].pc = "lookup"]
  /\ phase' = Ready
  /\ UNCHANGED <<db, files, up, run, live, work, due, build, published, missed, faults>>

-------------------------------------------------------------------------------
(* Readers: search/7 in the calling process.                                   *)

Goes(r, place) == rd' = [rd EXCEPT ![r].pc = place]
Fails(r) == rd' = [rd EXCEPT ![r] = Idle]
Reaches(r) == up /\ rd[r].pid = run

\* ensure_owner comes after the snapshot; floor is what has completed before.
Search(r, i) ==
  /\ up
  /\ rd[r].pc = "idle" /\ rd[Admin].pc = "idle"
  /\ rd' = [rd EXCEPT ![r] =
       [Idle EXCEPT !.pc = "check", !.index = i, !.pid = run, !.snap = rows,
                !.floor = acked, !.owed = Docs \ missed[i]]]
  /\ UNCHANGED <<db, files, memory, phase, table, faults>>

Check(r) ==
  /\ rd[r].pc = "check"
  /\ Goes(r, IF flag THEN "flagged" ELSE "lookup")
  /\ UNCHANGED <<db, files, memory, phase, table, faults>>

\* The call :publish_pending.
AskPublish(r) ==
  /\ rd[r].pc = "flagged"
  /\ IF Reaches(r)
     THEN /\ phase = Ready
          /\ IF Staged = {}
             THEN Goes(r, "lookup") /\ UNCHANGED phase
             ELSE Goes(r, "waiting") /\ phase' = [Ready EXCEPT !.at = "publishing", !.caller = r]
     ELSE Fails(r) /\ UNCHANGED phase
  /\ UNCHANGED <<db, files, memory, table, faults>>

Finds(r, copies) == rd' = [rd EXCEPT ![r].pc = "got", ![r].got = copies]

Lookup(r) ==
  /\ rd[r].pc = "lookup"
  /\ LET seen == published[rd[r].index] IN
       IF seen # None THEN Finds(r, seen) ELSE Goes(r, "asking")
  /\ UNCHANGED <<db, files, memory, phase, table, faults>>

\* The call :search, which publishes first; a second miss is an error.
AskSearch(r) ==
  /\ rd[r].pc = "asking"
  /\ IF Reaches(r)
     THEN /\ phase = Ready
          /\ IF Staged # {}
             THEN Goes(r, "waiting") /\ phase' = [Ready EXCEPT !.at = "publishing", !.caller = r]
             ELSE /\ UNCHANGED phase
                  /\ IF rd[r].index \in live THEN Finds(r, disk[rd[r].index])
                     ELSE IF rd[r].again THEN Fails(r) ELSE Goes(r, "missed")
     ELSE Fails(r) /\ UNCHANGED phase
  /\ UNCHANGED <<db, files, memory, table, faults>>

Answered(r) ==
  /\ rd[r].pc = "got"
  /\ Fails(r)
  /\ UNCHANGED <<db, files, memory, phase, table, faults>>

-------------------------------------------------------------------------------
(* Builds: begin_rebuild, rebuild_batch for each page, finish_rebuild.         *)

Alive(snap) == {d \in Docs : Copy(d, snap[d]) # {}}

\* The build under way, whoever's it is, is aborted.
BeginBuild(r, i) ==
  /\ Free
  /\ build' = [build EXCEPT ![i] = {}]
  /\ rd' = [rd EXCEPT ![r].pc = "building", ![r].index = i,
                      ![r].todo = Alive(rd[r].snap)]
  /\ UNCHANGED <<db, files, up, run, live, work, pending, timer, due, phase, table, faults>>

\* A reader that found no generation builds it from its snapshot.
BuildMissing(r) ==
  /\ rd[r].pc = "missed"
  /\ BeginBuild(r, rd[r].index)

\* rebuild_index excludes writers and readers.
Rebuild(i) ==
  /\ Free
  /\ \A r \in Builders : rd[r].pc = "idle"
  /\ \A w \in Writers : hand[w] = None
  /\ build' = [build EXCEPT ![i] = {}]
  /\ rd' = [rd EXCEPT ![Admin] = [Idle EXCEPT
       !.pc = "building", !.index = i, !.snap = rows, !.todo = Alive(rows)]]
  /\ UNCHANGED <<db, files, up, run, live, work, pending, timer, due, phase, table, faults>>

\* A page of the snapshot; the builder fails when the build is not there.
Batch(r, d) ==
  /\ Free
  /\ rd[r].pc = "building" /\ d \in rd[r].todo
  /\ IF build[rd[r].index] = None
     THEN Fails(r) /\ UNCHANGED build
     ELSE /\ build' = [build EXCEPT ![rd[r].index] = @ \cup Copy(d, rd[r].snap[d])]
          /\ rd' = [rd EXCEPT ![r].todo = @ \ {d}]
  /\ UNCHANGED <<db, files, up, run, live, work, pending, timer, due, phase, table, faults>>

\* Variant: updates staged on a replaced generation are kept.
DiscardNothing(i) == UNCHANGED <<pending, flag>>

\* discard_pending: the flag goes with the last staged index.
Discard(i) ==
  /\ pending' = [pending EXCEPT ![i] = NoUpdate]
  /\ flag' = (flag /\ \E j \in Indexes : pending'[j] # NoUpdate)

\* The generation is committed and the manifest names it; updates staged on the
\* one it replaces are dropped.
FinishBuild(r) ==
  /\ Free
  /\ rd[r].pc = "building" /\ rd[r].todo = {}
  /\ LET i == rd[r].index IN
     IF build[i] = None
     THEN Fails(r) /\ UNCHANGED <<disk, live, work, pending, build, flag, phase, missed>>
     ELSE /\ disk' = [disk EXCEPT ![i] = build[i]]
          /\ work' = [work EXCEPT ![i] = build[i]]
          /\ live' = live \cup {i}
          /\ build' = [build EXCEPT ![i] = None]
          /\ Discard(i)
          /\ missed' = [missed EXCEPT ![i] = @ \cup Lacking(build[i]) \cup DOMAIN pending[i]]
          /\ rd' = [o \in Builders |-> [rd[o] EXCEPT
               !.pc = IF o = r THEN "finishing" ELSE @,
               !.owed = IF rd[o].index = i THEN @ \ missed'[i] ELSE @]]
          /\ phase' = [at |-> "finishing", index |-> i, caller |-> r]
  /\ UNCHANGED <<db, marker, up, run, timer, due, published, faults>>

\* Its searcher is published, the marker removed and the builder answered: a
\* reader searches again.
PublishBuild ==
  /\ up /\ phase.at = "finishing"
  /\ published' = [published EXCEPT ![phase.index] = disk[phase.index]]
  /\ marker' = [marker EXCEPT ![phase.index] = FALSE]
  /\ rd' = [rd EXCEPT ![phase.caller] =
       IF phase.caller = Admin THEN Idle
       ELSE [@ EXCEPT !.pc = "check", !.pid = run, !.again = TRUE]]
  /\ phase' = Ready
  /\ missed' = [missed EXCEPT ![phase.index] = Lacking(disk[phase.index])]
  /\ UNCHANGED <<db, disk, memory, flag, faults>>

\* A failed page, commit or manifest, or the deadline of the build: the builder
\* aborts whatever build of the index there is.
BuildFails(r) ==
  /\ Free
  /\ rd[r].pc = "building"
  /\ Fault
  /\ build' = [build EXCEPT ![rd[r].index] = None]
  /\ Fails(r)
  /\ UNCHANGED <<db, files, up, run, live, work, pending, timer, due, phase, table>>

-------------------------------------------------------------------------------
(* Death and restart of the owner.  The table belongs to its supervisor.       *)

Forget ==
  /\ up' = FALSE
  /\ live' = {}
  /\ work' = [i \in Indexes |-> {}]
  /\ pending' = [i \in Indexes |-> NoUpdate]
  /\ timer' = FALSE /\ due' = 0
  /\ build' = [i \in Indexes |-> None]
  /\ phase' = Ready
  /\ UNCHANGED run

\* Callers whose call was under way exit with the owner.
CallsExit ==
  rd' = [r \in Builders |->
           IF rd[r].pc \in {"waiting", "finishing"} THEN Idle ELSE rd[r]]

\* The owner dies; inside a publish, any part of it may have happened.
Crash(S, T) ==
  /\ up
  /\ Fault
  /\ S \subseteq Staged /\ T \subseteq S
  /\ phase.at # "publishing" => S = {}
  /\ disk' = [i \in Indexes |-> IF i \in S THEN work[i] ELSE disk[i]]
  /\ published' = [i \in Indexes |-> IF i \in T THEN work[i] ELSE published[i]]
  /\ marker' = [i \in Indexes |-> marker[i] /\ i \notin T]
  /\ Forget
  /\ CallsExit
  /\ UNCHANGED <<db, flag, missed>>

\* The owner dies while it stages: n indexes have taken the update, and the
\* write is answered with an error.
CrashStaging(w, n) ==
  /\ Free /\ hand[w] # None
  /\ Fault
  /\ marker' = [i \in Indexes |-> marker[i] \/ i \in First(n)]
  /\ flag' = (flag \/ First(n) # {})
  /\ hand' = [hand EXCEPT ![w] = None]
  /\ Forget
  /\ CallsExit
  /\ UNCHANGED <<rows, acked, disk, published, missed>>

\* Variant: a generation with a marker is opened like any other.
RestartTrusting ==
  /\ ~up
  /\ up' = TRUE /\ run' = run + 1
  /\ live' = Indexes
  /\ work' = disk
  /\ published' = disk
  /\ flag' = FALSE
  /\ UNCHANGED <<db, files, pending, timer, due, build, phase, rd, missed, faults>>

\* init/1: the table is cleared, and generations without a marker are served.
Restart ==
  /\ ~up
  /\ up' = TRUE /\ run' = run + 1
  /\ live' = {i \in Indexes : ~marker[i]}
  /\ work' = disk
  /\ published' = [i \in Indexes |-> IF marker[i] THEN None ELSE disk[i]]
  /\ flag' = FALSE
  /\ UNCHANGED <<db, files, pending, timer, due, build, phase, rd, missed, faults>>

\* Stopped between two handlers: staged updates are published, the table cleared.
Stop ==
  /\ Free
  /\ Fault
  /\ disk' = [i \in Indexes |-> IF i \in Staged THEN work[i] ELSE disk[i]]
  /\ marker' = [i \in Indexes |-> marker[i] /\ i \notin Staged]
  /\ published' = [i \in Indexes |-> None]
  /\ flag' = FALSE
  /\ Forget
  /\ CallsExit
  /\ UNCHANGED <<db, missed>>

-------------------------------------------------------------------------------
Writes(w) ==
  \/ \E d \in Docs : Commit(w, d)
  \/ \E full \in BOOLEAN : Refresh(w, full)
  \/ \E n \in 0..Len(IndexOrder) :
       \/ n < Len(IndexOrder) /\ \E restored \in BOOLEAN : RefreshFails(w, n, restored)
       \/ CrashStaging(w, n)

Reads(r) ==
  \/ \E i \in Indexes : Search(r, i)
  \/ Check(r) \/ AskPublish(r) \/ Lookup(r) \/ AskSearch(r) \/ Answered(r)
  \/ BuildMissing(r)

Builds(r) ==
  \/ \E d \in Docs : Batch(r, d)
  \/ FinishBuild(r) \/ BuildFails(r)

Next ==
  \/ \E w \in Writers : Writes(w)
  \/ \E r \in Readers : Reads(r)
  \/ \E i \in Indexes : Rebuild(i)
  \/ \E r \in Builders : Builds(r)
  \/ TimerFires \/ PublishIndexes \/ ClearFlag \/ PublishBuild
  \/ \E i \in Indexes, seen \in BOOLEAN : PublishFails(i, seen)
  \/ \E S, T \in SUBSET Indexes : Crash(S, T)
  \/ Restart \/ Stop

Spec == Init /\ [][Next]_vars

\* The timer's message is taken from the mailbox in its turn, however many other
\* calls come (strong fairness), and the owner ends what it began; callers owe
\* nothing.
FairSpec ==
  /\ Spec
  /\ SF_vars(TimerFires)
  /\ WF_vars(PublishIndexes) /\ WF_vars(ClearFlag) /\ WF_vars(PublishBuild)

-------------------------------------------------------------------------------
Places == {"idle", "check", "flagged", "waiting", "lookup", "asking", "missed",
           "building", "finishing", "got"}

\* Types of the owner's state and its bookkeeping: between two handlers the flag
\* in the table says whether anything is staged, only built indexes have staged
\* updates, and each of those has its marker and a timer that runs.
TypeOK ==
  /\ rows \in [Docs -> Versions] /\ acked \in [Docs -> Versions]
  /\ \A d \in Docs : acked[d] <= rows[d]
  /\ \A i \in Indexes :
       /\ disk[i] \subseteq Copies /\ work[i] \subseteq Copies
       /\ published[i] = None \/ published[i] \subseteq Copies
       /\ build[i] = None \/ build[i] \subseteq Copies
       /\ DOMAIN pending[i] \subseteq Docs /\ missed[i] \subseteq Docs
  /\ \A r \in Builders : rd[r].pc \in Places
  /\ Free => /\ timer => due > 0
             /\ flag <=> Staged # {}
             /\ \A i \in Staged : i \in live /\ marker[i] /\ timer

\* owner.ex:111, search/7: "Staged updates are published first, so a search observes
\* every write that completed before it": of each document it finds one copy, not
\* older than the last write answered before it began.
SearchSeesCompleted ==
  \A r \in Readers : rd[r].pc = "got" =>
    \A d \in Docs : Holds(rd[r].got, d, rd[r].floor)

\* What a search observes although builds run beside writes: it finds a copy of each
\* document not older than the last write answered before it began, and for a plain id
\* no other copy, unless a build of the index has left the document out of date and it
\* has not been written since, or another id's update deletes its copies.  No publish,
\* discard, failed staging, death or restart loses an update, and none is lost for a
\* reader between its look at the flag and its look at the searcher.
SearchSeesStaged ==
  \A r \in Readers : rd[r].pc = "got" =>
    \A d \in rd[r].owed \ Disturbed : Holds(rd[r].got, d, rd[r].floor)

\* Every staged update is published, or its index stops serving, also when nobody
\* searches: one timer is set for the group, cancelled, fired and set again.
StagedIsPublished == \A i \in Indexes : pending[i] # NoUpdate ~> pending[i] = NoUpdate
===============================================================================
