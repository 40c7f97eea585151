-------------------------- MODULE SearchOwnerProofs ---------------------------
(* Theorems about the owner of the full-text indexes, for any number of        *)
(* documents, indexes, writers and readers, and any bounds on commits and      *)
(* faults.                                                                     *)
(* TypeInv is what the handlers keep of the owner's own bookkeeping, at every  *)
(* point of a publish or a build and not only between two handlers.  SeenInv   *)
(* says of one document how far behind its row each thing a search may read    *)
(* can be: a writer, a generation, a published searcher, and what a reader at  *)
(* each place has already decided to rely on.                                  *)
EXTENDS SearchOwner, FoldLemmas

-------------------------------------------------------------------------------
(* Values.                                                                     *)

Updates == UNION {[D -> Versions] : D \in SUBSET Docs}

Record == [pc : Places, index : Indexes \cup {None}, pid : Nat, again : BOOLEAN,
           got : SUBSET Copies, snap : [Docs -> Versions],
           floor : [Docs -> Versions], owed : SUBSET Docs, todo : SUBSET Docs]

\* The staged updates p and then u.
Added(p, u) ==
  [d \in DOMAIN p \cup {u[1]} |-> IF d = u[1] THEN u[2] ELSE p[d]]

(* Versions count from 0 and are numbers.                                     *)
LEMMA VersionFacts ==
  /\ 0 \in Versions
  /\ \A v \in Versions : v \in Nat
BY SearchOwnerAssumption DEF Versions

(* A copy that is indexed is a copy of that document.                         *)
LEMMA CopyType ==
  ASSUME NEW d \in Docs, NEW v \in Versions
  PROVE  Copy(d, v) \subseteq Copies
BY DEF Copy, Copies

(* Replacing a document in an index leaves copies.                            *)
LEMMA ReplaceType ==
  ASSUME NEW copies \in SUBSET Copies, NEW d \in Docs, NEW v \in Versions
  PROVE  Replace(copies, d, v) \subseteq Copies
BY CopyType DEF Replace

(* Nothing is staged in NoUpdate.                                             *)
LEMMA NoUpdateFacts ==
  /\ NoUpdate \in Updates
  /\ DOMAIN NoUpdate = {}
<1>1. NoUpdate \in [{} -> Versions]
  BY DEF NoUpdate
<1> QED
  BY <1>1 DEF Updates, NoUpdate

(* Staged updates are versions of documents.                                  *)
LEMMA UpdatesFacts ==
  ASSUME NEW p \in Updates
  PROVE  /\ DOMAIN p \subseteq Docs
         /\ \A d \in DOMAIN p : p[d] \in Versions
         /\ p # NoUpdate <=> DOMAIN p # {}
<1>1. PICK D \in SUBSET Docs : p \in [D -> Versions]
  BY DEF Updates
<1>2. D = {} => p = NoUpdate
  BY <1>1 DEF NoUpdate
<1> QED
  BY <1>1, <1>2, NoUpdateFacts

(* An update joins the staged ones, in place of an older one of its document. *)
LEMMA AddedFacts ==
  ASSUME NEW p \in Updates, NEW u \in Docs \X Versions
  PROVE  /\ Added(p, u) \in Updates
         /\ Added(p, u) # NoUpdate
         /\ DOMAIN Added(p, u) = DOMAIN p \cup {u[1]}
         /\ Added(p, u)[u[1]] = u[2]
         /\ \A d \in DOMAIN p : d # u[1] => Added(p, u)[d] = p[d]
<1> DEFINE D == DOMAIN p \cup {u[1]}
<1>1. D \in SUBSET Docs
  BY UpdatesFacts
<1>2. \A d \in D : (IF d = u[1] THEN u[2] ELSE p[d]) \in Versions
  BY UpdatesFacts
<1>3. Added(p, u) \in [D -> Versions]
  BY <1>2 DEF Added
<1>4. Added(p, u) \in Updates
  BY <1>1, <1>3 DEF Updates
<1>5. DOMAIN Added(p, u) = D
  BY DEF Added
<1>6. Added(p, u) # NoUpdate
  BY <1>5, NoUpdateFacts
<1>7. \A d \in D : Added(p, u)[d] = IF d = u[1] THEN u[2] ELSE p[d]
  BY DEF Added
<1> QED
  BY <1>4, <1>5, <1>6, <1>7

LEMMA IdleType == Idle \in Record
<1>1. [d \in Docs |-> 0] \in [Docs -> Versions]
  BY VersionFacts
<1> QED
  BY <1>1 DEF Idle, Record, Places

(* The order of the indexes lists every index once.                           *)
LEMMA IndexFacts ==
  /\ \A n \in 1..Len(IndexOrder) : IndexOrder[n] \in Indexes
  /\ \A i \in Indexes : \E n \in 1..Len(IndexOrder) : IndexOrder[n] = i
  /\ \A m, n \in 1..Len(IndexOrder) : IndexOrder[m] = IndexOrder[n] => m = n
<1>1. DOMAIN IndexOrder = 1..Len(IndexOrder)
  BY SearchOwnerAssumption
<1>2. IsInjective(IndexOrder)
  BY SearchOwnerAssumption
<1>3. \A m, n \in 1..Len(IndexOrder) : IndexOrder[m] = IndexOrder[n] => m = n
  BY <1>1, <1>2 DEF IsInjective
<1> QED
  BY <1>1, <1>3 DEF Indexes, Range

-------------------------------------------------------------------------------
(* The types.                                                                  *)

DataOK ==
  /\ rows \in [Docs -> Versions] /\ acked \in [Docs -> Versions]
  /\ \A d \in Docs : acked[d] <= rows[d]
  /\ hand \in [Writers -> (Docs \X Versions) \cup {None}]
  /\ disk \in [Indexes -> SUBSET Copies]
  /\ marker \in [Indexes -> BOOLEAN]
  /\ up \in BOOLEAN /\ run \in Nat
  /\ live \subseteq Indexes
  /\ work \in [Indexes -> SUBSET Copies]
  /\ pending \in [Indexes -> Updates]
  /\ timer \in BOOLEAN /\ due \in Nat
  /\ build \in [Indexes -> (SUBSET Copies) \cup {None}]
  /\ flag \in BOOLEAN
  /\ published \in [Indexes -> (SUBSET Copies) \cup {None}]
  /\ rd \in [Builders -> Record]
  /\ \A b \in Builders : rd[b].pc # "idle" => rd[b].index \in Indexes
  /\ missed \in [Indexes -> SUBSET Docs]
  /\ faults \in Nat
  /\ phase \in [at : {"ready", "publishing", "unflagging", "finishing"},
                index : Indexes \cup {None}, caller : Builders \cup {None}]

\* An update that is not handed over is the newest of its document, and nobody
\* else's.
HandOK ==
  \A w \in Writers : hand[w] # None =>
    /\ hand[w][2] = rows[hand[w][1]]
    /\ \A o \in Writers : hand[o] # None /\ hand[o][1] = hand[w][1] => o = w

\* The handler the owner is inside.
PhaseOK ==
  /\ phase.at = "ready" => phase = Ready
  /\ ~up => /\ phase = Ready
            /\ live = {}
            /\ ~timer
            /\ Staged = {}
  /\ phase.at \in {"publishing", "unflagging"} =>
       /\ Staged # {}
       /\ phase.caller # None =>
            phase.caller \in Readers /\ rd[phase.caller].pc = "waiting"
  /\ phase.at = "finishing" =>
       /\ phase.index \in live
       /\ pending[phase.index] = NoUpdate
       /\ phase.caller \in Builders
       /\ rd[phase.caller].pc = "finishing"
       /\ rd[phase.caller].index = phase.index

\* The group of staged updates.
StagingOK ==
  /\ up => (flag <=> Staged # {})
  /\ phase.at # "unflagging" =>
       /\ timer => due > 0
       /\ \A i \in Staged : i \in live /\ marker[i]
  /\ phase.at \in {"ready", "finishing"} => \A i \in Staged : timer

TypeInv == DataOK /\ HandOK /\ PhaseOK /\ StagingOK

-------------------------------------------------------------------------------
(* Steps that only change what one caller knows.                               *)

(* A caller that moves on keeps the rest of its record.                       *)
LEMMA GoesFacts ==
  ASSUME rd \in [Builders -> Record], NEW r \in Builders, NEW place \in Places,
         Goes(r, place)
  PROVE  /\ rd' = [rd EXCEPT ![r] = [rd[r] EXCEPT !.pc = place]]
         /\ [rd[r] EXCEPT !.pc = place] \in Record
BY DEF Goes, Record

(* A search that finds copies keeps the rest of its record.                   *)
LEMMA FindsFacts ==
  ASSUME rd \in [Builders -> Record], NEW r \in Builders,
         NEW copies \in SUBSET Copies, Finds(r, copies)
  PROVE  /\ rd' = [rd EXCEPT ![r] = [rd[r] EXCEPT !.pc = "got", !.got = copies]]
         /\ [rd[r] EXCEPT !.pc = "got", !.got = copies] \in Record
BY DEF Finds, Record, Places

(* A caller that gives up has the record it began with.                       *)
LEMMA FailsFacts ==
  ASSUME NEW r \in Builders, Fails(r)
  PROVE  /\ rd' = [rd EXCEPT ![r] = Idle]
         /\ Idle \in Record
         /\ Idle.pc = "idle"
BY IdleType DEF Fails, Idle

(* The record x of r, whose call is not under way.                             *)
LEMMA BuilderStepType ==
  ASSUME TypeInv, NEW r \in Builders, NEW x \in Record,
         rd' = [rd EXCEPT ![r] = x],
         x.pc # "idle" => x.index \in Indexes,
         rd[r].pc \notin {"waiting", "finishing"},
         build' \in [Indexes -> (SUBSET Copies) \cup {None}],
         faults' \in Nat,
         UNCHANGED <<db, files, up, run, live, work, pending, timer, due, phase, table>>
  PROVE  TypeInv'
<1> USE DEF TypeInv, db, files, table
<1>1. DataOK'
  BY DEF DataOK
<1>2. HandOK'
  BY DEF HandOK
<1>3. PhaseOK'
  <2>1. \A c \in Builders : c # r => rd'[c] = rd[c]
    BY DEF DataOK
  <2>2. phase.caller # None /\ phase.at \in {"publishing", "unflagging"} =>
          phase.caller \in Builders /\ phase.caller # r
    BY DEF PhaseOK, Builders
  <2>3. phase.at = "finishing" => phase.caller # r
    BY DEF PhaseOK
  <2> QED BY <2>1, <2>2, <2>3 DEF PhaseOK, Staged
<1>4. StagingOK'
  BY DEF StagingOK, Staged
<1> QED BY <1>1, <1>2, <1>3, <1>4

(* A caller moves on, and nothing else changes.                               *)
LEMMA CallerStepType ==
  ASSUME TypeInv, NEW r \in Builders, NEW x \in Record,
         rd' = [rd EXCEPT ![r] = x],
         x.pc # "idle" => x.index \in Indexes,
         rd[r].pc \notin {"waiting", "finishing"},
         UNCHANGED <<db, files, memory, phase, table, faults>>
  PROVE  TypeInv'
BY BuilderStepType DEF memory, TypeInv, DataOK

(* The caller r waits while the owner publishes.                               *)
LEMMA AskedToPublishType ==
  ASSUME TypeInv, NEW r \in Readers, phase = Ready, Staged # {}, up,
         Goes(r, "waiting"), rd[r].pc # "idle",
         phase' = [Ready EXCEPT !.at = "publishing", !.caller = r],
         UNCHANGED <<db, files, memory, table, faults>>
  PROVE  TypeInv'
<1> USE DEF TypeInv, db, files, memory, table
<1> DEFINE x == [rd[r] EXCEPT !.pc = "waiting"]
<1>1. r \in Builders /\ "waiting" \in Places
  BY DEF Builders, Places
<1>2. rd' = [rd EXCEPT ![r] = x] /\ x \in Record
  BY <1>1, GoesFacts DEF DataOK
<1>3. x.pc = "waiting" /\ x.index = rd[r].index
  BY <1>1 DEF DataOK, Record
<1> HIDE DEF x
<1>4. /\ phase'.at = "publishing" /\ phase'.index = None /\ phase'.caller = r
      /\ phase' \in [at : {"ready", "publishing", "unflagging", "finishing"},
                     index : Indexes \cup {None}, caller : Builders \cup {None}]
  BY <1>1 DEF Ready
<1>5. DataOK'
  BY <1>1, <1>2, <1>3, <1>4 DEF DataOK
<1>6. HandOK'
  BY DEF HandOK
<1>7. rd'[r].pc = "waiting"
  BY <1>1, <1>2, <1>3 DEF DataOK
<1>8. PhaseOK'
  BY <1>4, <1>7 DEF PhaseOK, Staged
<1>9. phase.at = "ready"
  BY DEF Ready
<1>10. StagingOK'
  BY <1>4, <1>9 DEF StagingOK, Staged
<1> QED BY <1>5, <1>6, <1>8, <1>10

LEMMA FailsType ==
  ASSUME TypeInv, NEW r \in Builders, Fails(r),
         rd[r].pc \notin {"waiting", "finishing"},
         UNCHANGED <<db, files, memory, phase, table, faults>>
  PROVE  TypeInv'
<1>1. rd' = [rd EXCEPT ![r] = Idle] /\ Idle \in Record /\ Idle.pc = "idle"
  BY FailsFacts
<1> QED BY <1>1, CallerStepType

LEMMA GoesType ==
  ASSUME TypeInv, NEW r \in Builders, NEW place \in Places, Goes(r, place),
         rd[r].pc \notin {"waiting", "finishing", "idle"},
         UNCHANGED <<db, files, memory, phase, table, faults>>
  PROVE  TypeInv'
<1> DEFINE x == [rd[r] EXCEPT !.pc = place]
<1>1. rd' = [rd EXCEPT ![r] = x] /\ x \in Record
  BY GoesFacts DEF TypeInv, DataOK
<1>2. x.index = rd[r].index /\ rd[r].index \in Indexes
  BY DEF TypeInv, DataOK, Record
<1> HIDE DEF x
<1> QED BY <1>1, <1>2, CallerStepType

LEMMA SearchType ==
  ASSUME TypeInv, NEW r \in Readers, NEW i \in Indexes, Search(r, i)
  PROVE  TypeInv'
<1> DEFINE x == [Idle EXCEPT !.pc = "check", !.index = i, !.pid = run,
                             !.snap = rows, !.floor = acked,
                             !.owed = Docs \ missed[i]]
<1>1. x \in Record /\ x.index = i
  BY IdleType DEF Record, Places, TypeInv, DataOK, Idle
<1>2. rd' = [rd EXCEPT ![r] = x] /\ rd[r].pc = "idle"
  BY DEF Search
<1> HIDE DEF x
<1> QED BY <1>1, <1>2, CallerStepType DEF Search, Builders

LEMMA CheckType ==
  ASSUME TypeInv, NEW r \in Readers, Check(r)
  PROVE  TypeInv'
<1>1. PICK place \in {"flagged", "lookup"} : Goes(r, place)
  BY DEF Check
<1>2. r \in Builders /\ place \in Places /\ rd[r].pc = "check"
  BY DEF Builders, Places, Check
<1> QED BY <1>1, <1>2, GoesType DEF Check

LEMMA LookupType ==
  ASSUME TypeInv, NEW r \in Readers, Lookup(r)
  PROVE  TypeInv'
<1> DEFINE seen == published[rd[r].index]
<1>1. r \in Builders /\ "asking" \in Places /\ rd[r].pc = "lookup"
  BY DEF Builders, Places, Lookup
<1>2. rd[r].index \in Indexes
  BY <1>1 DEF TypeInv, DataOK
<1>3. CASE seen # None
  <2> DEFINE x == [rd[r] EXCEPT !.pc = "got", !.got = seen]
  <2>1. seen \in SUBSET Copies /\ Finds(r, seen)
    BY <1>2, <1>3 DEF TypeInv, DataOK, Lookup
  <2>2. rd' = [rd EXCEPT ![r] = x] /\ x \in Record
    BY <1>1, <2>1, FindsFacts DEF TypeInv, DataOK
  <2>3. x.index = rd[r].index
    BY <1>1 DEF TypeInv, DataOK, Record
  <2> HIDE DEF x
  <2> QED BY <1>1, <1>2, <2>2, <2>3, CallerStepType DEF Lookup
<1>4. CASE seen = None
  BY <1>1, <1>4, GoesType DEF Lookup
<1> QED BY <1>3, <1>4

LEMMA AskPublishType ==
  ASSUME TypeInv, NEW r \in Readers, AskPublish(r)
  PROVE  TypeInv'
<1>1. /\ r \in Builders /\ rd[r].pc = "flagged" /\ "lookup" \in Places
      /\ UNCHANGED <<db, files, memory, table, faults>>
  BY DEF Builders, AskPublish, Places
<1>2. CASE ~ Reaches(r)
  BY <1>1, <1>2, FailsType DEF AskPublish
<1>3. CASE Reaches(r) /\ Staged = {}
  BY <1>1, <1>3, GoesType DEF AskPublish
<1>4. CASE Reaches(r) /\ Staged # {}
  BY <1>1, <1>4, AskedToPublishType DEF AskPublish, Reaches
<1> QED BY <1>2, <1>3, <1>4

LEMMA AskSearchType ==
  ASSUME TypeInv, NEW r \in Readers, AskSearch(r)
  PROVE  TypeInv'
<1> DEFINE i == rd[r].index
<1>1. /\ r \in Builders /\ rd[r].pc = "asking" /\ "missed" \in Places
      /\ UNCHANGED <<db, files, memory, table, faults>>
  BY DEF Builders, AskSearch, Places
<1>2. i \in Indexes
  BY <1>1 DEF TypeInv, DataOK
<1>3. CASE ~ Reaches(r)
  BY <1>1, <1>3, FailsType DEF AskSearch
<1>4. CASE Reaches(r) /\ Staged # {}
  BY <1>1, <1>4, AskedToPublishType DEF AskSearch, Reaches
<1>5. CASE Reaches(r) /\ Staged = {} /\ i \in live
  <2> DEFINE x == [rd[r] EXCEPT !.pc = "got", !.got = disk[i]]
  <2>1. disk[i] \in SUBSET Copies /\ Finds(r, disk[i]) /\ phase' = phase
    BY <1>2, <1>5 DEF TypeInv, DataOK, AskSearch
  <2>2. rd' = [rd EXCEPT ![r] = x] /\ x \in Record
    BY <1>1, <2>1, FindsFacts DEF TypeInv, DataOK
  <2>3. x.index = rd[r].index
    BY <1>1 DEF TypeInv, DataOK, Record
  <2> HIDE DEF x
  <2> QED BY <1>1, <1>2, <2>1, <2>2, <2>3, CallerStepType
<1>6. CASE Reaches(r) /\ Staged = {} /\ i \notin live /\ rd[r].again
  BY <1>1, <1>6, FailsType DEF AskSearch
<1>7. CASE Reaches(r) /\ Staged = {} /\ i \notin live /\ ~ rd[r].again
  BY <1>1, <1>7, GoesType DEF AskSearch
<1> QED BY <1>3, <1>4, <1>5, <1>6, <1>7

LEMMA AnsweredType ==
  ASSUME TypeInv, NEW r \in Readers, Answered(r)
  PROVE  TypeInv'
BY FailsType DEF Answered, Builders

-------------------------------------------------------------------------------
(* Writers.                                                                    *)

(* What has been committed of one document is at most what has been committed  *)
(* of all.                                                                     *)
LEMMA RowsBelowBound ==
  ASSUME DataOK, Total(rows, Docs) < MaxCommits, NEW d \in Docs
  PROVE  rows[d] + 1 \in Versions
<1>1. \A e \in Docs : rows[e] \in Nat
  BY VersionFacts DEF DataOK
<1>2. rows[d] <= Total(rows, Docs) /\ Total(rows, Docs) \in Nat
  BY <1>1, TermBelowTotal, TotalType, SearchOwnerAssumption
<1> QED BY <1>1, <1>2, SearchOwnerAssumption DEF Versions

(* The commits made are the sum of the versions.                              *)
LEMMA CommitsAreCounted ==
  ASSUME DataOK
  PROVE  FoldFunction(+, 0, rows) = Total(rows, Docs)
<1>1. DOMAIN rows = Docs
  BY DEF DataOK
<1> QED BY <1>1 DEF FoldFunction, FoldFunctionOnSet, Total, MapThenSumSet

LEMMA CommitType ==
  ASSUME TypeInv, NEW w \in Writers, NEW d \in Docs, Commit(w, d)
  PROVE  TypeInv'
<1> USE DEF TypeInv, files, memory, table
<1> DEFINE v == rows[d] + 1
<1>1. v \in Versions
  <2>1. Total(rows, Docs) < MaxCommits
    BY CommitsAreCounted, Zenon DEF Commit
  <2> QED BY <2>1, RowsBelowBound
<1>2. /\ rows' = [rows EXCEPT ![d] = v] /\ hand' = [hand EXCEPT ![w] = <<d, v>>]
      /\ UNCHANGED <<acked, files, memory, phase, table, rd, faults>>
      /\ \A o \in Writers : hand[o] # None => hand[o][1] # d
  BY DEF Commit
<1>3. rows[d] \in Nat /\ v = rows[d] + 1
  BY VersionFacts DEF DataOK
<1> HIDE DEF v
<1>4. \A e \in Docs : rows'[e] = IF e = d THEN v ELSE rows[e]
  BY <1>2 DEF DataOK
<1>5. \A o \in Writers : hand'[o] = IF o = w THEN <<d, v>> ELSE hand[o]
  BY <1>2 DEF DataOK
<1>6. DataOK'
  <2>1. \A e \in Docs : acked'[e] <= rows'[e]
    BY <1>2, <1>3, <1>4, VersionFacts DEF DataOK
  <2>2. rows' \in [Docs -> Versions]
    BY <1>1, <1>2 DEF DataOK
  <2>3. hand' \in [Writers -> (Docs \X Versions) \cup {None}]
    BY <1>1, <1>2 DEF DataOK
  <2> QED BY <1>2, <2>1, <2>2, <2>3 DEF DataOK
<1>7. HandOK'
  <2>1. \A o \in Writers : hand[o] # None => hand[o][1] \in Docs /\ hand[o][1] # d
    BY <1>2 DEF DataOK
  <2> QED BY <1>4, <1>5, <2>1 DEF HandOK
<1>8. PhaseOK' /\ StagingOK'
  BY <1>2 DEF PhaseOK, StagingOK, Staged
<1> QED BY <1>6, <1>7, <1>8

(* The update of w is handed over, or was in vain.                             *)
LEMMA HandedOver ==
  ASSUME DataOK, HandOK, NEW w \in Writers, hand' = [hand EXCEPT ![w] = None],
         rows' = rows
  PROVE  HandOK' /\ hand' \in [Writers -> (Docs \X Versions) \cup {None}]
<1>1. \A o \in Writers : hand'[o] = IF o = w THEN None ELSE hand[o]
  BY DEF DataOK
<1> QED BY <1>1 DEF HandOK, DataOK

(* An index given a document misses no more than before.                      *)
LEMMA RemediedType ==
  ASSUME DataOK, NEW S, NEW d
  PROVE  /\ Remedied(S, d) \in [Indexes -> SUBSET Docs]
         /\ \A i \in Indexes : Remedied(S, d)[i] = IF i \in S THEN missed[i] \ {d}
                                                ELSE missed[i]
BY DEF Remedied, DataOK

LEMMA RefreshType ==
  ASSUME TypeInv, NEW w \in Writers, NEW full \in BOOLEAN, Refresh(w, full)
  PROVE  TypeInv'
<1> DEFINE u == hand[w]
<1>1. /\ up /\ phase = Ready /\ u \in Docs \X Versions
      /\ UNCHANGED <<rows, disk, up, run, live, build, published, rd, faults>>
      /\ acked' = [acked EXCEPT ![u[1]] = u[2]]
      /\ u[2] = rows[u[1]]
      /\ hand' = [hand EXCEPT ![w] = None]
  BY DEF Refresh, TypeInv, DataOK, HandOK, Free
<1>2. /\ work' = [i \in Indexes |-> IF i \in live THEN Replace(work[i], u[1], u[2])
                                    ELSE work[i]]
      /\ pending' = [i \in Indexes |-> IF i \in live THEN Added(pending[i], u)
                                       ELSE pending[i]]
      /\ marker' = [i \in Indexes |->
                     marker[i] \/ (i \in live /\ pending[i] = NoUpdate)]
      /\ flag' = (flag \/ live # {})
      /\ timer' = (timer \/ live # {})
      /\ due' = IF live # {} /\ ~timer THEN due + 1 ELSE due
  BY DEF Refresh, Stage, Schedule, Added
<1>3. phase' = IF full /\ live # {} THEN [Ready EXCEPT !.at = "publishing"] ELSE Ready
  BY <1>1 DEF Refresh
<1> HIDE DEF u
<1> USE DEF TypeInv
<1>4. live \subseteq Indexes
  BY DEF DataOK
<1>5. HandOK' /\ hand' \in [Writers -> (Docs \X Versions) \cup {None}]
  BY <1>1, HandedOver
<1>6. work' \in [Indexes -> SUBSET Copies]
  <2>1. \A i \in Indexes : Replace(work[i], u[1], u[2]) \in SUBSET Copies
    BY <1>1, ReplaceType DEF DataOK
  <2> QED BY <1>2, <2>1 DEF DataOK
<1>7. \A i \in Indexes : Added(pending[i], u) \in Updates /\ Added(pending[i], u) # NoUpdate
  BY <1>1, AddedFacts DEF DataOK
<1>8. pending' \in [Indexes -> Updates]
  BY <1>2, <1>7 DEF DataOK
<1>9. /\ phase' \in [at : {"ready", "publishing", "unflagging", "finishing"},
                     index : Indexes \cup {None}, caller : Builders \cup {None}]
      /\ \/ phase' = Ready
         \/ /\ phase'.at = "publishing" /\ phase'.caller = None /\ live # {}
  BY <1>3 DEF Ready
<1>10. DataOK'
  <2>1. \A d \in Docs : acked'[d] \in Versions /\ acked'[d] <= rows'[d]
    BY <1>1, VersionFacts DEF DataOK
  <2>2. acked' \in [Docs -> Versions]
    BY <1>1, <2>1 DEF DataOK
  <2>3. marker' \in [Indexes -> BOOLEAN]
    BY <1>2
  <2>4. due' \in Nat /\ timer' \in BOOLEAN /\ flag' \in BOOLEAN
    BY <1>2 DEF DataOK
  <2>5. missed' \in [Indexes -> SUBSET Docs]
    BY RemediedType DEF Refresh
  <2> QED BY <1>1, <1>5, <1>6, <1>8, <1>9, <2>1, <2>2, <2>3, <2>4, <2>5 DEF DataOK
<1>11. Staged' = live
  <2>1. \A i \in Indexes \ live : pending[i] = NoUpdate
    BY <1>1 DEF StagingOK, Staged, Ready
  <2> QED BY <1>2, <1>4, <1>7, <2>1 DEF Staged
<1>12. PhaseOK'
  BY <1>1, <1>9, <1>11 DEF PhaseOK, Ready
<1>13. StagingOK'
  <2>1. \A i \in live : marker'[i]
    BY <1>1, <1>2, <1>4 DEF StagingOK, Staged, Ready
  <2>2. timer' => due' > 0
    BY <1>1, <1>2 DEF StagingOK, DataOK, Ready
  <2>3. flag' <=> live # {}
    BY <1>1, <1>2, <1>4 DEF StagingOK, Staged, Ready
  <2>4. live # {} => timer'
    BY <1>2
  <2> QED BY <1>1, <1>11, <2>1, <2>2, <2>3, <2>4 DEF StagingOK
<1> QED BY <1>5, <1>10, <1>12, <1>13

(* The first n built indexes are built, and not the one after them.           *)
LEMMA FirstFacts ==
  ASSUME DataOK, NEW n \in 0..Len(IndexOrder)
  PROVE  /\ First(n) \subseteq live /\ First(n) \subseteq Indexes
         /\ n < Len(IndexOrder) => IndexOrder[n + 1] \in Indexes \ First(n)
<1>1. Len(IndexOrder) \in Nat
  BY SearchOwnerAssumption
<1>2. ASSUME n < Len(IndexOrder), IndexOrder[n + 1] \in First(n) PROVE FALSE
  <2>1. PICK k \in 1..n : IndexOrder[k] = IndexOrder[n + 1]
    BY <1>2 DEF First
  <2>2. k \in 1..Len(IndexOrder) /\ n + 1 \in 1..Len(IndexOrder)
    BY <1>1, <1>2
  <2> QED BY <2>1, <2>2, IndexFacts
<1>3. n < Len(IndexOrder) => n + 1 \in 1..Len(IndexOrder)
  BY <1>1
<1> QED BY <1>2, <1>3, IndexFacts DEF First, DataOK

LEMMA RefreshFailsType ==
  ASSUME TypeInv, NEW w \in Writers, NEW n \in 0..Len(IndexOrder),
         n < Len(IndexOrder), NEW restored \in BOOLEAN, RefreshFails(w, n, restored)
  PROVE  TypeInv'
<1> DEFINE i == IndexOrder[n + 1]
           S == First(n)
           u == hand[w]
           p == IF restored THEN pending[i] ELSE NoUpdate
<1> USE DEF TypeInv
<1>1. /\ up /\ phase = Ready /\ u \in Docs \X Versions
      /\ UNCHANGED <<rows, acked, disk, up, run, build, phase, rd>>
      /\ hand' = [hand EXCEPT ![w] = None]
      /\ i \in live /\ faults' = faults + 1
      /\ pending[i] = NoUpdate => restored
  BY DEF RefreshFails, DataOK, Free, Fault
<1>2. /\ work' = [j \in Indexes |-> IF j \in S THEN Replace(work[j], u[1], u[2])
                                    ELSE work[j]]
      /\ pending' = [j \in Indexes |->
                       IF j \in S THEN Added(pending[j], u)
                       ELSE IF j = i /\ ~restored THEN NoUpdate ELSE pending[j]]
      /\ marker' = [j \in Indexes |-> marker[j] \/ j \in S]
      /\ flag' = (\E j \in Indexes : pending'[j] # NoUpdate)
      /\ timer' = (timer \/ S # {})
      /\ due' = IF S # {} /\ ~timer THEN due + 1 ELSE due
  BY DEF RefreshFails, Schedule, Added
<1>3. \/ restored /\ live' = live /\ published' = published
      \/ /\ ~restored /\ live' = live \ {i}
         /\ published' = [published EXCEPT ![i] = None]
  BY DEF RefreshFails, Invalidate
<1>4. S \subseteq live /\ S \subseteq Indexes /\ i \in Indexes \ S
  BY FirstFacts
<1>5. missed' \in [Indexes -> SUBSET Docs]
  BY RemediedType DEF RefreshFails
<1> HIDE DEF i, S, u
<1>6. HandOK' /\ hand' \in [Writers -> (Docs \X Versions) \cup {None}]
  BY <1>1, HandedOver
<1>7. work' \in [Indexes -> SUBSET Copies]
  <2>1. \A j \in Indexes : Replace(work[j], u[1], u[2]) \in SUBSET Copies
    BY <1>1, ReplaceType DEF DataOK
  <2> QED BY <1>2, <2>1 DEF DataOK
<1>8. \A j \in Indexes : Added(pending[j], u) \in Updates /\ Added(pending[j], u) # NoUpdate
  BY <1>1, AddedFacts DEF DataOK
<1>9. pending' \in [Indexes -> Updates]
  BY <1>2, <1>8, NoUpdateFacts DEF DataOK
<1>10. Staged' = IF restored THEN Staged \cup S ELSE (Staged \cup S) \ {i}
  BY <1>2, <1>4, <1>8 DEF Staged
<1>11. DataOK'
  <2>1. marker' \in [Indexes -> BOOLEAN]
    BY <1>2
  <2>2. due' \in Nat /\ timer' \in BOOLEAN /\ flag' \in BOOLEAN
    BY <1>2 DEF DataOK
  <2>3. /\ live' \subseteq Indexes
        /\ published' \in [Indexes -> (SUBSET Copies) \cup {None}]
    BY <1>3 DEF DataOK
  <2> QED BY <1>1, <1>5, <1>6, <1>7, <1>9, <2>1, <2>2, <2>3 DEF DataOK
<1>12. PhaseOK'
  BY <1>1 DEF PhaseOK, Ready
<1>13. StagingOK'
  <2>1. phase.at = "ready"
    BY <1>1 DEF Ready
  <2>2. \A j \in Staged' : j \in live' /\ marker'[j] /\ timer'
    BY <2>1, <1>2, <1>3, <1>4, <1>10 DEF StagingOK, Staged
  <2>3. timer' => due' > 0
    BY <2>1, <1>2 DEF StagingOK, DataOK
  <2>4. flag' <=> Staged' # {}
    BY <1>2 DEF Staged
  <2> QED BY <2>1, <2>2, <2>3, <2>4, <1>1 DEF StagingOK
<1> QED BY <1>6, <1>11, <1>12, <1>13

-------------------------------------------------------------------------------
(* Publishing.                                                                 *)

LEMMA TimerFiresType == TypeInv /\ TimerFires => TypeInv'
<1> SUFFICES ASSUME TypeInv, TimerFires PROVE TypeInv'
  OBVIOUS
<1> USE DEF TypeInv, db, files, table
<1>1. /\ up /\ phase = Ready /\ due > 0 /\ due' = due - 1 /\ timer' = FALSE
      /\ phase' = IF Staged = {} THEN Ready ELSE [Ready EXCEPT !.at = "publishing"]
      /\ UNCHANGED <<db, files, up, run, live, work, pending, build, table, rd, faults>>
  BY DEF TimerFires, Free
<1>2. phase.at = "ready" /\ Ready.at = "ready"
  BY <1>1 DEF Ready
<1>3. \/ phase' = Ready /\ Staged = {}
      \/ /\ phase'.at = "publishing" /\ phase'.caller = None
         /\ Staged # {}
  BY <1>1 DEF Ready
<1>4. DataOK'
  <2>1. phase' \in [at : {"ready", "publishing", "unflagging", "finishing"},
                    index : Indexes \cup {None}, caller : Builders \cup {None}]
    BY <1>1 DEF Ready
  <2>2. due \in Nat
    BY DEF DataOK
  <2>3. due' \in Nat /\ timer' \in BOOLEAN
    <3>1. due > 0 /\ due' = due - 1
      BY DEF TimerFires
    <3>2. timer' = FALSE
      BY DEF TimerFires
    <3>3. due' \in Nat
      BY <2>2, <3>1
    <3> QED BY <3>2, <3>3
  <2> QED BY <1>1, <2>1, <2>3 DEF DataOK
<1>5. HandOK'
  BY <1>1 DEF HandOK
<1>6. PhaseOK'
  BY <1>1, <1>2, <1>3 DEF PhaseOK, Staged
<1>7. StagingOK'
  BY <1>1, <1>2, <1>3 DEF StagingOK, Staged
<1> QED BY <1>4, <1>5, <1>6, <1>7

(* What publishing the indexes S does to the types.                            *)
LEMMA CancelTimerFacts ==
  ASSUME DataOK, StagingOK, CancelTimer, phase.at = "publishing"
  PROVE  due' \in Nat
BY DEF DataOK, StagingOK, CancelTimer

LEMMA PublishIndexesType == TypeInv /\ PublishIndexes => TypeInv'
<1> SUFFICES ASSUME TypeInv, PublishIndexes PROVE TypeInv'
  OBVIOUS
<1> USE DEF TypeInv, db
<1>1. /\ up /\ phase.at = "publishing"
      /\ phase' = [phase EXCEPT !.at = "unflagging"]
      /\ UNCHANGED <<db, up, run, live, work, pending, timer, build, flag, rd, missed, faults>>
  BY DEF PublishIndexes
<1>2. /\ phase'.at = "unflagging" /\ phase'.caller = phase.caller
      /\ phase' \in [at : {"ready", "publishing", "unflagging", "finishing"},
                     index : Indexes \cup {None}, caller : Builders \cup {None}]
  BY <1>1 DEF DataOK
<1>3. DataOK'
  <2>1. due' \in Nat
    BY <1>1, CancelTimerFacts DEF PublishIndexes
  <2>2. /\ disk' \in [Indexes -> SUBSET Copies]
        /\ published' \in [Indexes -> (SUBSET Copies) \cup {None}]
        /\ marker' \in [Indexes -> BOOLEAN]
    BY DEF PublishIndexes, DataOK
  <2> QED BY <1>1, <1>2, <2>1, <2>2 DEF DataOK
<1>4. HandOK'
  BY <1>1 DEF HandOK
<1>5. PhaseOK'
  BY <1>1, <1>2 DEF PhaseOK, Staged
<1>6. StagingOK'
  BY <1>1, <1>2 DEF StagingOK, Staged
<1> QED BY <1>3, <1>4, <1>5, <1>6

LEMMA PublishFailsType ==
  ASSUME TypeInv, NEW bad \in Indexes, NEW seen \in BOOLEAN, PublishFails(bad, seen)
  PROVE  TypeInv'
<1> USE DEF TypeInv, db
<1>1. /\ up /\ phase.at = "publishing"
      /\ phase' = [phase EXCEPT !.at = "unflagging"]
      /\ UNCHANGED <<db, up, run, pending, timer, build, flag, rd, missed>>
      /\ live' = live \ {bad} /\ faults' = faults + 1
  BY DEF PublishFails, Fault
<1>2. /\ phase'.at = "unflagging" /\ phase'.caller = phase.caller
      /\ phase' \in [at : {"ready", "publishing", "unflagging", "finishing"},
                     index : Indexes \cup {None}, caller : Builders \cup {None}]
  BY <1>1 DEF DataOK
<1>3. DataOK'
  <2>1. due' \in Nat
    BY <1>1, CancelTimerFacts DEF PublishFails
  <2>2. /\ disk' \in [Indexes -> SUBSET Copies]
        /\ published' \in [Indexes -> (SUBSET Copies) \cup {None}]
        /\ marker' \in [Indexes -> BOOLEAN]
    BY DEF PublishFails, DataOK
  <2>3. work' \in [Indexes -> SUBSET Copies]
    <3>1. work' = [work EXCEPT ![bad] = disk'[bad]]
      BY DEF PublishFails
    <3> QED BY <2>2, <3>1 DEF DataOK
  <2> QED BY <1>1, <1>2, <2>1, <2>2, <2>3 DEF DataOK
<1>4. HandOK'
  BY <1>1 DEF HandOK
<1>5. PhaseOK'
  BY <1>1, <1>2 DEF PhaseOK, Staged
<1>6. StagingOK'
  BY <1>1, <1>2 DEF StagingOK, Staged
<1> QED BY <1>3, <1>4, <1>5, <1>6

LEMMA ClearFlagType == TypeInv /\ ClearFlag => TypeInv'
<1> SUFFICES ASSUME TypeInv, ClearFlag PROVE TypeInv'
  OBVIOUS
<1> USE DEF TypeInv, db, files
<1>1. /\ up /\ phase.at = "unflagging" /\ flag' = FALSE /\ timer' = FALSE
      /\ pending' = [i \in Indexes |-> NoUpdate]
      /\ phase' = Ready
      /\ UNCHANGED <<db, files, up, run, live, work, due, build, published, missed, faults>>
  BY DEF ClearFlag
<1>2. /\ rd' \in [Builders -> Record]
      /\ \A b \in Builders : rd'[b].pc # "idle" => rd'[b].index \in Indexes
  <2>1. CASE phase.caller = None
    BY <2>1 DEF ClearFlag, DataOK
  <2>2. CASE phase.caller # None
    <3> DEFINE r == phase.caller
               x == [rd[r] EXCEPT !.pc = "lookup"]
    <3>1. r \in Builders /\ rd[r].pc = "waiting" /\ "lookup" \in Places
      BY <1>1, <2>2 DEF PhaseOK, Builders, Places
    <3>2. rd' = [rd EXCEPT ![r] = x] /\ x \in Record
      BY <2>2, <3>1, GoesFacts DEF ClearFlag, DataOK, Goes
    <3>3. x.index = rd[r].index /\ rd[r].index \in Indexes
      BY <3>1 DEF DataOK, Record
    <3> HIDE DEF x, r
    <3> QED BY <3>1, <3>2, <3>3 DEF DataOK
  <2> QED BY <2>1, <2>2
<1>3. DataOK'
  <2>1. pending' \in [Indexes -> Updates]
    BY <1>1, NoUpdateFacts
  <2>2. phase' \in [at : {"ready", "publishing", "unflagging", "finishing"},
                    index : Indexes \cup {None}, caller : Builders \cup {None}]
    BY <1>1 DEF Ready
  <2> QED BY <1>1, <1>2, <2>1, <2>2 DEF DataOK
<1>4. HandOK'
  BY <1>1 DEF HandOK
<1>5. Staged' = {}
  BY <1>1 DEF Staged
<1>6. PhaseOK'
  BY <1>1, <1>5 DEF PhaseOK, Ready
<1>7. StagingOK'
  BY <1>1, <1>5 DEF StagingOK
<1> QED BY <1>3, <1>4, <1>6, <1>7

-------------------------------------------------------------------------------
(* Builds.                                                                     *)

(* Documents of a snapshot are documents.                                     *)
LEMMA AliveType == ASSUME NEW f PROVE Alive(f) \subseteq Docs
BY DEF Alive

LEMMA BuildMissingType ==
  ASSUME TypeInv, NEW r \in Readers, BuildMissing(r)
  PROVE  TypeInv'
<1> DEFINE i == rd[r].index
           todo == Alive(rd[r].snap)
           x == [rd[r] EXCEPT !.pc = "building", !.index = i, !.todo = todo]
<1>1. r \in Builders /\ rd[r].pc = "missed" /\ i \in Indexes /\ rd[r] \in Record
  BY DEF Builders, BuildMissing, TypeInv, DataOK
<1>2. todo \in SUBSET Docs /\ "building" \in Places
  BY AliveType DEF Places
<1>3. /\ rd' = [rd EXCEPT ![r].pc = "building", ![r].index = i, ![r].todo = todo]
      /\ build' = [build EXCEPT ![i] = {}]
      /\ UNCHANGED <<db, files, up, run, live, work, pending, timer, due, phase,
                     table, faults>>
  BY DEF BuildMissing, BeginBuild
<1> HIDE DEF todo
<1>4. rd' = [rd EXCEPT ![r] = x] /\ x \in Record /\ x.index = i
  BY <1>1, <1>2, <1>3 DEF TypeInv, DataOK, Record
<1>5. build' \in [Indexes -> (SUBSET Copies) \cup {None}] /\ faults' \in Nat
  BY <1>3 DEF TypeInv, DataOK
<1> HIDE DEF x
<1> QED BY <1>1, <1>3, <1>4, <1>5, BuilderStepType

LEMMA RebuildType ==
  ASSUME TypeInv, NEW i \in Indexes, Rebuild(i)
  PROVE  TypeInv'
<1> DEFINE x == [Idle EXCEPT !.pc = "building", !.index = i, !.snap = rows,
                             !.todo = Alive(rows)]
<1>1. Admin \in Builders /\ rd[Admin].pc = "idle"
  BY DEF Builders, Rebuild
<1>2. /\ rd' = [rd EXCEPT ![Admin] = x]
      /\ build' = [build EXCEPT ![i] = {}]
      /\ UNCHANGED <<db, files, up, run, live, work, pending, timer, due, phase,
                     table, faults>>
  BY DEF Rebuild
<1>3. x \in Record /\ x.index = i
  BY IdleType, AliveType DEF Record, Places, TypeInv, DataOK, Idle
<1>4. build' \in [Indexes -> (SUBSET Copies) \cup {None}] /\ faults' \in Nat
  BY <1>2 DEF TypeInv, DataOK
<1> HIDE DEF x
<1> QED BY <1>1, <1>2, <1>3, <1>4, BuilderStepType

LEMMA BatchType ==
  ASSUME TypeInv, NEW r \in Builders, NEW d \in Docs, Batch(r, d)
  PROVE  TypeInv'
<1> DEFINE i == rd[r].index
<1>1. /\ rd[r].pc = "building" /\ i \in Indexes /\ rd[r] \in Record
      /\ UNCHANGED <<db, files, up, run, live, work, pending, timer, due, phase,
                     table, faults>>
  BY DEF Batch, TypeInv, DataOK
<1>2. faults' \in Nat
  BY <1>1 DEF TypeInv, DataOK
<1>3. CASE build[i] = None
  <2>1. Fails(r) /\ build' = build
    BY <1>3 DEF Batch
  <2> QED BY <1>1, <1>2, <2>1, FailsFacts, BuilderStepType DEF TypeInv, DataOK
<1>4. CASE build[i] # None
  <2> DEFINE x == [rd[r] EXCEPT !.todo = @ \ {d}]
             page == Copy(d, rd[r].snap[d])
  <2>1. rd' = [rd EXCEPT ![r].todo = @ \ {d}] /\ build' = [build EXCEPT ![i] = @ \cup page]
    BY <1>4 DEF Batch
  <2>2. page \subseteq Copies
    <3>1. rd[r].snap[d] \in Versions
      BY <1>1 DEF Record
    <3> QED BY <3>1, CopyType
  <2> HIDE DEF page
  <2>3. build' \in [Indexes -> (SUBSET Copies) \cup {None}]
    BY <1>1, <1>4, <2>1, <2>2 DEF TypeInv, DataOK
  <2>4. rd' = [rd EXCEPT ![r] = x] /\ x \in Record /\ x.index = i
    BY <1>1, <2>1 DEF TypeInv, DataOK, Record
  <2> HIDE DEF x
  <2> QED BY <1>1, <1>2, <2>3, <2>4, BuilderStepType
<1> QED BY <1>3, <1>4

LEMMA BuildFailsType ==
  ASSUME TypeInv, NEW r \in Builders, BuildFails(r)
  PROVE  TypeInv'
<1>1. /\ rd[r].pc = "building" /\ Fails(r) /\ faults' = faults + 1
      /\ build' = [build EXCEPT ![rd[r].index] = None]
      /\ UNCHANGED <<db, files, up, run, live, work, pending, timer, due, phase, table>>
  BY DEF BuildFails, Fault
<1>2. build' \in [Indexes -> (SUBSET Copies) \cup {None}] /\ faults' \in Nat
  BY <1>1 DEF TypeInv, DataOK
<1> QED BY <1>1, <1>2, FailsFacts, BuilderStepType

LEMMA FinishBuildType ==
  ASSUME TypeInv, NEW r \in Builders, FinishBuild(r)
  PROVE  TypeInv'
<1> DEFINE i == rd[r].index
<1>1. /\ up /\ phase = Ready /\ rd[r].pc = "building"
      /\ i \in Indexes /\ rd[r] \in Record
      /\ UNCHANGED <<db, marker, up, run, timer, due, published, faults>>
  BY DEF FinishBuild, Free, TypeInv, DataOK
<1>2. CASE build[i] = None
  <2>1. Fails(r) /\ UNCHANGED <<disk, live, work, pending, build, flag, phase, missed>>
    BY <1>2 DEF FinishBuild
  <2>2. build' \in [Indexes -> (SUBSET Copies) \cup {None}] /\ faults' \in Nat
    BY <1>1, <2>1 DEF TypeInv, DataOK
  <2> QED BY <1>1, <2>1, <2>2, FailsFacts, BuilderStepType DEF files, table
<1>3. CASE build[i] # None
  <2> USE DEF TypeInv, db
  <2> DEFINE old == missed[i] \cup Lacking(build[i]) \cup DOMAIN pending[i]
  <2>1. /\ disk' = [disk EXCEPT ![i] = build[i]]
        /\ work' = [work EXCEPT ![i] = build[i]]
        /\ live' = live \cup {i}
        /\ build' = [build EXCEPT ![i] = None]
        /\ pending' = [pending EXCEPT ![i] = NoUpdate]
        /\ flag' = (flag /\ \E j \in Indexes : pending'[j] # NoUpdate)
        /\ missed' = [missed EXCEPT ![i] = old]
        /\ rd' = [o \in Builders |-> [rd[o] EXCEPT
               !.pc = IF o = r THEN "finishing" ELSE @,
               !.owed = IF rd[o].index = i THEN @ \ missed'[i] ELSE @]]
        /\ phase' = [at |-> "finishing", index |-> i, caller |-> r]
    BY <1>3 DEF FinishBuild, Discard
  <2>2. build[i] \in SUBSET Copies
    BY <1>1, <1>3 DEF DataOK
  <2>3. /\ rd' \in [Builders -> Record]
        /\ \A o \in Builders : rd'[o].index = rd[o].index
        /\ \A o \in Builders : rd'[o].pc = IF o = r THEN "finishing" ELSE rd[o].pc
    <3>1. "finishing" \in Places
      BY DEF Places
    <3>2. \A o \in Builders : rd[o] \in Record
      BY DEF DataOK
    <3>3. \A o \in Builders : rd[o].pc \in Places /\ rd[o].owed \in SUBSET Docs
      BY <3>2 DEF Record
    <3>6. ASSUME NEW o \in Builders
          PROVE  /\ rd'[o] \in Record /\ rd'[o].index = rd[o].index
                 /\ rd'[o].pc = IF o = r THEN "finishing" ELSE rd[o].pc
      <4> DEFINE place == IF o = r THEN "finishing" ELSE rd[o].pc
                 kept == IF rd[o].index = i THEN rd[o].owed \ missed'[i] ELSE rd[o].owed
      <4>1. place \in Places /\ kept \in SUBSET Docs
        BY <3>1, <3>3
      <4>2. rd'[o] = [rd[o] EXCEPT !.pc = place, !.owed = kept]
        BY <2>1
      <4>3. place = IF o = r THEN "finishing" ELSE rd[o].pc
        OBVIOUS
      <4> HIDE DEF place, kept
      <4>4. rd[o] \in Record
        BY <3>2
      <4>5. [rd[o] EXCEPT !.pc = place, !.owed = kept] \in Record
        BY <4>1, <4>4 DEF Record
      <4>6. /\ [rd[o] EXCEPT !.pc = place, !.owed = kept].index = rd[o].index
            /\ [rd[o] EXCEPT !.pc = place, !.owed = kept].pc = place
        BY <4>4 DEF Record
      <4> QED BY <4>2, <4>3, <4>5, <4>6, Zenon
    <3>7. DOMAIN rd' = Builders /\ rd' = [o \in Builders |-> rd'[o]]
      BY <2>1
    <3> QED BY <3>6, <3>7
  <2>10. old \in SUBSET Docs
    BY <1>1, UpdatesFacts DEF Lacking, DataOK
  <2> HIDE DEF old, i
  <2>4. Staged' = Staged \ {i}
    BY <1>1, <2>1 DEF Staged, DataOK
  <2>5. /\ phase' \in [at : {"ready", "publishing", "unflagging", "finishing"},
                       index : Indexes \cup {None}, caller : Builders \cup {None}]
        /\ phase'.at = "finishing" /\ phase'.index = i /\ phase'.caller = r
    BY <1>1, <2>1
  <2>6. DataOK'
    <3>1. flag' \in BOOLEAN
      BY <2>1 DEF DataOK
    <3>2. pending' \in [Indexes -> Updates]
      BY <2>1, NoUpdateFacts DEF DataOK
    <3>3. /\ disk' \in [Indexes -> SUBSET Copies] /\ work' \in [Indexes -> SUBSET Copies]
          /\ build' \in [Indexes -> (SUBSET Copies) \cup {None}]
      BY <2>1, <2>2 DEF DataOK
    <3>4. /\ rd' \in [Builders -> Record]
          /\ \A b \in Builders : rd'[b].pc # "idle" => rd'[b].index \in Indexes
      BY <1>1, <2>3 DEF DataOK
    <3>5. missed' \in [Indexes -> SUBSET Docs]
      BY <2>1, <2>10 DEF DataOK
    <3> QED BY <1>1, <2>1, <2>5, <3>1, <3>2, <3>3, <3>4, <3>5 DEF DataOK
  <2>7. HandOK'
    BY <1>1 DEF HandOK
  <2>8. PhaseOK'
    <3>1. rd'[r].pc = "finishing" /\ rd'[r].index = i /\ pending'[i] = NoUpdate
      BY <1>1, <2>1, <2>3 DEF DataOK, i
    <3> QED BY <1>1, <2>1, <2>5, <3>1 DEF PhaseOK
  <2>9. StagingOK'
    <3>1. phase.at = "ready"
      BY <1>1 DEF Ready
    <3>2. flag' <=> Staged' # {}
      BY <1>1, <2>1, <2>4 DEF StagingOK, Staged
    <3> QED BY <1>1, <2>1, <2>4, <2>5, <3>1, <3>2 DEF StagingOK
  <2> QED BY <2>6, <2>7, <2>8, <2>9
<1> QED BY <1>2, <1>3

LEMMA PublishBuildType == TypeInv /\ PublishBuild => TypeInv'
<1> SUFFICES ASSUME TypeInv, PublishBuild PROVE TypeInv'
  OBVIOUS
<1> USE DEF TypeInv, db, memory
<1> DEFINE i == phase.index
           r == phase.caller
           x == IF r = Admin THEN Idle
                ELSE [rd[r] EXCEPT !.pc = "check", !.pid = run, !.again = TRUE]
<1>1. /\ up /\ phase.at = "finishing" /\ phase' = Ready
      /\ published' = [published EXCEPT ![i] = disk[i]]
      /\ marker' = [marker EXCEPT ![i] = FALSE]
      /\ rd' = [rd EXCEPT ![r] = x]
      /\ missed' = [missed EXCEPT ![i] = Lacking(disk[i])]
      /\ UNCHANGED <<db, disk, memory, flag, faults>>
  BY DEF PublishBuild
<1>2. i \in live /\ r \in Builders /\ i \in Indexes /\ pending[i] = NoUpdate
  BY <1>1 DEF PhaseOK, DataOK
<1>3. x \in Record /\ (x.pc # "idle" => x.index \in Indexes)
  BY <1>1, <1>2, IdleType DEF Record, Places, PhaseOK, DataOK, Idle
<1> HIDE DEF i, r, x
<1>4. DataOK'
  <2>1. phase' \in [at : {"ready", "publishing", "unflagging", "finishing"},
                    index : Indexes \cup {None}, caller : Builders \cup {None}]
    BY <1>1 DEF Ready
  <2>2. /\ rd' \in [Builders -> Record]
        /\ \A b \in Builders : rd'[b].pc # "idle" => rd'[b].index \in Indexes
    BY <1>1, <1>2, <1>3 DEF DataOK
  <2>3. /\ published' \in [Indexes -> (SUBSET Copies) \cup {None}]
        /\ marker' \in [Indexes -> BOOLEAN]
        /\ missed' \in [Indexes -> SUBSET Docs]
    BY <1>1, <1>2 DEF DataOK, Lacking
  <2> QED BY <1>1, <2>1, <2>2, <2>3 DEF DataOK
<1>5. HandOK'
  BY <1>1 DEF HandOK
<1>6. PhaseOK'
  BY <1>1 DEF PhaseOK, Ready
<1>7. StagingOK'
  <2>1. \A j \in Staged : j # i
    BY <1>2 DEF Staged
  <2> QED BY <1>1, <1>2, <2>1 DEF StagingOK, Staged, DataOK, Ready
<1> QED BY <1>4, <1>5, <1>6, <1>7

-------------------------------------------------------------------------------
(* Death, stop and restart.                                                    *)

(* Callers exit or stay as they are.                                          *)
LEMMA CallsExitFacts ==
  ASSUME DataOK, CallsExit
  PROVE  /\ rd' \in [Builders -> Record]
         /\ \A b \in Builders :
              \/ rd'[b] = rd[b] /\ rd[b].pc \notin {"waiting", "finishing"}
              \/ rd'[b] = Idle /\ rd[b].pc \in {"waiting", "finishing"}
         /\ \A b \in Builders : rd'[b].pc # "idle" => rd'[b].index \in Indexes
<1>1. \A b \in Builders :
        rd'[b] = IF rd[b].pc \in {"waiting", "finishing"} THEN Idle ELSE rd[b]
  BY DEF CallsExit
<1>2. Idle \in Record /\ Idle.pc = "idle"
  BY IdleType DEF Idle
<1>3. rd' \in [Builders -> Record]
  BY <1>2 DEF CallsExit, DataOK
<1> QED BY <1>1, <1>2, <1>3 DEF DataOK

(* The owner has forgotten everything; only the files, the table and the       *)
(* database are left.                                                          *)
LEMMA ForgetType ==
  ASSUME DataOK, HandOK, Forget, CallsExit,
         rows' = rows, acked' = acked,
         hand' = hand \/ \E w \in Writers : hand' = [hand EXCEPT ![w] = None],
         disk' \in [Indexes -> SUBSET Copies],
         marker' \in [Indexes -> BOOLEAN],
         flag' \in BOOLEAN,
         published' \in [Indexes -> (SUBSET Copies) \cup {None}],
         missed' = missed, faults' \in Nat
  PROVE  TypeInv'
<1>1. /\ up' = FALSE /\ live' = {}
      /\ work' = [i \in Indexes |-> {}]
      /\ pending' = [i \in Indexes |-> NoUpdate]
      /\ timer' = FALSE /\ due' = 0
      /\ build' = [i \in Indexes |-> None]
      /\ phase' = Ready
      /\ run' = run
  BY DEF Forget
<1>2. HandOK' /\ hand' \in [Writers -> (Docs \X Versions) \cup {None}]
  <2>1. CASE hand' = hand
    BY <2>1 DEF HandOK, DataOK
  <2>2. CASE \E w \in Writers : hand' = [hand EXCEPT ![w] = None]
    BY <2>2, HandedOver
  <2> QED BY <2>1, <2>2
<1>3. DataOK'
  <2>1. pending' \in [Indexes -> Updates]
    BY <1>1, NoUpdateFacts
  <2>2. phase' \in [at : {"ready", "publishing", "unflagging", "finishing"},
                    index : Indexes \cup {None}, caller : Builders \cup {None}]
    BY <1>1 DEF Ready
  <2>3. work' \in [Indexes -> SUBSET Copies] /\ build' \in [Indexes -> (SUBSET Copies) \cup {None}]
    BY <1>1
  <2>4. /\ rows' \in [Docs -> Versions] /\ acked' \in [Docs -> Versions]
        /\ \A d \in Docs : acked'[d] <= rows'[d]
        /\ run' \in Nat /\ missed' \in [Indexes -> SUBSET Docs]
    BY <1>1 DEF DataOK
  <2>5. /\ up' \in BOOLEAN /\ live' \subseteq Indexes
        /\ timer' \in BOOLEAN /\ due' \in Nat
    BY <1>1
  <2> QED BY <1>2, <2>1, <2>2, <2>3, <2>4, <2>5, CallsExitFacts DEF DataOK
<1>4. Staged' = {}
  BY <1>1 DEF Staged
<1>5. PhaseOK'
  BY <1>1, <1>4 DEF PhaseOK, Ready
<1>6. StagingOK'
  BY <1>1, <1>4 DEF StagingOK
<1> QED BY <1>2, <1>3, <1>5, <1>6 DEF TypeInv

LEMMA CrashType ==
  ASSUME TypeInv, NEW S \in SUBSET Indexes, NEW T \in SUBSET Indexes, Crash(S, T)
  PROVE  TypeInv'
<1>1. /\ disk' \in [Indexes -> SUBSET Copies]
      /\ published' \in [Indexes -> (SUBSET Copies) \cup {None}]
      /\ marker' \in [Indexes -> BOOLEAN]
  BY DEF Crash, TypeInv, DataOK
<1>2. Forget /\ CallsExit /\ UNCHANGED <<db, flag, missed>> /\ faults' = faults + 1
  BY DEF Crash, Fault
<1>3. flag' \in BOOLEAN /\ faults' \in Nat
  BY <1>2 DEF TypeInv, DataOK
<1> QED BY <1>1, <1>2, <1>3, ForgetType DEF TypeInv, db

LEMMA CrashStagingType ==
  ASSUME TypeInv, NEW w \in Writers, NEW n \in 0..Len(IndexOrder), CrashStaging(w, n)
  PROVE  TypeInv'
<1>1. /\ marker' = [i \in Indexes |-> marker[i] \/ i \in First(n)]
      /\ flag' = (flag \/ First(n) # {})
      /\ hand' = [hand EXCEPT ![w] = None]
      /\ Forget /\ CallsExit
      /\ UNCHANGED <<rows, acked, disk, published, missed>> /\ faults' = faults + 1
  BY DEF CrashStaging, Fault
<1>2. marker' \in [Indexes -> BOOLEAN] /\ flag' \in BOOLEAN /\ faults' \in Nat
  BY <1>1 DEF TypeInv, DataOK
<1>3. /\ disk' \in [Indexes -> SUBSET Copies]
      /\ published' \in [Indexes -> (SUBSET Copies) \cup {None}]
  BY <1>1 DEF TypeInv, DataOK
<1> QED BY <1>1, <1>2, <1>3, ForgetType DEF TypeInv

LEMMA StopType == TypeInv /\ Stop => TypeInv'
<1> SUFFICES ASSUME TypeInv, Stop PROVE TypeInv'
  OBVIOUS
<1>1. /\ disk' \in [Indexes -> SUBSET Copies]
      /\ published' \in [Indexes -> (SUBSET Copies) \cup {None}]
      /\ marker' \in [Indexes -> BOOLEAN]
  BY DEF Stop, TypeInv, DataOK
<1>2. Forget /\ CallsExit /\ UNCHANGED <<db, missed>> /\ faults' = faults + 1 /\ flag' = FALSE
  BY DEF Stop, Fault
<1>3. flag' \in BOOLEAN
  BY <1>2
<1>4. faults' \in Nat
  BY <1>2 DEF TypeInv, DataOK
<1> QED BY <1>1, <1>2, <1>3, <1>4, ForgetType DEF TypeInv, db

LEMMA RestartType == TypeInv /\ Restart => TypeInv'
<1> SUFFICES ASSUME TypeInv, Restart PROVE TypeInv'
  OBVIOUS
<1> USE DEF TypeInv, db, files
<1>1. /\ ~up /\ up' = TRUE /\ run' = run + 1
      /\ live' = {i \in Indexes : ~marker[i]}
      /\ work' = disk
      /\ published' = [i \in Indexes |-> IF marker[i] THEN None ELSE disk[i]]
      /\ flag' = FALSE
      /\ UNCHANGED <<db, files, pending, timer, due, build, phase, rd, missed, faults>>
  BY DEF Restart
<1>2. phase = Ready /\ Staged = {} /\ ~timer
  BY <1>1 DEF PhaseOK
<1>3. DataOK'
  <2>1. published' \in [Indexes -> (SUBSET Copies) \cup {None}]
    BY <1>1 DEF DataOK
  <2>2. up' \in BOOLEAN /\ flag' \in BOOLEAN
    BY <1>1
  <2>3. run' \in Nat /\ live' \subseteq Indexes
    BY <1>1 DEF DataOK
  <2> QED BY <1>1, <2>1, <2>2, <2>3 DEF DataOK
<1>4. HandOK'
  BY <1>1 DEF HandOK
<1>5. PhaseOK'
  BY <1>1, <1>2 DEF PhaseOK, Ready
<1>6. StagingOK'
  BY <1>1, <1>2 DEF StagingOK, Staged
<1> QED BY <1>3, <1>4, <1>5, <1>6

-------------------------------------------------------------------------------

(* The types hold initially and are kept by every step.                       *)
LEMMA TypeInit == Init => TypeInv
<1> SUFFICES ASSUME Init PROVE TypeInv
  OBVIOUS
<1> USE DEF Init
<1>1. DataOK
  <2>1. rows \in [Docs -> Versions] /\ acked \in [Docs -> Versions]
    BY VersionFacts
  <2>2. \A d \in Docs : acked[d] <= rows[d]
    OBVIOUS
  <2>3. pending \in [Indexes -> Updates]
    BY NoUpdateFacts
  <2>4. /\ disk \in [Indexes -> SUBSET Copies] /\ work \in [Indexes -> SUBSET Copies]
        /\ build \in [Indexes -> (SUBSET Copies) \cup {None}]
        /\ published \in [Indexes -> (SUBSET Copies) \cup {None}]
        /\ hand \in [Writers -> (Docs \X Versions) \cup {None}]
        /\ marker \in [Indexes -> BOOLEAN] /\ missed \in [Indexes -> SUBSET Docs]
    OBVIOUS
  <2>5. rd \in [Builders -> Record] /\ \A b \in Builders : rd[b].pc = "idle"
    BY IdleType DEF Idle
  <2>6. phase \in [at : {"ready", "publishing", "unflagging", "finishing"},
                   index : Indexes \cup {None}, caller : Builders \cup {None}]
    BY DEF Ready
  <2>7. /\ up \in BOOLEAN /\ run \in Nat /\ live \subseteq Indexes /\ timer \in BOOLEAN
        /\ due \in Nat /\ flag \in BOOLEAN /\ faults \in Nat
    OBVIOUS
  <2> QED BY <2>1, <2>2, <2>3, <2>4, <2>5, <2>6, <2>7 DEF DataOK
<1>2. HandOK
  BY DEF HandOK
<1>3. Staged = {}
  BY DEF Staged
<1>4. PhaseOK
  BY <1>3 DEF PhaseOK, Ready
<1>5. StagingOK
  BY <1>3 DEF StagingOK
<1> QED BY <1>1, <1>2, <1>4, <1>5 DEF TypeInv

LEMMA TypeStutter == TypeInv /\ UNCHANGED vars => TypeInv'
BY DEF vars, db, files, memory, table, TypeInv, DataOK, HandOK, PhaseOK, StagingOK, Staged

LEMMA TypeStep == TypeInv /\ [Next]_vars => TypeInv'
<1> SUFFICES ASSUME TypeInv, [Next]_vars PROVE TypeInv'
  OBVIOUS
<1>1. ASSUME NEW w \in Writers, Writes(w) PROVE TypeInv'
  BY <1>1, CommitType, RefreshType, RefreshFailsType, CrashStagingType DEF Writes
<1>2. ASSUME NEW r \in Readers, Reads(r) PROVE TypeInv'
  BY <1>2, SearchType, CheckType, AskPublishType, LookupType, AskSearchType,
     AnsweredType, BuildMissingType DEF Reads
<1>3. ASSUME NEW r \in Builders, Builds(r) PROVE TypeInv'
  BY <1>3, BatchType, FinishBuildType, BuildFailsType DEF Builds
<1>4. CASE UNCHANGED vars
  BY <1>4, TypeStutter
<1> QED
  BY <1>1, <1>2, <1>3, <1>4, RebuildType, TimerFiresType, PublishIndexesType,
     ClearFlagType, PublishBuildType, PublishFailsType, CrashType, RestartType,
     StopType DEF Next

(* Each index has its marker and a running timer while updates are staged in   *)
(* it, and the flag in the table says so, between any two handlers (owner.ex,  *)
(* do_refresh, publish_pending, discard_pending).                              *)
THEOREM OwnerTypes == Spec => []TypeOK
<1>1. TypeInv => TypeOK
  <2> SUFFICES ASSUME TypeInv PROVE TypeOK
    OBVIOUS
  <2>1. \A i \in Indexes : DOMAIN pending[i] \subseteq Docs /\ missed[i] \subseteq Docs
    BY UpdatesFacts DEF TypeInv, DataOK
  <2>2. \A r \in Builders : rd[r].pc \in Places
    BY DEF TypeInv, DataOK, Record
  <2>3. Free => /\ timer => due > 0
                /\ flag <=> Staged # {}
                /\ \A i \in Staged : i \in live /\ marker[i] /\ timer
    BY DEF TypeInv, StagingOK, Free, Ready
  <2>4. \A i \in Indexes :
          /\ disk[i] \subseteq Copies /\ work[i] \subseteq Copies
          /\ published[i] = None \/ published[i] \subseteq Copies
          /\ build[i] = None \/ build[i] \subseteq Copies
    BY DEF TypeInv, DataOK
  <2> QED BY <2>1, <2>2, <2>3, <2>4 DEF TypeOK, TypeInv, DataOK
<1> QED BY <1>1, TypeInit, TypeStep, PTL DEF Spec
-------------------------------------------------------------------------------
(* What an index holds of one document.                                        *)

Of(copies, d) == {c \in copies : c[1] = d}

\* Some has a copy of d at version v, and no other copy when d is plain.
Fits(some, d, v) ==
  /\ Copy(d, v) \subseteq some
  /\ d \in Plain => some \subseteq Copy(d, v)

\* The versions from lo to hi of d.
Between(copies, d, lo, hi) == \E v \in lo..hi : Fits(Of(copies, d), d, v)

\* Not older than the last answered write of d.
Answers(copies, d) == Between(copies, d, acked[d], rows[d])

\* Documents that no other id's update touches.
Own == Docs \ Disturbed

LEMMA OfUnion == \A some, others, d : Of(some \cup others, d) = Of(some, d) \cup Of(others, d)
BY DEF Of

LEMMA OfCopy == \A d, e, v : Of(Copy(e, v), d) = IF e = d THEN Copy(e, v) ELSE {}
<1>1. \A e, v : \A c \in Copy(e, v) : c[1] = e
  BY DEF Copy
<1> QED BY <1>1 DEF Of

(* Holds says what Between says of the floor.                                 *)
LEMMA HoldsIsBetween ==
  ASSUME NEW d \in Docs, NEW copies, NEW floor
  PROVE  Holds(copies, d, floor) <=> Between(copies, d, floor[d], rows[d])
<1>1. \A v : Copy(d, v) \subseteq copies <=> Copy(d, v) \subseteq Of(copies, d)
  <2>1. \A v : \A c \in Copy(d, v) : c[1] = d
    BY DEF Copy
  <2> QED BY <2>1 DEF Of
<1> QED BY <1>1 DEF Holds, Between, Fits, Of

LEMMA LackingFacts ==
  ASSUME NEW d \in Docs, NEW copies
  PROVE  d \in Lacking(copies) <=> ~Answers(copies, d)
BY HoldsIsBetween DEF Lacking, Answers

(* A replacement leaves the other documents as they are, and of its own a copy *)
(* that fits.                                                                  *)
LEMMA OfReplace ==
  ASSUME NEW d \in Own, NEW e \in Docs, NEW v, NEW copies
  PROVE  /\ e = d => Fits(Of(Replace(copies, e, v), d), d, v)
         /\ e # d => Of(Replace(copies, e, v), d) = Of(copies, d)
<1> DEFINE kept == {c \in copies : c[1] # Found[e]}
<1>1. Of(Replace(copies, e, v), d) =
        Of(kept, d) \cup (IF e = d THEN Copy(e, v) ELSE {})
  <2>1. Replace(copies, e, v) = kept \cup Copy(e, v)
    BY DEF Replace
  <2> HIDE DEF kept
  <2>2. Of(kept \cup Copy(e, v), d) = Of(kept, d) \cup Of(Copy(e, v), d)
    BY OfUnion
  <2> QED BY <2>1, <2>2, OfCopy
<1>2. ASSUME e = d PROVE Fits(Of(Replace(copies, e, v), d), d, v)
  <2>1. d \in Plain => Of(kept, d) = {}
    BY <1>2 DEF Plain, Of
  <2> HIDE DEF kept
  <2> QED BY <1>1, <1>2, <2>1 DEF Fits
<1>3. ASSUME e # d PROVE Of(Replace(copies, e, v), d) = Of(copies, d)
  <2>1. Found[e] # d
    BY <1>3 DEF Own, Disturbed
  <2>2. Of(kept, d) = Of(copies, d)
    BY <2>1 DEF Of
  <2> HIDE DEF kept
  <2> QED BY <1>1, <1>3, <2>2
<1> QED BY <1>2, <1>3

(* A wider range of versions admits what a narrower one does.                 *)
LEMMA BetweenWider ==
  ASSUME NEW copies, NEW d, NEW lo \in Nat, NEW hi \in Nat, NEW low \in Nat,
         NEW high \in Nat, low <= lo, hi <= high, Between(copies, d, lo, hi)
  PROVE  Between(copies, d, low, high)
<1>1. PICK v \in lo..hi : Fits(Of(copies, d), d, v)
  BY DEF Between
<1>2. v \in low..high
  BY <1>1
<1> QED BY <1>1, <1>2 DEF Between

(* What answers the last write answers older floors.                          *)
LEMMA BetweenFacts ==
  ASSUME DataOK, NEW d \in Docs, NEW copies
  PROVE  /\ rows[d] \in Nat /\ acked[d] \in Nat /\ acked[d] <= rows[d]
         /\ \A lo \in Nat : lo <= acked[d] /\ Answers(copies, d) =>
              Between(copies, d, lo, rows[d])
<1>1. rows[d] \in Nat /\ acked[d] \in Nat /\ acked[d] <= rows[d]
  BY VersionFacts DEF DataOK
<1>2. \A lo \in Nat : lo <= acked[d] /\ Answers(copies, d) =>
        Between(copies, d, lo, rows[d])
  BY <1>1, BetweenWider DEF Answers
<1> QED BY <1>1, <1>2

-------------------------------------------------------------------------------
(* The inductive invariant of what a search finds of the document d.           *)

\* What the writer of an index will commit.
Applied(i, d) ==
  IF d \in DOMAIN pending[i]
  THEN /\ pending[i][d] \in acked[d]..rows[d]
       /\ Fits(Of(work[i], d), d, pending[i][d])
  ELSE /\ Of(work[i], d) = Of(disk[i], d)
       /\ d \notin missed[i] => Answers(disk[i], d)

\* What its published searcher shows, unless an update of d is staged.
Shown(i, d) ==
  published[i] # None /\ d \notin DOMAIN pending[i] /\ d \notin missed[i] =>
    Answers(published[i], d)

\* Between the removal of the markers and the clearing of the flag.
Committed(i) ==
  phase.at = "unflagging" /\ i \in Staged => disk[i] = work[i] /\ published[i] = work[i]

Served(d) == up =>
  \A i \in Indexes :
    /\ i \in live => Applied(i, d) /\ Committed(i) /\ Shown(i, d)
    /\ i \notin live => marker[i] /\ published[i] = None

\* Without a marker a generation can be trusted by the next owner.
Trusted(d) == ~up =>
  \A i \in Indexes : ~marker[i] /\ d \notin missed[i] => Answers(disk[i], d)

Seen(i, d, lo) == published[i] # None => Between(published[i], d, lo, rows[d])

\* What a reader with the record x relies on.
Knows(x, d) ==
  /\ x.floor[d] <= acked[d]
  /\ d \in x.owed =>
       /\ x.index \in Indexes /\ d \notin missed[x.index]
       /\ x.pc = "check" /\ ~flag => Seen(x.index, d, x.floor[d])
       /\ x.pc = "lookup" => Seen(x.index, d, x.floor[d])
       /\ x.pc = "got" => Between(x.got, d, x.floor[d], rows[d])

Reading(d) == \A r \in Readers : Knows(rd[r], d)

SeenInv(d) == Served(d) /\ Trusted(d) /\ Reading(d)

(* What an index would commit answers, too.                                    *)
LEMMA WorkAnswers ==
  ASSUME NEW i, NEW d, Applied(i, d), d \notin missed[i]
  PROVE  Answers(work[i], d)
<1>1. CASE d \in DOMAIN pending[i]
  BY <1>1 DEF Applied, Answers, Between
<1>2. CASE d \notin DOMAIN pending[i]
  BY <1>2 DEF Applied, Answers, Between
<1> QED BY <1>1, <1>2

(* A reader is a builder, and what it expects is a number.                    *)
LEMMA FloorFacts ==
  ASSUME DataOK, NEW r \in Readers, NEW d \in Docs
  PROVE  r \in Builders /\ rd[r] \in Record /\ rd[r].floor[d] \in Nat
<1>1. r \in Builders
  BY DEF Builders
<1>2. rd[r] \in Record
  BY <1>1 DEF DataOK
<1> QED BY <1>1, <1>2, VersionFacts DEF Record

(* While nothing is staged, whatever is published answers every reader.        *)
LEMMA UnstagedSeen ==
  ASSUME TypeInv, NEW d \in Own, Served(d), up, Staged = {},
         NEW i \in Indexes, d \notin missed[i], NEW lo \in Nat, lo <= acked[d]
  PROVE  /\ Seen(i, d, lo)
         /\ i \in live => Answers(disk[i], d)
<1>1. d \in Docs
  BY DEF Own
<1>2. d \notin DOMAIN pending[i]
  BY NoUpdateFacts DEF Staged
<1>3. published[i] # None => Answers(published[i], d)
  BY <1>2 DEF Served, Shown
<1>4. Seen(i, d, lo)
  BY <1>1, <1>3, BetweenFacts DEF Seen, TypeInv
<1> QED BY <1>2, <1>4 DEF Served, Applied

(* A reader that does not search relies on nothing.                           *)
LEMMA IdleKnows == ASSUME TypeInv, NEW d \in Docs PROVE Knows(Idle, d)
<1>1. Idle.pc = "idle" /\ Idle.floor[d] = 0 /\ Idle.owed = {}
  BY DEF Idle
<1>2. acked[d] \in Nat
  BY VersionFacts DEF TypeInv, DataOK
<1> QED BY <1>1, <1>2 DEF Knows

-------------------------------------------------------------------------------
(* What a search finds: steps of callers.                                      *)

(* The record x of r, and perhaps a publish begins.                            *)
LEMMA CallerSeen ==
  ASSUME TypeInv, NEW d \in Own, SeenInv(d),
         NEW r \in Builders, NEW x \in Record, rd' = [rd EXCEPT ![r] = x],
         r \in Readers => Knows(x, d),
         UNCHANGED <<db, files, up, live, work, pending, table>>,
         phase' = phase \/ (phase = Ready /\ phase'.at = "publishing")
  PROVE  SeenInv(d)'
<1> USE DEF db, files, table
<1>1. \A i \in Indexes : Committed(i) => Committed(i)'
  BY DEF Committed, Staged, Ready
<1>2. \A i \in Indexes : (Applied(i, d) <=> Applied(i, d)') /\ (Shown(i, d) <=> Shown(i, d)')
  BY DEF Applied, Shown, Answers
<1>3. Served(d)'
  BY <1>1, <1>2 DEF SeenInv, Served
<1>4. Trusted(d)'
  BY DEF SeenInv, Trusted, Answers
<1>5. \A i, lo : Seen(i, d, lo) <=> Seen(i, d, lo)'
  BY DEF Seen
<1>6. \A o \in Readers : rd'[o] = IF o = r THEN x ELSE rd[o]
  BY DEF TypeInv, DataOK, Builders
<1>7. \A y : Knows(y, d) => Knows(y, d)'
  BY <1>5 DEF Knows
<1>8. Reading(d)'
  <2>1. \A o \in Readers : Knows(rd'[o], d)
    BY <1>6 DEF SeenInv, Reading
  <2>2. ASSUME NEW o \in Readers PROVE Knows(rd[o], d)'
    <3>1. PICK y : y = rd'[o]
      OBVIOUS
    <3>2. Knows(y, d) /\ Knows(y, d)'
      BY <1>7, <2>1, <3>1
    <3> QED BY <3>1, <3>2 DEF Knows
  <2> QED BY <2>2 DEF Reading
<1> QED BY <1>3, <1>4, <1>8 DEF SeenInv

LEMMA GoesSeen ==
  ASSUME TypeInv, NEW d \in Own, SeenInv(d), NEW r \in Readers,
         NEW place \in {"flagged", "waiting", "asking", "lookup", "missed"},
         Goes(r, place),
         place = "lookup" /\ d \in rd[r].owed => Seen(rd[r].index, d, rd[r].floor[d]),
         UNCHANGED <<db, files, up, live, work, pending, table>>,
         phase' = phase \/ (phase = Ready /\ phase'.at = "publishing")
  PROVE  SeenInv(d)'
<1> DEFINE x == [rd[r] EXCEPT !.pc = place]
<1>1. r \in Builders /\ place \in Places
  BY DEF Builders, Places
<1>2. rd' = [rd EXCEPT ![r] = x] /\ x \in Record
  BY <1>1, GoesFacts DEF TypeInv, DataOK
<1>3. /\ x.pc = place /\ x.index = rd[r].index /\ x.floor = rd[r].floor
      /\ x.owed = rd[r].owed
  BY <1>1 DEF TypeInv, DataOK, Record
<1> HIDE DEF x
<1>4. Knows(rd[r], d)
  BY DEF SeenInv, Reading
<1>5. Knows(x, d)
  BY <1>3, <1>4 DEF Knows
<1> QED BY <1>1, <1>2, <1>5, CallerSeen

LEMMA FindsSeen ==
  ASSUME TypeInv, NEW d \in Own, SeenInv(d), NEW r \in Readers,
         NEW copies \in SUBSET Copies, Finds(r, copies),
         d \in rd[r].owed => Between(copies, d, rd[r].floor[d], rows[d]),
         UNCHANGED <<db, files, up, live, work, pending, phase, table>>
  PROVE  SeenInv(d)'
<1> DEFINE x == [rd[r] EXCEPT !.pc = "got", !.got = copies]
<1>1. r \in Builders
  BY DEF Builders
<1>2. rd' = [rd EXCEPT ![r] = x] /\ x \in Record
  BY <1>1, FindsFacts DEF TypeInv, DataOK
<1>3. /\ x.pc = "got" /\ x.got = copies /\ x.floor = rd[r].floor
      /\ x.owed = rd[r].owed /\ x.index = rd[r].index
  BY <1>1 DEF TypeInv, DataOK, Record
<1> HIDE DEF x
<1>4. Knows(rd[r], d)
  BY DEF SeenInv, Reading
<1>5. Knows(x, d)
  BY <1>3, <1>4 DEF Knows
<1> QED BY <1>1, <1>2, <1>5, CallerSeen

LEMMA FailsSeen ==
  ASSUME TypeInv, NEW d \in Own, SeenInv(d), NEW r \in Builders, Fails(r),
         UNCHANGED <<db, files, up, live, work, pending, phase, table>>
  PROVE  SeenInv(d)'
<1>1. rd' = [rd EXCEPT ![r] = Idle] /\ Idle \in Record
  BY FailsFacts
<1>2. Knows(Idle, d)
  BY IdleKnows DEF Own
<1> QED BY <1>1, <1>2, CallerSeen

LEMMA SearchSeen ==
  ASSUME TypeInv, NEW d \in Own, SeenInv(d), NEW r \in Readers,
         NEW i \in Indexes, Search(r, i)
  PROVE  SeenInv(d)'
<1> DEFINE owed == Docs \ missed[i]
           x == [Idle EXCEPT !.pc = "check", !.index = i, !.pid = run,
                             !.snap = rows, !.floor = acked, !.owed = owed]
<1>1. x \in Record
  BY IdleType DEF Record, Places, TypeInv, DataOK, Idle
<1>2. x.pc = "check" /\ x.index = i /\ x.floor = acked /\ x.owed = owed
  BY DEF Idle
<1>3. up /\ rd' = [rd EXCEPT ![r] = x] /\ UNCHANGED <<db, files, memory, phase, table>>
  BY DEF Search
<1>4. d \in owed => d \notin missed[i]
  OBVIOUS
<1> HIDE DEF x, owed
<1>5. d \in Docs /\ acked[d] \in Nat
  BY VersionFacts DEF TypeInv, DataOK, Own
<1>6. ASSUME ~flag, d \in owed PROVE Seen(i, d, acked[d])
  <2>1. Staged = {}
    BY <1>3, <1>6 DEF TypeInv, StagingOK
  <2> QED BY <1>3, <1>4, <1>5, <1>6, <2>1, UnstagedSeen DEF SeenInv
<1>7. Knows(x, d)
  BY <1>2, <1>4, <1>5, <1>6 DEF Knows
<1>8. r \in Builders
  BY DEF Builders
<1> QED BY <1>1, <1>3, <1>7, <1>8, CallerSeen DEF memory

LEMMA CheckSeen ==
  ASSUME TypeInv, NEW d \in Own, SeenInv(d), NEW r \in Readers, Check(r)
  PROVE  SeenInv(d)'
<1>1. /\ rd[r].pc = "check" /\ Goes(r, IF flag THEN "flagged" ELSE "lookup")
      /\ UNCHANGED <<db, files, up, live, work, pending, phase, table>>
  BY DEF Check, memory
<1>2. ~flag /\ d \in rd[r].owed => Seen(rd[r].index, d, rd[r].floor[d])
  BY <1>1 DEF SeenInv, Reading, Knows
<1>3. CASE flag
  BY <1>1, <1>3, GoesSeen
<1>4. CASE ~flag
  BY <1>1, <1>2, <1>4, GoesSeen
<1> QED BY <1>3, <1>4

(* The call of a reader reaches an owner that has nothing to publish.          *)
LEMMA NothingStaged ==
  ASSUME TypeInv, NEW d \in Own, SeenInv(d), NEW r \in Readers,
         d \in rd[r].owed, up, Staged = {}
  PROVE  /\ Seen(rd[r].index, d, rd[r].floor[d])
         /\ rd[r].index \in live =>
              Between(disk[rd[r].index], d, rd[r].floor[d], rows[d])
<1> DEFINE i == rd[r].index
           lo == rd[r].floor[d]
<1>1. d \in Docs /\ lo \in Nat
  BY FloorFacts DEF TypeInv, Own
<1>2. i \in Indexes /\ lo <= acked[d] /\ d \notin missed[i]
  BY DEF SeenInv, Reading, Knows
<1> HIDE DEF i, lo
<1>3. Seen(i, d, lo) /\ (i \in live => Answers(disk[i], d))
  BY <1>1, <1>2, UnstagedSeen DEF SeenInv
<1>4. i \in live => Between(disk[i], d, lo, rows[d])
  BY <1>1, <1>2, <1>3, BetweenFacts DEF TypeInv
<1> QED BY <1>3, <1>4 DEF i, lo

LEMMA AskPublishSeen ==
  ASSUME TypeInv, NEW d \in Own, SeenInv(d), NEW r \in Readers, AskPublish(r)
  PROVE  SeenInv(d)'
<1>1. /\ rd[r].pc = "flagged" /\ r \in Builders
      /\ UNCHANGED <<db, files, up, live, work, pending, table>>
  BY DEF AskPublish, Builders, memory
<1>2. CASE ~ Reaches(r)
  BY <1>1, <1>2, FailsSeen DEF AskPublish
<1>3. CASE Reaches(r) /\ Staged = {}
  <2>1. up /\ Goes(r, "lookup") /\ phase' = phase
    BY <1>3 DEF AskPublish, Reaches
  <2>2. d \in rd[r].owed => Seen(rd[r].index, d, rd[r].floor[d])
    BY <1>3, <2>1, NothingStaged
  <2> QED BY <1>1, <2>1, <2>2, GoesSeen
<1>4. CASE Reaches(r) /\ Staged # {}
  <2>1. phase = Ready /\ Goes(r, "waiting") /\ phase'.at = "publishing"
    BY <1>4 DEF AskPublish, Ready
  <2> QED BY <1>1, <2>1, GoesSeen
<1> QED BY <1>2, <1>3, <1>4

LEMMA LookupSeen ==
  ASSUME TypeInv, NEW d \in Own, SeenInv(d), NEW r \in Readers, Lookup(r)
  PROVE  SeenInv(d)'
<1> DEFINE seen == published[rd[r].index]
<1>1. /\ rd[r].pc = "lookup" /\ r \in Builders
      /\ UNCHANGED <<db, files, up, live, work, pending, phase, table>>
  BY DEF Lookup, Builders, memory
<1>2. seen # None /\ d \in rd[r].owed => Between(seen, d, rd[r].floor[d], rows[d])
  BY <1>1 DEF SeenInv, Reading, Knows, Seen
<1>3. CASE seen # None
  <2>1. seen \in SUBSET Copies /\ Finds(r, seen)
    BY <1>1, <1>3 DEF TypeInv, DataOK, Lookup
  <2> QED BY <1>1, <1>2, <1>3, <2>1, FindsSeen
<1>4. CASE seen = None
  <2>1. Goes(r, "asking")
    BY <1>4 DEF Lookup
  <2> QED BY <1>1, <2>1, GoesSeen
<1> QED BY <1>3, <1>4

LEMMA AskSearchSeen ==
  ASSUME TypeInv, NEW d \in Own, SeenInv(d), NEW r \in Readers, AskSearch(r)
  PROVE  SeenInv(d)'
<1> DEFINE i == rd[r].index
<1>1. /\ rd[r].pc = "asking" /\ r \in Builders
      /\ UNCHANGED <<db, files, up, live, work, pending, table>>
  BY DEF AskSearch, Builders, memory
<1>2. CASE ~ Reaches(r)
  BY <1>1, <1>2, FailsSeen DEF AskSearch
<1>3. CASE Reaches(r) /\ Staged # {}
  <2>1. phase = Ready /\ Goes(r, "waiting") /\ phase'.at = "publishing"
    BY <1>3 DEF AskSearch, Ready
  <2> QED BY <1>1, <2>1, GoesSeen
<1>4. CASE Reaches(r) /\ Staged = {}
  <2>1. up /\ phase' = phase
    BY <1>4 DEF AskSearch, Reaches
  <2>2. d \in rd[r].owed /\ i \in live => Between(disk[i], d, rd[r].floor[d], rows[d])
    BY <1>4, <2>1, NothingStaged
  <2>3. CASE i \in live
    <3>1. disk[i] \in SUBSET Copies /\ Finds(r, disk[i])
      BY <1>4, <2>3 DEF TypeInv, DataOK, AskSearch
    <3> QED BY <1>1, <2>1, <2>2, <2>3, <3>1, FindsSeen
  <2>4. CASE i \notin live
    <3>1. Fails(r) \/ Goes(r, "missed")
      BY <1>4, <2>4 DEF AskSearch
    <3> QED BY <1>1, <2>1, <3>1, FailsSeen, GoesSeen
  <2> QED BY <2>3, <2>4
<1> QED BY <1>2, <1>3, <1>4

LEMMA AnsweredSeen ==
  ASSUME TypeInv, NEW d \in Own, SeenInv(d), NEW r \in Readers, Answered(r)
  PROVE  SeenInv(d)'
BY FailsSeen DEF Answered, Builders, memory

-------------------------------------------------------------------------------
(* What a search finds: builds.                                                *)

LEMMA BuildMissingSeen ==
  ASSUME TypeInv, NEW d \in Own, SeenInv(d), NEW r \in Readers, BuildMissing(r)
  PROVE  SeenInv(d)'
<1> DEFINE i == rd[r].index
           todo == Alive(rd[r].snap)
           x == [rd[r] EXCEPT !.pc = "building", !.index = i, !.todo = todo]
<1>1. /\ r \in Builders /\ rd[r].pc = "missed" /\ rd[r] \in Record /\ i \in Indexes
      /\ UNCHANGED <<db, files, up, live, work, pending, phase, table>>
      /\ rd' = [rd EXCEPT ![r].pc = "building", ![r].index = i, ![r].todo = todo]
  BY DEF Builders, BuildMissing, BeginBuild, TypeInv, DataOK
<1>2. todo \in SUBSET Docs /\ "building" \in Places
  BY AliveType DEF Places
<1> HIDE DEF todo
<1>3. rd' = [rd EXCEPT ![r] = x] /\ x \in Record
  BY <1>1, <1>2 DEF TypeInv, DataOK, Record
<1>4. x.pc = "building" /\ x.index = i /\ x.floor = rd[r].floor /\ x.owed = rd[r].owed
  BY <1>1 DEF Record
<1> HIDE DEF x
<1>5. Knows(rd[r], d)
  BY DEF SeenInv, Reading
<1>6. Knows(x, d)
  BY <1>4, <1>5 DEF Knows
<1> QED BY <1>1, <1>3, <1>6, CallerSeen

LEMMA RebuildSeen ==
  ASSUME TypeInv, NEW d \in Own, SeenInv(d), NEW i \in Indexes, Rebuild(i)
  PROVE  SeenInv(d)'
<1> DEFINE x == [Idle EXCEPT !.pc = "building", !.index = i, !.snap = rows,
                             !.todo = Alive(rows)]
<1>1. /\ Admin \in Builders /\ Admin \notin Readers
      /\ rd' = [rd EXCEPT ![Admin] = x]
      /\ UNCHANGED <<db, files, up, live, work, pending, phase, table>>
  BY SearchOwnerAssumption DEF Builders, Rebuild
<1>2. x \in Record
  BY IdleType, AliveType DEF Record, Places, TypeInv, DataOK, Idle
<1> HIDE DEF x
<1> QED BY <1>1, <1>2, CallerSeen

LEMMA BuildFailsSeen ==
  ASSUME TypeInv, NEW d \in Own, SeenInv(d), NEW r \in Builders, BuildFails(r)
  PROVE  SeenInv(d)'
BY FailsSeen DEF BuildFails

LEMMA BatchSeen ==
  ASSUME TypeInv, NEW d \in Own, SeenInv(d), NEW r \in Builders, NEW e \in Docs, Batch(r, e)
  PROVE  SeenInv(d)'
<1>1. /\ rd[r].pc = "building" /\ rd[r] \in Record
      /\ UNCHANGED <<db, files, up, live, work, pending, phase, table>>
  BY DEF Batch, TypeInv, DataOK
<1>2. CASE build[rd[r].index] = None
  BY <1>1, <1>2, FailsSeen DEF Batch
<1>3. CASE build[rd[r].index] # None
  <2> DEFINE x == [rd[r] EXCEPT !.todo = @ \ {e}]
  <2>1. rd' = [rd EXCEPT ![r].todo = @ \ {e}]
    BY <1>3 DEF Batch
  <2>2. rd' = [rd EXCEPT ![r] = x] /\ x \in Record
    BY <1>1, <2>1 DEF TypeInv, DataOK, Record
  <2>3. /\ x.pc = "building" /\ x.index = rd[r].index /\ x.floor = rd[r].floor
        /\ x.owed = rd[r].owed
    BY <1>1 DEF Record
  <2> HIDE DEF x
  <2>4. r \in Readers => Knows(rd[r], d)
    BY DEF SeenInv, Reading
  <2>5. r \in Readers => Knows(x, d)
    BY <2>3, <2>4 DEF Knows
  <2> QED BY <1>1, <2>2, <2>5, CallerSeen
<1> QED BY <1>2, <1>3

(* What readers rely on survives where nothing that answered stops answering.  *)
LEMMA ReadingStays ==
  ASSUME TypeInv, NEW d \in Own, Reading(d), rows' = rows,
         \A r \in Readers : rd'[r] = rd[r] \/ rd'[r] = Idle,
         acked[d] <= acked'[d], acked'[d] \in Nat,
         \A i \in Indexes : d \in missed'[i] => d \in missed[i],
         \A i \in Indexes, lo \in Nat :
           lo <= acked[d] /\ d \notin missed[i] /\ Seen(i, d, lo) => Seen(i, d, lo)',
         flag /\ ~flag' =>
           \A i \in Indexes, lo \in Nat :
             lo <= acked[d] /\ d \notin missed[i] => Seen(i, d, lo)'
  PROVE  Reading(d)'
<1>1. d \in Docs /\ acked[d] \in Nat
  BY VersionFacts DEF TypeInv, DataOK, Own
<1>2. ASSUME NEW r \in Readers PROVE Knows(rd[r], d)'
  <2>1. rd[r].floor[d] \in Nat /\ rd[r].floor[d] <= acked[d]
    BY <1>1, FloorFacts DEF TypeInv, Reading, Knows
  <2>2. CASE rd'[r] = Idle
    <3>1. Idle.floor[d] = 0 /\ Idle.owed = {}
      BY <1>1 DEF Idle
    <3> QED BY <2>2, <3>1 DEF Knows
  <2>3. CASE rd'[r] = rd[r]
    <3>1. rd[r].floor[d] <= acked'[d]
      BY <1>1, <2>1
    <3>2. Knows(rd[r], d)
      BY DEF Reading
    <3> QED BY <2>1, <2>3, <3>1, <3>2 DEF Knows
  <2> QED BY <2>2, <2>3
<1> QED BY <1>2 DEF Reading

(* A generation replaces the one of the index i: what finish_rebuild leaves    *)
(* behind, before the searcher is published.                                   *)
LEMMA FinishBuildSeen ==
  ASSUME TypeInv, NEW d \in Own, SeenInv(d), NEW r \in Builders,
         FinishBuild(r), NEW i \in Indexes, i = rd[r].index
  PROVE  SeenInv(d)'
<1>1. /\ up /\ phase = Ready /\ d \in Docs
      /\ UNCHANGED <<db, marker, up, published>>
  BY DEF FinishBuild, Free, Own
<1>2. CASE build[i] = None
  <2>1. Fails(r) /\ UNCHANGED <<disk, live, work, pending, build, flag, phase, missed>>
    BY <1>2 DEF FinishBuild
  <2> QED BY <1>1, <2>1, FailsSeen DEF files, table
<1>3. CASE build[i] # None
  <2> USE DEF db
  <2> DEFINE new == build[i]
             old == missed[i] \cup Lacking(new) \cup DOMAIN pending[i]
  <2>1. /\ disk' = [disk EXCEPT ![i] = new]
        /\ work' = [work EXCEPT ![i] = new]
        /\ live' = live \cup {i}
        /\ pending' = [pending EXCEPT ![i] = NoUpdate]
        /\ flag' = (flag /\ \E j \in Indexes : pending'[j] # NoUpdate)
        /\ missed' = [missed EXCEPT ![i] = old]
        /\ rd' = [o \in Builders |-> [rd[o] EXCEPT
               !.pc = IF o = r THEN "finishing" ELSE @,
               !.owed = IF rd[o].index = i THEN @ \ missed'[i] ELSE @]]
        /\ phase' = [at |-> "finishing", index |-> i, caller |-> r]
    BY <1>3 DEF FinishBuild, Discard
  <2>2. /\ d \in old <=> d \in missed[i] \/ ~Answers(new, d) \/ d \in DOMAIN pending[i]
    BY <1>1, LackingFacts
  <2> HIDE DEF new, old
  <2>3. phase'.at = "finishing"
    BY <2>1
  <2>4. /\ \A j \in Indexes : disk'[j] = IF j = i THEN new ELSE disk[j]
        /\ \A j \in Indexes : work'[j] = IF j = i THEN new ELSE work[j]
        /\ \A j \in Indexes : pending'[j] = IF j = i THEN NoUpdate ELSE pending[j]
        /\ \A j \in Indexes : missed'[j] = IF j = i THEN old ELSE missed[j]
    BY <2>1 DEF TypeInv, DataOK
  <2>5. d \notin DOMAIN NoUpdate
    BY NoUpdateFacts
  <2>6. ASSUME NEW j \in Indexes, j # i, j \in live
        PROVE  Applied(j, d)' /\ Shown(j, d)'
    <3>1. Applied(j, d) /\ Shown(j, d)
      BY <1>1, <2>6 DEF SeenInv, Served
    <3> QED BY <1>1, <2>4, <2>6, <3>1 DEF Applied, Shown, Answers
  <2>7. Applied(i, d)'
    BY <1>1, <2>2, <2>4, <2>5 DEF Applied, Answers
  <2>8. published[i] # None /\ d \notin old => Answers(published[i], d)
    <3>1. i \in live => Shown(i, d)
      BY <1>1 DEF SeenInv, Served
    <3>2. i \notin live => published[i] = None
      BY <1>1 DEF SeenInv, Served
    <3> QED BY <2>2, <3>1, <3>2 DEF Shown
  <2>9. Shown(i, d)'
    BY <1>1, <2>4, <2>8 DEF Shown, Answers
  <2>10. \A j \in Indexes : Committed(j)'
    BY <2>3 DEF Committed
  <2>11. Served(d)'
    <3>1. \A j \in Indexes : j \notin live' => j # i /\ j \notin live
      BY <2>1
    <3>2. \A j \in Indexes : j \notin live => marker[j] /\ published[j] = None
      BY <1>1 DEF SeenInv, Served
    <3>3. \A j \in Indexes : j \in live' => j = i \/ (j # i /\ j \in live)
      BY <2>1
    <3> QED BY <1>1, <2>6, <2>7, <2>9, <2>10, <3>1, <3>2, <3>3 DEF Served
  <2>12. Trusted(d)'
    BY <1>1 DEF Trusted
  <2>13. \A j, lo : Seen(j, d, lo) <=> Seen(j, d, lo)'
    BY <1>1 DEF Seen
  <2>14. ASSUME NEW o \in Readers PROVE Knows(rd[o], d)'
    <3> DEFINE j == rd[o].index
               lo == rd[o].floor[d]
               place == IF o = r THEN "finishing" ELSE rd[o].pc
               owed == IF j = i THEN rd[o].owed \ old ELSE rd[o].owed
               x == [rd[o] EXCEPT !.pc = place, !.owed = owed]
    <3>1. rd[o] \in Record /\ lo \in Nat /\ o \in Builders
      BY <1>1, FloorFacts DEF TypeInv
    <3>2. missed'[i] = old
      BY <2>4
    <3>3. rd'[o] = x
      BY <2>1, <3>1, <3>2
    <3>4. x.pc = place /\ x.owed = owed /\ x.index = j /\ x.floor = rd[o].floor /\ x.got = rd[o].got
      BY <3>1 DEF Record
    <3>5. place = "finishing" \/ place = rd[o].pc
      OBVIOUS
    <3>6. d \in owed => d \in rd[o].owed /\ (j = i => d \notin old)
      OBVIOUS
    <3>7. lo = rd[o].floor[d] /\ j = rd[o].index
      OBVIOUS
    <3> HIDE DEF x, owed, place, j, lo
    <3>8. Knows(rd[o], d)
      BY DEF SeenInv, Reading
    <3>9. d \in owed => j \in Indexes /\ d \notin missed'[j]
      BY <2>4, <3>6, <3>7, <3>8 DEF Knows
    <3>10. ASSUME d \in owed, place = "check", ~flag' PROVE Seen(j, d, lo)
      <4>0. rd[o].pc = "check" /\ d \in rd[o].owed /\ j \in Indexes /\ lo <= acked[d]
        BY <3>5, <3>6, <3>7, <3>8, <3>10 DEF Knows
      <4>1. CASE ~flag
        BY <3>7, <3>8, <4>0, <4>1 DEF Knows
      <4>2. CASE flag
        <5>1. pending'[j] = NoUpdate
          BY <2>1, <3>10, <4>0, <4>2
        <5>2. published[j] # None => Answers(published[j], d)
          <6>1. CASE j = i
            BY <2>8, <3>6, <3>10, <6>1
          <6>2. CASE j # i
            <7>1. d \notin DOMAIN pending[j] /\ d \notin missed[j]
              BY <2>4, <2>5, <3>9, <3>10, <4>0, <5>1, <6>2
            <7>2. (j \in live => Shown(j, d)) /\ (j \notin live => published[j] = None)
              BY <1>1, <4>0 DEF SeenInv, Served
            <7> QED BY <7>1, <7>2 DEF Shown
          <6> QED BY <6>1, <6>2
        <5> QED BY <1>1, <3>1, <4>0, <5>2, BetweenFacts DEF Seen, TypeInv
      <4> QED BY <4>1, <4>2
    <3>11. d \in owed /\ place = "lookup" => Seen(j, d, lo)
      BY <3>5, <3>6, <3>7, <3>8 DEF Knows
    <3>12. d \in owed /\ place = "got" => Between(rd[o].got, d, lo, rows[d])
      BY <3>5, <3>6, <3>7, <3>8 DEF Knows
    <3>13. lo <= acked[d]
      BY <3>7, <3>8 DEF Knows
    <3> QED
      BY <1>1, <2>13, <3>3, <3>4, <3>7, <3>9, <3>10, <3>11, <3>12, <3>13 DEF Knows
  <2> QED BY <2>11, <2>12, <2>14 DEF SeenInv, Reading
<1> QED BY <1>2, <1>3

LEMMA PublishBuildSeen ==
  ASSUME TypeInv, NEW d \in Own, SeenInv(d), PublishBuild,
         NEW i \in Indexes, i = phase.index, NEW r \in Builders, r = phase.caller
  PROVE  SeenInv(d)'
<1> USE DEF db, memory
<1> DEFINE x == IF r = Admin THEN Idle
                ELSE [rd[r] EXCEPT !.pc = "check", !.pid = run, !.again = TRUE]
           new == disk[i]
<1>1. /\ up /\ phase.at = "finishing" /\ phase' = Ready /\ d \in Docs
      /\ published' = [published EXCEPT ![i] = new]
      /\ marker' = [marker EXCEPT ![i] = FALSE]
      /\ rd' = [rd EXCEPT ![r] = x]
      /\ missed' = [missed EXCEPT ![i] = Lacking(new)]
      /\ UNCHANGED <<db, disk, memory, flag, faults>>
  BY DEF PublishBuild, Own
<1>2. /\ i \in live /\ pending[i] = NoUpdate
      /\ rd[r].pc = "finishing" /\ rd[r].index = i /\ rd[r] \in Record
  BY <1>1 DEF TypeInv, PhaseOK, DataOK
<1>3. r = Admin => x = Idle
  OBVIOUS
<1>4. r # Admin => /\ x.pc = "check" /\ x.index = i /\ x.floor = rd[r].floor
                   /\ x.owed = rd[r].owed
  BY <1>2 DEF Record
<1>5. d \in Lacking(new) <=> ~Answers(new, d)
  BY <1>1, LackingFacts
<1>6. Applied(i, d) /\ new = disk[i]
  BY <1>1, <1>2 DEF SeenInv, Served
<1> HIDE DEF x, new
<1>7. /\ \A j \in Indexes : published'[j] = IF j = i THEN new ELSE published[j]
      /\ \A j \in Indexes : marker'[j] = IF j = i THEN FALSE ELSE marker[j]
      /\ \A b \in Builders : rd'[b] = IF b = r THEN x ELSE rd[b]
      /\ \A j \in Indexes : missed'[j] = IF j = i THEN Lacking(new) ELSE missed[j]
  BY <1>1 DEF TypeInv, DataOK
<1>8. d \notin DOMAIN pending[i]
  BY <1>2, NoUpdateFacts
<1>9. d \notin missed[i] => Answers(new, d)
  BY <1>6, <1>8 DEF Applied
<1>10. \A j \in Indexes : d \in missed'[j] => d \in missed[j]
  BY <1>5, <1>7, <1>9
<1>11. Applied(i, d)' /\ Shown(i, d)'
  BY <1>1, <1>5, <1>6, <1>7, <1>8 DEF Applied, Shown, Answers
<1>12. Served(d)'
  <2>1. ASSUME NEW j \in Indexes, j # i, j \in live PROVE Applied(j, d)' /\ Shown(j, d)'
    <3>1. Applied(j, d) /\ Shown(j, d)
      BY <1>1, <2>1 DEF SeenInv, Served
    <3> QED BY <1>1, <1>7, <2>1, <3>1 DEF Applied, Shown, Answers
  <2>2. \A j \in Indexes : Committed(j)'
    BY <1>1 DEF Committed, Ready
  <2>3. \A j \in Indexes : j \notin live => j # i /\ marker[j] /\ published[j] = None
    BY <1>1, <1>2 DEF SeenInv, Served
  <2> QED BY <1>1, <1>7, <1>11, <2>1, <2>2, <2>3 DEF Served
<1>13. Trusted(d)'
  BY <1>1 DEF Trusted
<1>14. \A lo \in Nat : lo <= acked[d] /\ d \notin missed[i] => Seen(i, d, lo)'
  <2>1. \A lo \in Nat : lo <= acked[d] /\ d \notin missed[i] => Between(new, d, lo, rows[d])
    BY <1>1, <1>9, BetweenFacts DEF TypeInv
  <2> QED BY <1>1, <1>7, <2>1 DEF Seen
<1>15. \A j \in Indexes, lo \in Nat :
         lo <= acked[d] /\ d \notin missed[j] /\ Seen(j, d, lo) => Seen(j, d, lo)'
  <2>1. \A j \in Indexes : \A lo : j # i /\ Seen(j, d, lo) => Seen(j, d, lo)'
    BY <1>1, <1>7 DEF Seen
  <2> QED BY <1>14, <2>1
<1>16. ASSUME NEW o \in Readers PROVE Knows(rd[o], d)'
  <2>1. rd[o].floor[d] \in Nat /\ o \in Builders /\ o # Admin
    BY <1>1, FloorFacts, SearchOwnerAssumption DEF TypeInv
  <2>2. Knows(rd[o], d)
    BY DEF SeenInv, Reading
  <2>3. CASE o = r
    <3>1. /\ rd'[o].pc = "check" /\ rd'[o].index = i /\ rd'[o].floor = rd[o].floor
          /\ rd'[o].owed = rd[o].owed /\ rd[o].index = i
      BY <1>2, <1>4, <1>7, <2>1, <2>3
    <3> QED BY <1>1, <1>10, <1>14, <2>1, <2>2, <3>1 DEF Knows
  <2>4. CASE o # r
    <3>1. rd'[o] = rd[o]
      BY <1>7, <2>1, <2>4
    <3> QED BY <1>1, <1>10, <1>15, <2>1, <2>2, <3>1 DEF Knows
  <2> QED BY <2>3, <2>4
<1> QED BY <1>12, <1>13, <1>16 DEF SeenInv, Reading

-------------------------------------------------------------------------------
(* What a search finds: steps of the owner.                                    *)

(* A new row makes nothing older than an answered write.                      *)
LEMMA CommitSeen ==
  ASSUME TypeInv, NEW d \in Own, SeenInv(d), NEW w \in Writers, NEW e \in Docs, Commit(w, e)
  PROVE  SeenInv(d)'
<1> USE DEF files, memory, table
<1>1. /\ rows' = [rows EXCEPT ![e] = @ + 1]
      /\ UNCHANGED <<acked, files, memory, phase, table, rd, faults>>
  BY DEF Commit
<1>2. /\ d \in Docs /\ rows[d] \in Nat /\ acked[d] \in Nat /\ acked[d] <= rows[d]
      /\ rows[e] \in Nat
  BY BetweenFacts, VersionFacts DEF TypeInv, DataOK, Own
<1>3. rows'[d] \in Nat /\ rows[d] <= rows'[d]
  BY <1>1, <1>2 DEF TypeInv, DataOK
<1>4. \A copies : \A lo \in Nat :
        Between(copies, d, lo, rows[d]) => Between(copies, d, lo, rows'[d])
  BY <1>2, <1>3, BetweenWider
<1>5. \A copies : Answers(copies, d) => Between(copies, d, acked[d], rows'[d])
  BY <1>2, <1>4 DEF Answers
<1>6. \A i \in Indexes : /\ Applied(i, d) => Applied(i, d)'
                         /\ Shown(i, d) => Shown(i, d)'
                         /\ Committed(i) => Committed(i)'
  <2>1. ASSUME NEW i \in Indexes, Applied(i, d) PROVE Applied(i, d)'
    <3>1. CASE d \in DOMAIN pending[i]
      BY <1>1, <1>2, <1>3, <2>1, <3>1 DEF Applied
    <3>2. CASE d \notin DOMAIN pending[i]
      BY <1>1, <1>5, <2>1, <3>2 DEF Applied, Answers
    <3> QED BY <3>1, <3>2
  <2>2. ASSUME NEW i \in Indexes, Shown(i, d) PROVE Shown(i, d)'
    BY <1>1, <1>5, <2>2 DEF Shown, Answers
  <2>3. \A i \in Indexes : Committed(i) => Committed(i)'
    BY <1>1 DEF Committed, Staged
  <2> QED BY <2>1, <2>2, <2>3
<1>7. Served(d)'
  BY <1>1, <1>6 DEF SeenInv, Served
<1>8. Trusted(d)'
  BY <1>1, <1>5 DEF SeenInv, Trusted, Answers
<1>9. ASSUME NEW r \in Readers PROVE Knows(rd[r], d)'
  <2>1. rd[r].floor[d] \in Nat
    BY <1>2, FloorFacts DEF TypeInv
  <2>2. \A i : Seen(i, d, rd[r].floor[d]) => Seen(i, d, rd[r].floor[d])'
    BY <1>1, <1>4, <2>1 DEF Seen
  <2>3. Knows(rd[r], d)
    BY DEF SeenInv, Reading
  <2> QED BY <1>1, <1>4, <2>1, <2>2, <2>3 DEF Knows
<1> QED BY <1>7, <1>8, <1>9 DEF SeenInv, Reading

(* The newest update u of its document is staged in the index i.               *)
LEMMA StagedIn ==
  ASSUME TypeInv, NEW d \in Own, NEW i \in Indexes, Applied(i, d), Shown(i, d),
         NEW u \in Docs \X Versions, u[2] = rows[u[1]],
         UNCHANGED <<rows, disk>>, published'[i] = published[i],
         acked'[d] \in Nat, acked'[d] <= rows[d], d # u[1] => acked'[d] = acked[d],
         missed'[i] = missed[i] \ {u[1]},
         work'[i] = Replace(work[i], u[1], u[2]), pending'[i] = Added(pending[i], u)
  PROVE  Applied(i, d)' /\ Shown(i, d)'
<1>1. /\ DOMAIN pending'[i] = DOMAIN pending[i] \cup {u[1]}
      /\ pending'[i][u[1]] = u[2]
      /\ \A e \in DOMAIN pending[i] : e # u[1] => pending'[i][e] = pending[i][e]
  <2>1. pending[i] \in Updates
    BY DEF TypeInv, DataOK
  <2>2. /\ DOMAIN Added(pending[i], u) = DOMAIN pending[i] \cup {u[1]}
        /\ Added(pending[i], u)[u[1]] = u[2]
        /\ \A e \in DOMAIN pending[i] : e # u[1] => Added(pending[i], u)[e] = pending[i][e]
    BY <2>1, AddedFacts
  <2> QED BY <2>2
<1>2. /\ u[1] = d => Fits(Of(work'[i], d), d, u[2])
      /\ u[1] # d => Of(work'[i], d) = Of(work[i], d)
  <2>1. u[1] \in Docs
    OBVIOUS
  <2> QED BY <2>1, OfReplace
<1>3. rows[d] \in Nat
  BY BetweenFacts DEF TypeInv, Own
<1>4. CASE d = u[1]
  <2>1. d \in DOMAIN pending'[i] /\ pending'[i][d] = rows[d]
    BY <1>1, <1>4
  <2>2. Fits(Of(work'[i], d), d, pending'[i][d])
    BY <1>2, <1>4, <2>1
  <2>3. pending'[i][d] \in acked'[d]..rows'[d]
    BY <1>3, <2>1
  <2>4. Fits(Of(work[i], d), d, pending[i][d])'
    BY <2>2 DEF Fits
  <2> QED BY <2>1, <2>3, <2>4 DEF Applied, Shown
<1>5. CASE d # u[1]
  <2>1. /\ d \in DOMAIN pending'[i] <=> d \in DOMAIN pending[i]
        /\ d \in DOMAIN pending[i] => pending'[i][d] = pending[i][d]
        /\ d \in missed'[i] <=> d \in missed[i]
    BY <1>1, <1>5
  <2>2. Of(work'[i], d) = Of(work[i], d)
    BY <1>2, <1>5
  <2>3. Shown(i, d)'
    BY <1>5, <2>1 DEF Shown, Answers
  <2>4. CASE d \in DOMAIN pending[i]
    BY <1>5, <2>1, <2>2, <2>3, <2>4 DEF Applied
  <2>5. CASE d \notin DOMAIN pending[i]
    BY <1>5, <2>1, <2>2, <2>3, <2>5 DEF Applied, Answers
  <2> QED BY <2>4, <2>5
<1> QED BY <1>4, <1>5

(* The update is staged in every built index, and the write answered.         *)
LEMMA RefreshSeen ==
  ASSUME TypeInv, NEW d \in Own, SeenInv(d),
         NEW w \in Writers, NEW full \in BOOLEAN, Refresh(w, full),
         NEW u \in Docs \X Versions, u = hand[w]
  PROVE  SeenInv(d)'
<1>1. /\ up /\ phase = Ready /\ u[2] = rows[u[1]] /\ d \in Docs
      /\ UNCHANGED <<rows, disk, up, run, live, build, published, rd, faults>>
      /\ acked' = [acked EXCEPT ![u[1]] = u[2]]
      /\ phase' = IF full /\ live # {} THEN [Ready EXCEPT !.at = "publishing"] ELSE Ready
      /\ missed' = Remedied(live, u[1])
  BY DEF Refresh, TypeInv, DataOK, HandOK, Free, Own
<1>2. /\ \A i \in Indexes : work'[i] = IF i \in live THEN Replace(work[i], u[1], u[2])
                                       ELSE work[i]
      /\ \A i \in Indexes : pending'[i] = IF i \in live THEN Added(pending[i], u)
                                          ELSE pending[i]
      /\ \A i \in Indexes : marker'[i] =
                              (marker[i] \/ (i \in live /\ pending[i] = NoUpdate))
      /\ flag' = (flag \/ live # {})
  BY DEF Refresh, Stage, Schedule, Added
<1>3. live \subseteq Indexes /\ phase'.at \in {"ready", "publishing"}
  BY <1>1 DEF TypeInv, DataOK, Ready
<1>4. /\ rows[d] \in Nat /\ acked[d] \in Nat /\ acked[d] <= rows[d]
      /\ acked'[d] = IF d = u[1] THEN rows[d] ELSE acked[d]
  BY <1>1, BetweenFacts DEF TypeInv, DataOK
<1>5. \A i \in Indexes : missed'[i] = IF i \in live THEN missed[i] \ {u[1]} ELSE missed[i]
  BY <1>1 DEF Remedied
<1>6. ASSUME NEW i \in live
      PROVE  Applied(i, d)' /\ Shown(i, d)'
  <2>1. Applied(i, d) /\ Shown(i, d) /\ i \in Indexes
    BY <1>1, <1>3 DEF SeenInv, Served
  <2>2. /\ work'[i] = Replace(work[i], u[1], u[2]) /\ pending'[i] = Added(pending[i], u)
        /\ missed'[i] = missed[i] \ {u[1]}
    BY <1>2, <1>5, <2>1
  <2>3. acked'[d] \in Nat /\ acked'[d] <= rows[d] /\ (d # u[1] => acked'[d] = acked[d])
    BY <1>4
  <2> QED BY <1>1, <2>1, <2>2, <2>3, StagedIn
<1>7. Served(d)'
  <2>1. \A i \in Indexes : Committed(i)'
    BY <1>3 DEF Committed
  <2>2. \A i \in Indexes : i \notin live => marker'[i] /\ published'[i] = None
    BY <1>1, <1>2 DEF SeenInv, Served
  <2> QED BY <1>1, <1>6, <2>1, <2>2 DEF Served
<1>8. Trusted(d)'
  BY <1>1 DEF Trusted
<1>9. Reading(d)'
  <2>1. \A i \in Indexes, lo \in Nat : Seen(i, d, lo) => Seen(i, d, lo)'
    BY <1>1 DEF Seen
  <2>2. acked[d] <= acked'[d] /\ acked'[d] \in Nat /\ rd' = rd /\ rows' = rows
    BY <1>1, <1>4
  <2>3. flag => flag'
    BY <1>2
  <2>4. \A i \in Indexes : d \in missed'[i] => d \in missed[i]
    BY <1>5
  <2> QED BY <2>1, <2>2, <2>3, <2>4, ReadingStays DEF SeenInv
<1> QED BY <1>7, <1>8, <1>9 DEF SeenInv

(* It is staged in the indexes S; the next one is rolled back or stops serving. *)
LEMMA RefreshFailsSeen ==
  ASSUME TypeInv, NEW d \in Own, SeenInv(d),
         NEW w \in Writers, NEW n \in 0..Len(IndexOrder), n < Len(IndexOrder),
         NEW restored \in BOOLEAN, RefreshFails(w, n, restored),
         NEW u \in Docs \X Versions, u = hand[w],
         NEW S \in SUBSET Indexes, S = First(n)
  PROVE  SeenInv(d)'
<1> DEFINE i == IndexOrder[n + 1]
<1>1. /\ up /\ phase = Ready /\ u[2] = rows[u[1]] /\ d \in Docs
      /\ UNCHANGED <<rows, acked, disk, up, run, build, phase, rd>>
      /\ i \in live
      /\ pending[i] = NoUpdate => restored
      /\ missed' = Remedied(S, u[1])
  BY DEF RefreshFails, TypeInv, DataOK, HandOK, Free, Own
<1>2. /\ \A j \in Indexes : work'[j] = IF j \in S THEN Replace(work[j], u[1], u[2])
                                       ELSE work[j]
      /\ \A j \in Indexes : pending'[j] =
                              IF j \in S THEN Added(pending[j], u)
                              ELSE IF j = i /\ ~restored THEN NoUpdate ELSE pending[j]
      /\ \A j \in Indexes : marker'[j] = (marker[j] \/ j \in S)
      /\ flag' = (\E j \in Indexes : pending'[j] # NoUpdate)
  BY DEF RefreshFails, Added
<1>3. S \subseteq live /\ i \in Indexes \ S /\ live \subseteq Indexes
  BY FirstFacts DEF TypeInv, DataOK
<1>4. /\ live' = IF restored THEN live ELSE live \ {i}
      /\ \A j \in Indexes : published'[j] = IF j = i /\ ~restored THEN None
                                            ELSE published[j]
  <2>1. CASE restored
    BY <2>1 DEF RefreshFails
  <2>2. CASE ~restored
    BY <2>2 DEF RefreshFails, Invalidate, TypeInv, DataOK
  <2> QED BY <2>1, <2>2
<1>5. \A j \in Indexes : missed'[j] = IF j \in S THEN missed[j] \ {u[1]} ELSE missed[j]
  BY <1>1 DEF Remedied
<1> HIDE DEF i
<1>6. \A j \in Indexes : j \in live => Applied(j, d) /\ Shown(j, d)
  BY <1>1 DEF SeenInv, Served
<1>7. acked'[d] \in Nat /\ acked'[d] <= rows[d] /\ acked'[d] = acked[d]
  BY <1>1, BetweenFacts DEF TypeInv
<1>8. ASSUME NEW j \in S
      PROVE  Applied(j, d)' /\ Shown(j, d)' /\ j \in live'
  <2>1. Applied(j, d) /\ Shown(j, d) /\ j \in Indexes /\ j # i /\ j \in live
    BY <1>3, <1>6
  <2>2. /\ work'[j] = Replace(work[j], u[1], u[2]) /\ pending'[j] = Added(pending[j], u)
        /\ published'[j] = published[j] /\ j \in live' /\ missed'[j] = missed[j] \ {u[1]}
    BY <1>2, <1>4, <1>5, <2>1
  <2> QED BY <1>1, <1>7, <2>1, <2>2, StagedIn
<1>9. ASSUME NEW j \in Indexes \ S, j # i
      PROVE  /\ j \in live => Applied(j, d)' /\ Shown(j, d)'
             /\ j \in live <=> j \in live'
  <2>1. /\ work'[j] = work[j] /\ pending'[j] = pending[j] /\ published'[j] = published[j]
        /\ j \in live <=> j \in live'
        /\ missed'[j] = missed[j]
    BY <1>2, <1>4, <1>5, <1>9
  <2>2. j \in live => Applied(j, d)' /\ Shown(j, d)'
    BY <1>1, <1>6, <2>1 DEF Applied, Shown, Answers
  <2> QED BY <2>1, <2>2
<1>10. /\ restored => Applied(i, d)' /\ Shown(i, d)' /\ i \in live'
       /\ ~restored => marker'[i] /\ published'[i] = None /\ i \notin live'
  <2>1. Applied(i, d) /\ Shown(i, d) /\ i \in Indexes /\ missed'[i] = missed[i]
    BY <1>1, <1>3, <1>5, <1>6
  <2>2. CASE restored
    <3>1. /\ work'[i] = work[i] /\ pending'[i] = pending[i]
          /\ published'[i] = published[i] /\ i \in live'
      BY <1>1, <1>2, <1>3, <1>4, <2>2
    <3>2. Applied(i, d)' /\ Shown(i, d)'
      BY <1>1, <2>1, <3>1 DEF Applied, Shown, Answers
    <3> QED BY <2>2, <3>1, <3>2
  <2>3. CASE ~restored
    <3>1. i \in Staged
      BY <1>1, <2>1, <2>3 DEF Staged
    <3>2. marker[i]
      BY <1>1, <3>1 DEF TypeInv, StagingOK, Ready
    <3> QED BY <1>2, <1>4, <2>1, <2>3, <3>2
  <2> QED BY <2>2, <2>3
<1>11. Served(d)'
  <2>1. \A j \in Indexes : Committed(j)'
    BY <1>1 DEF Committed, Ready
  <2>2. ASSUME NEW j \in Indexes \ S, j # i, j \notin live
        PROVE  marker'[j] /\ published'[j] = None
    BY <1>1, <1>2, <1>4, <2>2 DEF SeenInv, Served
  <2> QED BY <1>1, <1>8, <1>9, <1>10, <2>1, <2>2 DEF Served
<1>12. Trusted(d)'
  BY <1>1 DEF Trusted
<1>13. \A j \in Indexes : d \in missed'[j] => d \in missed[j]
  BY <1>5
<1>14. \A j \in Indexes, lo \in Nat : Seen(j, d, lo) => Seen(j, d, lo)'
  BY <1>1, <1>4 DEF Seen
<1>15. ASSUME flag, ~flag', NEW j \in Indexes, NEW lo \in Nat, lo <= acked[d],
              d \notin missed[j]
       PROVE  Seen(j, d, lo)'
  <2>1. \A k \in Indexes : pending'[k] = NoUpdate
    BY <1>2, <1>15
  <2>2. d \notin DOMAIN pending'[j] /\ d \notin missed'[j]
    BY <1>13, <1>15, <2>1, NoUpdateFacts
  <2>3. published'[j] # None => Answers(published[j], d) /\ published'[j] = published[j]
    <3>1. CASE j \in live'
      <4>1. Shown(j, d)'
        BY <1>8, <1>9, <1>10, <3>1
      <4> QED BY <1>1, <1>4, <2>2, <4>1 DEF Shown, Answers
    <3>2. CASE j \notin live'
      BY <1>11, <1>1, <3>2 DEF Served
    <3> QED BY <3>1, <3>2
  <2> QED BY <1>1, <1>15, <2>3, BetweenFacts DEF Seen, TypeInv
<1>16. Reading(d)'
  <2>1. acked[d] <= acked'[d] /\ acked'[d] \in Nat /\ rd' = rd /\ rows' = rows
    BY <1>1, <1>7, BetweenFacts DEF TypeInv
  <2> QED BY <1>13, <1>14, <1>15, <2>1, ReadingStays DEF SeenInv
<1> QED BY <1>11, <1>12, <1>16 DEF SeenInv

(* A publish begins.                                                          *)
LEMMA TimerFiresSeen ==
  ASSUME TypeInv, NEW d \in Own, SeenInv(d), TimerFires
  PROVE  SeenInv(d)'
<1>1. /\ phase = Ready
      /\ phase' = phase \/ phase'.at = "publishing"
      /\ UNCHANGED <<db, files, up, live, work, pending, table, rd>>
  BY DEF TimerFires, Free, Ready
<1>2. /\ Admin \in Builders /\ Admin \notin Readers /\ rd[Admin] \in Record
      /\ rd' = [rd EXCEPT ![Admin] = rd[Admin]]
  BY <1>1, SearchOwnerAssumption DEF Builders, TypeInv, DataOK
<1> QED BY <1>1, <1>2, CallerSeen

(* The group that is being published.                                          *)
LEMMA GroupFacts ==
  ASSUME TypeInv, NEW d \in Own, Served(d), up
  PROVE  /\ phase.at # "unflagging" =>
              \A i \in Staged : i \in live /\ marker[i] /\ i \in Indexes
         /\ \A i \in live : /\ Applied(i, d) /\ Shown(i, d) /\ i \in Indexes
                            /\ d \notin missed[i] => Answers(work[i], d)
         /\ \A i \in Indexes : i \notin Staged => d \notin DOMAIN pending[i]
<1>1. phase.at # "unflagging" => \A i \in Staged : i \in live /\ marker[i] /\ i \in Indexes
  BY DEF TypeInv, StagingOK, Staged
<1>2. \A i \in live : Applied(i, d) /\ Shown(i, d) /\ i \in Indexes
  BY DEF Served, TypeInv, DataOK
<1>3. \A i \in live : d \notin missed[i] => Answers(work[i], d)
  BY <1>2, WorkAnswers
<1>4. \A i \in Indexes : i \notin Staged => d \notin DOMAIN pending[i]
  BY NoUpdateFacts DEF Staged
<1> QED BY <1>1, <1>2, <1>3, <1>4

(* What the writers hold becomes what is stored and shown.                    *)
LEMMA PublishIndexesSeen ==
  ASSUME TypeInv, NEW d \in Own, SeenInv(d), PublishIndexes
  PROVE  SeenInv(d)'
<1> USE DEF db
<1>1. /\ up /\ phase.at = "publishing" /\ phase'.at = "unflagging" /\ d \in Docs
      /\ UNCHANGED <<db, up, live, work, pending, flag, rd, missed>>
  BY DEF PublishIndexes, TypeInv, DataOK, Own
<1>2. /\ \A i \in Indexes : disk'[i] = IF i \in Staged THEN work[i] ELSE disk[i]
      /\ \A i \in Indexes : published'[i] = IF i \in Staged THEN work[i] ELSE published[i]
      /\ \A i \in Indexes : i \notin Staged => (marker'[i] <=> marker[i])
  BY DEF PublishIndexes
<1>3. /\ \A i \in Staged : i \in live /\ marker[i] /\ i \in Indexes
      /\ \A i \in live : /\ Applied(i, d) /\ Shown(i, d) /\ i \in Indexes
                         /\ d \notin missed[i] => Answers(work[i], d)
      /\ \A i \in Indexes : i \notin Staged => d \notin DOMAIN pending[i]
  BY <1>1, GroupFacts DEF SeenInv
<1>4. ASSUME NEW i \in live
      PROVE  Applied(i, d)' /\ Shown(i, d)' /\ Committed(i)'
  <2>1. d \notin missed[i] => Answers(work[i], d)'
    BY <1>1, <1>3 DEF Answers
  <2>2. Applied(i, d)'
    BY <1>1, <1>2, <1>3, <2>1 DEF Applied, Answers
  <2>3. Shown(i, d)'
    BY <1>1, <1>2, <1>3, <2>1 DEF Shown, Answers
  <2>4. Committed(i)'
    BY <1>1, <1>2, <1>3 DEF Committed, Staged
  <2> QED BY <2>2, <2>3, <2>4
<1>5. Served(d)'
  <2>1. ASSUME NEW i \in Indexes, i \notin live PROVE marker'[i] /\ published'[i] = None
    BY <1>1, <1>2, <1>3, <2>1 DEF SeenInv, Served
  <2> QED BY <1>1, <1>4, <2>1 DEF Served
<1>6. Trusted(d)'
  BY <1>1 DEF Trusted
<1>7. \A i \in Indexes, lo \in Nat :
        lo <= acked[d] /\ d \notin missed[i] /\ Seen(i, d, lo) => Seen(i, d, lo)'
  <2>1. \A i \in live : \A lo \in Nat :
          lo <= acked[d] /\ d \notin missed[i] => Between(work[i], d, lo, rows[d])
    BY <1>1, <1>3, BetweenFacts DEF TypeInv
  <2> QED BY <1>1, <1>2, <1>3, <2>1 DEF Seen
<1>8. Reading(d)'
  <2>1. acked[d] <= acked'[d] /\ acked'[d] \in Nat
    BY <1>1, BetweenFacts DEF TypeInv
  <2> QED BY <1>1, <1>7, <2>1, ReadingStays DEF SeenInv
<1> QED BY <1>5, <1>6, <1>8 DEF SeenInv

(* As above but for one index, which stops serving.                           *)
LEMMA PublishFailsSeen ==
  ASSUME TypeInv, NEW d \in Own, SeenInv(d), NEW bad \in Indexes,
         NEW seen \in BOOLEAN, PublishFails(bad, seen)
  PROVE  SeenInv(d)'
<1> USE DEF db
<1>1. /\ up /\ phase.at = "publishing" /\ phase'.at = "unflagging" /\ d \in Docs
      /\ UNCHANGED <<db, up, pending, flag, rd, missed>>
      /\ live' = live \ {bad} /\ bad \in Staged
  BY DEF PublishFails, TypeInv, DataOK, Own
<1>2. /\ \A i \in Indexes : i # bad => work'[i] = work[i]
      /\ \A i \in Indexes : i # bad =>
           disk'[i] = IF i \in Staged THEN work[i] ELSE disk[i]
      /\ \A i \in Indexes : i # bad =>
           published'[i] = IF i \in Staged THEN work[i] ELSE published[i]
      /\ published'[bad] = None
      /\ \A i \in Indexes : i \notin Staged \/ i = bad => (marker'[i] <=> marker[i])
  BY DEF PublishFails, TypeInv, DataOK
<1>3. /\ \A i \in Staged : i \in live /\ marker[i] /\ i \in Indexes
      /\ \A i \in live : /\ Applied(i, d) /\ Shown(i, d) /\ i \in Indexes
                         /\ d \notin missed[i] => Answers(work[i], d)
      /\ \A i \in Indexes : i \notin Staged => d \notin DOMAIN pending[i]
  BY <1>1, GroupFacts DEF SeenInv
<1>4. ASSUME NEW i \in live, i # bad
      PROVE  Applied(i, d)' /\ Shown(i, d)' /\ Committed(i)'
  <2>1. d \notin missed[i] => Answers(work[i], d)'
    BY <1>1, <1>2, <1>3, <1>4 DEF Answers
  <2>2. Applied(i, d)'
    BY <1>1, <1>2, <1>3, <1>4, <2>1 DEF Applied, Answers
  <2>3. Shown(i, d)'
    BY <1>1, <1>2, <1>3, <1>4, <2>1 DEF Shown, Answers
  <2>4. Committed(i)'
    BY <1>1, <1>2, <1>3, <1>4 DEF Committed, Staged
  <2> QED BY <2>2, <2>3, <2>4
<1>5. marker'[bad] /\ published'[bad] = None /\ bad \notin live'
  BY <1>1, <1>2, <1>3
<1>6. Served(d)'
  <2>1. ASSUME NEW i \in Indexes, i \notin live PROVE marker'[i] /\ published'[i] = None
    BY <1>1, <1>2, <1>3, <2>1 DEF SeenInv, Served
  <2> QED BY <1>1, <1>4, <1>5, <2>1 DEF Served
<1>7. Trusted(d)'
  BY <1>1 DEF Trusted
<1>8. \A i \in Indexes, lo \in Nat :
        lo <= acked[d] /\ d \notin missed[i] /\ Seen(i, d, lo) => Seen(i, d, lo)'
  <2>1. \A i \in live : \A lo \in Nat :
          lo <= acked[d] /\ d \notin missed[i] => Between(work[i], d, lo, rows[d])
    BY <1>1, <1>3, BetweenFacts DEF TypeInv
  <2> QED BY <1>1, <1>2, <1>3, <2>1 DEF Seen
<1>9. Reading(d)'
  <2>1. acked[d] <= acked'[d] /\ acked'[d] \in Nat
    BY <1>1, BetweenFacts DEF TypeInv
  <2> QED BY <1>1, <1>8, <2>1, ReadingStays DEF SeenInv
<1> QED BY <1>6, <1>7, <1>9 DEF SeenInv

(* Nothing is staged any more: what is shown answers every reader.            *)
LEMMA ClearFlagSeen ==
  ASSUME TypeInv, NEW d \in Own, SeenInv(d), ClearFlag
  PROVE  SeenInv(d)'
<1> USE DEF db, files
<1>1. /\ up /\ phase.at = "unflagging" /\ phase' = Ready /\ d \in Docs
      /\ flag' = FALSE
      /\ UNCHANGED <<db, files, up, live, work, published, missed>>
      /\ \A i \in Indexes : pending'[i] = NoUpdate
  BY DEF ClearFlag, Own
<1>2. /\ \A i \in live : /\ Applied(i, d) /\ Shown(i, d) /\ i \in Indexes
                         /\ d \notin missed[i] => Answers(work[i], d)
      /\ \A i \in Indexes : i \notin Staged => d \notin DOMAIN pending[i]
  BY <1>1, GroupFacts DEF SeenInv
<1>3. \A i \in live : Committed(i)
  BY <1>1, <1>2 DEF SeenInv, Served
<1>4. d \notin DOMAIN NoUpdate
  BY NoUpdateFacts
<1>5. ASSUME NEW i \in live
      PROVE  /\ Of(work[i], d) = Of(disk[i], d)
             /\ d \notin missed[i] => Answers(disk[i], d)
             /\ published[i] # None /\ d \notin missed[i] => Answers(published[i], d)
  <2>1. CASE i \in Staged
    BY <1>1, <1>2, <1>3, <2>1 DEF Committed
  <2>2. CASE i \notin Staged
    BY <1>2, <1>3, <2>2 DEF Applied, Shown
  <2> QED BY <2>1, <2>2
<1>6. Served(d)'
  <2>1. ASSUME NEW i \in live PROVE Applied(i, d)' /\ Shown(i, d)'
    BY <1>1, <1>2, <1>4, <1>5 DEF Applied, Shown, Answers
  <2>2. \A i : Committed(i)'
    BY <1>1 DEF Committed, Ready
  <2>3. \A i \in Indexes : i \notin live => marker'[i] /\ published'[i] = None
    BY <1>1 DEF SeenInv, Served
  <2> QED BY <1>1, <2>1, <2>2, <2>3 DEF Served
<1>7. Trusted(d)'
  BY <1>1 DEF Trusted
<1>8. \A i \in Indexes, lo \in Nat : lo <= acked[d] /\ d \notin missed[i] => Seen(i, d, lo)'
  <2>1. \A i \in Indexes : published[i] # None /\ d \notin missed[i] => Answers(published[i], d)
    BY <1>1, <1>5 DEF SeenInv, Served
  <2>2. \A i \in Indexes : \A lo \in Nat :
          published[i] # None /\ d \notin missed[i] /\ lo <= acked[d] =>
            Between(published[i], d, lo, rows[d])
    BY <1>1, <2>1, BetweenFacts DEF TypeInv
  <2> QED BY <1>1, <2>2 DEF Seen
<1>9. \A b \in Builders :
         \/ rd'[b] = rd[b]
         \/ /\ rd'[b].pc = "lookup" /\ rd'[b].floor = rd[b].floor
            /\ rd'[b].index = rd[b].index /\ rd'[b].owed = rd[b].owed
  <2>1. CASE phase.caller = None
    BY <2>1 DEF ClearFlag
  <2>2. CASE phase.caller # None
    <3>1. /\ rd' = [rd EXCEPT ![phase.caller].pc = "lookup"]
          /\ phase.caller \in Builders
      BY <1>1, <2>2 DEF ClearFlag, TypeInv, PhaseOK, Builders
    <3>2. \A b \in Builders : rd[b] \in Record
      BY DEF TypeInv, DataOK
    <3> QED BY <3>1, <3>2 DEF TypeInv, DataOK, Record
  <2> QED BY <2>1, <2>2
<1>10. ASSUME NEW r \in Readers PROVE Knows(rd[r], d)'
  <2>1. r \in Builders /\ rd[r].floor[d] \in Nat
    BY <1>1, FloorFacts DEF TypeInv
  <2>2. Knows(rd[r], d)
    BY DEF SeenInv, Reading
  <2>3. CASE rd'[r] = rd[r]
    BY <1>1, <1>8, <2>1, <2>2, <2>3 DEF Knows
  <2>4. CASE rd'[r].pc = "lookup" /\ rd'[r].floor = rd[r].floor
             /\ rd'[r].index = rd[r].index /\ rd'[r].owed = rd[r].owed
    BY <1>1, <1>8, <2>1, <2>2, <2>4 DEF Knows
  <2> QED BY <1>9, <2>1, <2>3, <2>4
<1> QED BY <1>6, <1>7, <1>10 DEF SeenInv, Reading

(* The owner is gone, and so is the caller whose call was under way.           *)
LEMMA GoneSeen ==
  ASSUME TypeInv, NEW d \in Own, SeenInv(d), Forget, CallsExit,
         rows' = rows, acked' = acked, missed' = missed,
         \A i \in Indexes : ~marker'[i] /\ d \notin missed[i] => Answers(disk'[i], d),
         \A i \in Indexes, lo \in Nat :
           lo <= acked[d] /\ d \notin missed[i] /\ Seen(i, d, lo) => Seen(i, d, lo)',
         flag /\ ~flag' =>
           \A i \in Indexes, lo \in Nat :
             lo <= acked[d] /\ d \notin missed[i] => Seen(i, d, lo)'
  PROVE  SeenInv(d)'
<1>1. up' = FALSE
  BY DEF Forget
<1>2. \A b \in Builders : rd'[b] = rd[b] \/ rd'[b] = Idle
  BY CallsExitFacts DEF TypeInv
<1>3. Served(d)'
  BY <1>1 DEF Served
<1>4. Trusted(d)'
  BY DEF Trusted, Answers
<1>5. Reading(d)'
  <2>1. acked[d] <= acked'[d] /\ acked'[d] \in Nat
    BY BetweenFacts DEF TypeInv, Own
  <2>2. \A r \in Readers : rd'[r] = rd[r] \/ rd'[r] = Idle
    BY <1>2 DEF Builders
  <2> QED BY <2>1, <2>2, ReadingStays DEF SeenInv
<1> QED BY <1>3, <1>4, <1>5 DEF SeenInv

(* A marker goes only after its commit, so a crash leaves no index that can be *)
(* trusted and is stale.                                                      *)
LEMMA CrashSeen ==
  ASSUME TypeInv, NEW d \in Own, SeenInv(d),
         NEW S \in SUBSET Indexes, NEW T \in SUBSET Indexes, Crash(S, T)
  PROVE  SeenInv(d)'
<1> USE DEF db
<1>1. /\ up /\ S \subseteq Staged /\ T \subseteq S /\ d \in Docs
      /\ phase.at # "publishing" => S = {}
      /\ Forget /\ CallsExit /\ UNCHANGED <<db, flag, missed>>
  BY DEF Crash, Own
<1>2. /\ \A i \in Indexes : disk'[i] = IF i \in S THEN work[i] ELSE disk[i]
      /\ \A i \in Indexes : published'[i] = IF i \in T THEN work[i] ELSE published[i]
      /\ \A i \in Indexes : marker'[i] <=> (marker[i] /\ i \notin T)
  BY DEF Crash
<1>3. /\ phase.at # "unflagging" =>
           \A i \in Staged : i \in live /\ marker[i] /\ i \in Indexes
      /\ \A i \in live : /\ Applied(i, d) /\ Shown(i, d) /\ i \in Indexes
                         /\ d \notin missed[i] => Answers(work[i], d)
      /\ \A i \in Indexes : i \notin Staged => d \notin DOMAIN pending[i]
  BY <1>1, GroupFacts DEF SeenInv
<1>4. \A i \in S : i \in live /\ marker[i]
  BY <1>1, <1>3
<1>5. ASSUME NEW i \in Indexes, ~marker'[i], d \notin missed[i] PROVE Answers(disk'[i], d)
  <2>1. CASE i \in T
    BY <1>1, <1>2, <1>3, <1>4, <1>5, <2>1
  <2>2. CASE i \notin T
    <3>1. ~marker[i] /\ i \in live /\ disk'[i] = disk[i]
      BY <1>1, <1>2, <1>4, <1>5, <2>2 DEF SeenInv, Served
    <3>2. CASE d \notin DOMAIN pending[i]
      BY <1>3, <1>5, <3>1, <3>2 DEF Applied
    <3>3. CASE d \in DOMAIN pending[i]
      <4>1. i \in Staged /\ phase.at = "unflagging"
        BY <1>3, <3>1, <3>3
      <4>2. disk[i] = work[i]
        BY <1>1, <3>1, <4>1 DEF SeenInv, Served, Committed
      <4> QED BY <1>3, <1>5, <3>1, <4>2
    <3> QED BY <3>2, <3>3
  <2> QED BY <2>1, <2>2
<1>6. \A i \in Indexes, lo \in Nat :
        lo <= acked[d] /\ d \notin missed[i] /\ Seen(i, d, lo) => Seen(i, d, lo)'
  <2>1. \A i \in live : \A lo \in Nat :
          lo <= acked[d] /\ d \notin missed[i] => Between(work[i], d, lo, rows[d])
    BY <1>1, <1>3, BetweenFacts DEF TypeInv
  <2> QED BY <1>1, <1>2, <1>4, <2>1 DEF Seen
<1>7. rows' = rows /\ acked' = acked /\ flag' = flag /\ missed' = missed
  BY <1>1
<1> QED BY <1>1, <1>5, <1>6, <1>7, GoneSeen

(* An index that took the update has its marker, and the others answer.       *)
LEMMA CrashStagingSeen ==
  ASSUME TypeInv, NEW d \in Own, SeenInv(d),
         NEW w \in Writers, NEW n \in 0..Len(IndexOrder), CrashStaging(w, n)
  PROVE  SeenInv(d)'
<1>1. /\ up /\ phase = Ready /\ Forget /\ CallsExit
      /\ UNCHANGED <<rows, acked, disk, published, missed>>
      /\ \A i \in Indexes : marker'[i] <=> (marker[i] \/ i \in First(n))
      /\ flag' = (flag \/ First(n) # {})
  BY DEF CrashStaging, Free
<1>2. /\ \A i \in Staged : i \in live /\ marker[i] /\ i \in Indexes
      /\ \A i \in live : /\ Applied(i, d) /\ Shown(i, d) /\ i \in Indexes
                         /\ d \notin missed[i] => Answers(work[i], d)
      /\ \A i \in Indexes : i \notin Staged => d \notin DOMAIN pending[i]
  BY <1>1, GroupFacts DEF SeenInv, Ready
<1>3. ASSUME NEW i \in Indexes, ~marker'[i], d \notin missed[i] PROVE Answers(disk'[i], d)
  <2>1. ~marker[i] /\ i \in live
    BY <1>1, <1>3 DEF SeenInv, Served
  <2> QED BY <1>1, <1>2, <1>3, <2>1 DEF Applied
<1>4. \A i \in Indexes, lo \in Nat : Seen(i, d, lo) => Seen(i, d, lo)'
  BY <1>1 DEF Seen
<1>5. flag => flag'
  BY <1>1
<1> QED BY <1>1, <1>3, <1>4, <1>5, GoneSeen

(* A stop publishes nothing but stores what is staged.                        *)
LEMMA StopSeen ==
  ASSUME TypeInv, NEW d \in Own, SeenInv(d), Stop
  PROVE  SeenInv(d)'
<1> USE DEF db
<1>1. up /\ phase = Ready /\ Forget /\ CallsExit /\ UNCHANGED <<db, missed>>
  BY DEF Stop, Free
<1>2. /\ \A i \in Indexes : disk'[i] = IF i \in Staged THEN work[i] ELSE disk[i]
      /\ \A i \in Indexes : published'[i] = None
      /\ \A i \in Indexes : marker'[i] <=> (marker[i] /\ i \notin Staged)
  BY DEF Stop
<1>3. /\ \A i \in Staged : i \in live /\ marker[i] /\ i \in Indexes
      /\ \A i \in live : /\ Applied(i, d) /\ Shown(i, d) /\ i \in Indexes
                         /\ d \notin missed[i] => Answers(work[i], d)
      /\ \A i \in Indexes : i \notin Staged => d \notin DOMAIN pending[i]
  BY <1>1, GroupFacts DEF SeenInv, Ready
<1>4. ASSUME NEW i \in Indexes, ~marker'[i], d \notin missed[i] PROVE Answers(disk'[i], d)
  <2>1. CASE i \in Staged
    BY <1>2, <1>3, <1>4, <2>1
  <2>2. CASE i \notin Staged
    <3>1. ~marker[i] /\ i \in live /\ disk'[i] = disk[i]
      BY <1>1, <1>2, <1>4, <2>2 DEF SeenInv, Served
    <3> QED BY <1>3, <1>4, <2>2, <3>1 DEF Applied
  <2> QED BY <2>1, <2>2
<1>5. \A i \in Indexes, lo \in Nat : Seen(i, d, lo)'
  BY <1>2 DEF Seen
<1>6. rows' = rows /\ acked' = acked /\ missed' = missed
  BY <1>1
<1> QED BY <1>1, <1>4, <1>5, <1>6, GoneSeen

(* Generations without a marker are served from what is stored.               *)
LEMMA RestartSeen ==
  ASSUME TypeInv, NEW d \in Own, SeenInv(d), Restart
  PROVE  SeenInv(d)'
<1> USE DEF db, files
<1>1. /\ ~up /\ up' /\ d \in Docs /\ flag' = FALSE
      /\ live' = {i \in Indexes : ~marker[i]}
      /\ work' = disk
      /\ \A i \in Indexes : published'[i] = IF marker[i] THEN None ELSE disk[i]
      /\ UNCHANGED <<db, files, pending, phase, rd, missed>>
  BY DEF Restart, Own
<1>2. phase = Ready /\ Staged = {}
  BY <1>1 DEF TypeInv, PhaseOK
<1>3. \A i \in Indexes : d \notin DOMAIN pending[i]
  BY <1>2, NoUpdateFacts DEF Staged
<1>4. \A i \in Indexes : ~marker[i] /\ d \notin missed[i] => Answers(disk[i], d)
  BY <1>1 DEF SeenInv, Trusted
<1>5. Served(d)'
  <2>1. \A i : Committed(i)'
    BY <1>1, <1>2 DEF Committed, Ready
  <2>2. ASSUME NEW i \in Indexes, ~marker[i] PROVE Applied(i, d)' /\ Shown(i, d)'
    BY <1>1, <1>3, <1>4, <2>2 DEF Applied, Shown, Answers
  <2> QED BY <1>1, <2>1, <2>2 DEF Served
<1>6. Trusted(d)'
  BY <1>1 DEF Trusted
<1>7. \A i \in Indexes, lo \in Nat : lo <= acked[d] /\ d \notin missed[i] => Seen(i, d, lo)'
  <2>1. \A i \in Indexes : \A lo \in Nat :
          ~marker[i] /\ d \notin missed[i] /\ lo <= acked[d] =>
            Between(disk[i], d, lo, rows[d])
    BY <1>1, <1>4, BetweenFacts DEF TypeInv
  <2> QED BY <1>1, <2>1 DEF Seen
<1>8. Reading(d)'
  <2>1. acked[d] <= acked'[d] /\ acked'[d] \in Nat
    BY <1>1, BetweenFacts DEF TypeInv
  <2> QED BY <1>1, <1>7, <2>1, ReadingStays DEF SeenInv
<1> QED BY <1>5, <1>6, <1>8 DEF SeenInv

-------------------------------------------------------------------------------
(* The invariant holds initially and is kept by every step.                    *)

LEMMA SeenInit ==
  ASSUME Init, NEW d \in Own
  PROVE  SeenInv(d)
<1>1. /\ rows = [e \in Docs |-> 0] /\ acked = rows
      /\ disk = [i \in Indexes |-> {}] /\ work = disk /\ published = disk
      /\ pending = [i \in Indexes |-> NoUpdate]
      /\ rd = [r \in Builders |-> Idle] /\ live = Indexes
      /\ up /\ phase = Ready
  BY DEF Init
<1>2. d \in Docs /\ Readers \subseteq Builders
  BY DEF Builders, Own
<1>3. Idle.floor[d] = 0 /\ Idle.owed = {}
  BY <1>2 DEF Idle
<1>4. /\ rows[d] = 0 /\ acked[d] = 0 /\ \A i \in Indexes : d \notin DOMAIN pending[i]
      /\ phase.at = "ready"
  BY <1>1, <1>2, NoUpdateFacts DEF Ready
<1>5. Copy(d, 0) = {} /\ Of({}, d) = {}
  BY DEF Copy, Of
<1>6. Answers({}, d)
  <2>1. 0 \in 0..0
    OBVIOUS
  <2>2. 0 \in acked[d]..rows[d]
    BY <1>4, <2>1, Zenon
  <2>3. Fits(Of({}, d), d, 0)
    BY <1>5 DEF Fits
  <2> QED BY <2>2, <2>3, Zenon DEF Answers, Between
<1>7. Served(d)
  BY <1>1, <1>4, <1>6 DEF Served, Applied, Shown, Committed
<1>8. Trusted(d)
  BY <1>1 DEF Trusted
<1>9. Reading(d)
  BY <1>1, <1>2, <1>3, <1>4 DEF Reading, Knows
<1> QED BY <1>7, <1>8, <1>9 DEF SeenInv

LEMMA SeenStutter ==
  ASSUME NEW d, SeenInv(d), UNCHANGED vars
  PROVE  SeenInv(d)'
BY DEF vars, db, files, memory, table, SeenInv, Served, Trusted, Reading, Knows, Applied,
   Shown, Committed, Answers, Seen, Between, Staged

LEMMA WritesSeen ==
  ASSUME TypeInv, NEW d \in Own, SeenInv(d), NEW w \in Writers, Writes(w)
  PROVE  SeenInv(d)'
<1>1. ASSUME NEW e \in Docs, Commit(w, e) PROVE SeenInv(d)'
  BY <1>1, CommitSeen
<1>2. ASSUME NEW full \in BOOLEAN, Refresh(w, full) PROVE SeenInv(d)'
  <2>1. PICK u \in Docs \X Versions : u = hand[w]
    BY <1>2 DEF Refresh, TypeInv, DataOK
  <2> QED BY <1>2, <2>1, RefreshSeen
<1>3. ASSUME NEW n \in 0..Len(IndexOrder), n < Len(IndexOrder),
             NEW restored \in BOOLEAN, RefreshFails(w, n, restored)
      PROVE  SeenInv(d)'
  <2>1. PICK u \in Docs \X Versions : u = hand[w]
    BY <1>3 DEF RefreshFails, TypeInv, DataOK
  <2>2. PICK S \in SUBSET Indexes : S = First(n)
    BY DEF First, TypeInv, DataOK
  <2> QED BY <1>3, <2>1, <2>2, RefreshFailsSeen
<1>4. ASSUME NEW n \in 0..Len(IndexOrder), CrashStaging(w, n) PROVE SeenInv(d)'
  BY <1>4, CrashStagingSeen
<1> QED BY <1>1, <1>2, <1>3, <1>4 DEF Writes

LEMMA ReadsSeen ==
  ASSUME TypeInv, NEW d \in Own, SeenInv(d), NEW r \in Readers, Reads(r)
  PROVE  SeenInv(d)'
<1>1. ASSUME NEW i \in Indexes, Search(r, i) PROVE SeenInv(d)'
  BY <1>1, SearchSeen
<1> QED
  BY <1>1, CheckSeen, AskPublishSeen, LookupSeen, AskSearchSeen, AnsweredSeen,
     BuildMissingSeen DEF Reads

LEMMA MakesSeen ==
  ASSUME TypeInv, NEW d \in Own, SeenInv(d), NEW r \in Builders, Builds(r)
  PROVE  SeenInv(d)'
<1>1. ASSUME NEW e \in Docs, Batch(r, e) PROVE SeenInv(d)'
  BY <1>1, BatchSeen
<1>2. CASE FinishBuild(r)
  <2>1. PICK i \in Indexes : i = rd[r].index
    BY <1>2 DEF FinishBuild, TypeInv, DataOK
  <2> QED BY <1>2, <2>1, FinishBuildSeen
<1> QED BY <1>1, <1>2, BuildFailsSeen DEF Builds

LEMMA SeenStep ==
  ASSUME TypeInv, NEW d \in Own, SeenInv(d), [Next]_vars
  PROVE  SeenInv(d)'
<1>1. CASE PublishBuild
  <2>1. PICK i \in Indexes : i = phase.index
    BY <1>1 DEF PublishBuild, TypeInv, DataOK, PhaseOK
  <2>2. PICK r \in Builders : r = phase.caller
    BY <1>1 DEF PublishBuild, TypeInv, PhaseOK
  <2> QED BY <1>1, <2>1, <2>2, PublishBuildSeen
<1>2. ASSUME NEW S \in SUBSET Indexes, NEW T \in SUBSET Indexes, Crash(S, T)
      PROVE  SeenInv(d)'
  BY <1>2, CrashSeen
<1>3. ASSUME NEW i \in Indexes, NEW seen \in BOOLEAN, PublishFails(i, seen)
      PROVE  SeenInv(d)'
  BY <1>3, PublishFailsSeen
<1>4. ASSUME NEW i \in Indexes, Rebuild(i) PROVE SeenInv(d)'
  BY <1>4, RebuildSeen
<1>5. CASE TimerFires \/ PublishIndexes \/ ClearFlag \/ Restart \/ Stop
  BY <1>5, TimerFiresSeen, PublishIndexesSeen, ClearFlagSeen, RestartSeen, StopSeen
<1>6. CASE UNCHANGED vars
  BY <1>6, SeenStutter
<1> QED
  BY <1>1, <1>2, <1>3, <1>4, <1>5, <1>6, WritesSeen, ReadsSeen, MakesSeen DEF Next

-------------------------------------------------------------------------------
(* Whatever fails, whenever the owner dies and whoever builds beside writes, a  *)
(* search finds of each document it is owed a copy not older than the last      *)
(* write of it that was answered before the search began (owner.ex, search/7,   *)
(* discard_pending and publish_pending): only a build takes a document out of   *)
(* what the searches of an index are owed, and a write or a build gives it back.*)
THEOREM SearchesSeeStaged == Spec => []SearchSeesStaged
<1> DEFINE Inv == TypeInv /\ \A d \in Own : SeenInv(d)
<1>1. Init => Inv
  BY TypeInit, SeenInit
<1>2. Inv /\ [Next]_vars => Inv'
  <2> SUFFICES ASSUME Inv, [Next]_vars PROVE Inv'
    OBVIOUS
  <2>1. TypeInv'
    BY TypeStep
  <2>2. \A d \in Own : SeenInv(d)'
    BY SeenStep
  <2> QED BY <2>1, <2>2
<1>3. Inv => SearchSeesStaged
  <2> SUFFICES ASSUME Inv, NEW r \in Readers, rd[r].pc = "got",
                      NEW d \in rd[r].owed \ Disturbed
               PROVE  Holds(rd[r].got, d, rd[r].floor)
    BY DEF SearchSeesStaged
  <2>1. r \in Builders /\ rd[r] \in Record
    BY DEF Builders, TypeInv, DataOK
  <2>2. d \in Docs /\ d \in Own
    BY <2>1 DEF Record, Own
  <2>3. Between(rd[r].got, d, rd[r].floor[d], rows[d])
    BY <2>2 DEF SeenInv, Reading, Knows
  <2> QED BY <2>2, <2>3, HoldsIsBetween
<1> QED BY <1>1, <1>2, <1>3, PTL DEF Spec
===============================================================================
