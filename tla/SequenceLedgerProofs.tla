------------------------ MODULE SequenceLedgerProofs ------------------------
(***************************************************************************)
(* Theorems about the sequence ledger, for any writers, any block, any     *)
(* bounds: the type invariant; that P covers every stored sequence; that   *)
(* no two transactions take, and no two COMMITs in flight store, the same  *)
(* sequence; that an ok answer is durable; that the feed is stable, save   *)
(* for COMMITs whose process died; and what it is that the feed waits for  *)
(* when it does not serve a stored row yet.                                *)
(***************************************************************************)
EXTENDS SequenceLedger, TLAPS, WellFoundedInduction

(* Stated apart for terms the solver does not add to by itself.            *)
LEMMA SuccessorMonotone == \A a, b \in Nat : a <= b => a + 1 <= b + 1
  OBVIOUS

-----------------------------------------------------------------------------
(* The lowest outstanding range.                                           *)

Below == {p \in Nat \X Nat : p[1] < p[2]}

LEMMA BelowWellFounded == IsWellFoundedOn(Below, Nat)
<1>1. IsWellFoundedOn(OpToRel(<, Nat), Nat)
  BY NatLessThanWellFounded
<1>2. Below \cap (Nat \X Nat) \subseteq OpToRel(<, Nat)
  BY DEF OpToRel, Below
<1> QED
  BY <1>1, <1>2, IsWellFoundedOnSubrelation

(* Lowest picks a reservation, and none starts before it.                  *)
LEMMA LowestIsFirst ==
  ASSUME NEW out \in SUBSET Reservation, out # {}
  PROVE  /\ Lowest(out) \in out
         /\ \A r \in out : Lowest(out).first <= r.first
<1> DEFINE starts == {r.first : r \in out}
<1>1. starts \subseteq Nat /\ starts # {}
  BY DEF Reservation
<1>2. PICK n \in starts : \A m \in starts : ~ (<<m, n>> \in Below)
  BY <1>1, BelowWellFounded, WFMin
<1>3. ASSUME NEW m \in starts PROVE n <= m
  <2>1. m \in Nat /\ n \in Nat
    BY <1>1
  <2>2. m < n => <<m, n>> \in Below
    BY <2>1 DEF Below
  <2> HIDE DEF starts
  <2> QED
    BY <1>2, <2>1, <2>2
<1>4. PICK r \in out : r.first = n
  OBVIOUS
<1>5. \A s \in out : r.first <= s.first
  BY <1>3, <1>4
<1> QED
  BY <1>4, <1>5 DEF Lowest

(* W stays below every outstanding range and below next.                   *)
LEMMA WatermarkBounds ==
  ASSUME NEW out \in SUBSET Reservation, NEW nxt \in Nat \ {0},
         \A r \in out : r.first < nxt
  PROVE  /\ Watermark(out, nxt) \in Nat
         /\ Watermark(out, nxt) < nxt
         /\ \A r \in out : Watermark(out, nxt) < r.first
<1>1. CASE out = {}
  BY <1>1 DEF Watermark
<1>2. CASE out # {}
  <2>1. Lowest(out) \in out /\ \A r \in out : Lowest(out).first <= r.first
    BY <1>2, LowestIsFirst
  <2>2. \A r \in out : r.first \in Nat \ {0}
    BY DEF Reservation
  <2> QED
    BY <1>2, <2>1, <2>2 DEF Watermark
<1> QED
  BY <1>1, <1>2

(* The weaker fact the type invariant needs.                               *)
LEMMA WatermarkType ==
  ASSUME NEW out \in SUBSET Reservation, NEW nxt \in Nat \ {0}
  PROVE  Watermark(out, nxt) \in Nat
<1>1. CASE out = {}
  BY <1>1 DEF Watermark
<1>2. CASE out # {}
  BY <1>2, LowestIsFirst DEF Watermark, Reservation
<1> QED
  BY <1>1, <1>2

-----------------------------------------------------------------------------
(* Type correctness.                                                       *)

(* The type invariant holds initially and every step preserves it.         *)
LEMMA TypeInductive ==
  /\ Init => TypeOK
  /\ TypeOK /\ [Next]_vars => TypeOK'
<1>1. Init => TypeOK
  <2> SUFFICES ASSUME Init PROVE TypeOK
    OBVIOUS
  <2>1. "idle" \in Phases
    BY DEF Phases
  <2>2. phase \in [Writers -> Phases]
    BY <2>1 DEF Init
  <2>3. used \in [Writers -> Nat] /\ target \in [Writers -> Nat]
    BY DEF Init
  <2>4. /\ outstanding \subseteq Reservation /\ orphans \subseteq SUBSET Nat
        /\ publishing \in BOOLEAN /\ raised \in BOOLEAN
    BY Zenon DEF Init
  <2> QED
    BY <2>2, <2>3, <2>4 DEF Init, TypeOK
<1>2. TypeOK /\ [Next]_vars => TypeOK'
  <2> SUFFICES ASSUME TypeOK, [Next]_vars PROVE TypeOK'
    OBVIOUS
  <2> USE BlockAssumption, BoundsAssumption
  <2>f. ASSUME NEW r \in outstanding, NEW n \in Nat \ {0}, NEW v \in Nat,
               Finish(r, n, v)
        PROVE  /\ outstanding' \subseteq Reservation /\ next' \in Nat \ {0}
               /\ visible' \in Nat /\ version' \in Nat /\ publishing' \in BOOLEAN
               /\ raised' \in BOOLEAN /\ UNCHANGED <<ledger, persisted, cellVersion>>
    <3>1. outstanding \ {r} \in SUBSET Reservation
      BY DEF TypeOK
    <3>2. Watermark(outstanding \ {r}, n) \in Nat
      BY <3>1, WatermarkType
    <3>3. raised' = (visible' > visible) /\ publishing' = TRUE
      BY <2>f, Zenon DEF Finish
    <3>4. raised' \in BOOLEAN /\ publishing' \in BOOLEAN
      BY <3>3
    <3> QED
      BY <2>f, <3>1, <3>2, <3>4 DEF Finish, TypeOK, Larger
  <2>t. ASSUME NEW r \in outstanding, NEW u \in Nat
        PROVE  TakeBack(r, u) \in Nat \ {0}
    BY DEF TakeBack, TypeOK, Reservation, Larger
  <2>k. ASSUME NEW w \in Writers PROVE Taken(w) \in SUBSET Nat
    <3> SUFFICES ASSUME NEW r \in Held(w), NEW s \in r.first..used[w]
                 PROVE  s \in Nat
      BY DEF Taken
    <3> QED
      BY DEF Held, TypeOK, Reservation
  <2>o. ASSUME NEW D \in SUBSET Writers PROVE Orphaned(D) \subseteq Reservation
    <3> SUFFICES ASSUME NEW r \in outstanding
                 PROVE  /\ r \in Reservation
                        /\ [r EXCEPT !.dead = TRUE] \in Reservation
      BY DEF Orphaned
    <3>1. r \in Reservation
      BY DEF TypeOK
    <3> QED
      BY <3>1 DEF Reservation
  <2>a. answered \subseteq Nat /\ waiters \subseteq Writers
        /\ \A w \in Writers : target[w] \in Nat
    BY DEF TypeOK
  <2>d. ASSUME NEW D \in SUBSET Writers, NEW L \in SUBSET D, Die(D, L)
        PROVE  /\ orphans' \subseteq SUBSET Nat
               /\ phase' \in [Writers -> Phases] /\ used' \in [Writers -> Nat]
               /\ target' \in [Writers -> Nat] /\ waiters' \subseteq Writers
               /\ UNCHANGED <<storedP, rows>>
    <3>1. orphans' \subseteq SUBSET Nat
      <4>1. {Taken(w) : w \in L} \subseteq SUBSET Nat
        BY <2>k
      <4> QED
        BY <2>d, <4>1 DEF Die, TypeOK
    <3>2. phase' \in [Writers -> Phases]
      BY <2>d DEF Die, TypeOK, Phases
    <3>3. used' \in [Writers -> Nat] /\ target' \in [Writers -> Nat]
      BY <2>d DEF Die, TypeOK
    <3> QED
      BY <2>d, <3>1, <3>2, <3>3 DEF Die, TypeOK
  <2>1. CASE Initialize
    BY <2>1 DEF Initialize, Opening, TypeOK, Larger, writerVars
  <2>2. CASE InitializeFails
    BY <2>2 DEF InitializeFails, Opening, TypeOK, Larger, writerVars, ledgerVars
  <2>3. ASSUME NEW w \in Writers, NEW count \in 1..MaxCount, Reserve(w, count)
        PROVE  TypeOK'
    <3>1. next' \in Nat \ {0} /\ persisted' \in Nat /\ storedP' \in Nat
      BY <2>3 DEF Reserve, EnsurePersisted, TypeOK, Larger
    <3>2. [first |-> next, last |-> next + count - 1, holder |-> w,
           dead |-> FALSE, lost |-> FALSE] \in Reservation
      BY DEF TypeOK, Reservation
    <3>3. phase' \in [Writers -> Phases]
      BY <2>3 DEF Reserve, TypeOK, Phases
    <3> QED
      BY <2>3, <3>1, <3>2, <3>3 DEF Reserve, TypeOK, runVars
  <2>l. ASSUME NEW w \in Writers, NEW count \in 1..MaxCount, ReserveLate(w, count)
        PROVE  TypeOK'
    <3>1. next' \in Nat \ {0} /\ persisted' \in Nat /\ storedP' \in Nat
      BY <2>l DEF ReserveLate, EnsurePersisted, TypeOK, Larger
    <3>2. [first |-> next, last |-> next + count - 1, holder |-> w,
           dead |-> owner = "down", lost |-> TRUE] \in Reservation
      BY DEF TypeOK, Reservation
    <3> QED
      BY <2>l, <3>1, <3>2 DEF ReserveLate, TypeOK, runVars, writerVars
  <2>4. ASSUME NEW count \in 1..MaxCount, ReserveUnpersisted(count)
        PROVE  TypeOK'
    BY <2>4 DEF ReserveUnpersisted, TypeOK, Larger, ledgerVars, writerVars, runVars
  <2>5. ASSUME NEW w \in Writers, CompleteCommitted(w) PROVE TypeOK'
    <3>1. PICK r \in Held(w) : Finish(r, TakeBack(r, used[w]), version + 1)
      BY <2>5 DEF CompleteCommitted
    <3>2. r \in outstanding /\ used[w] \in Nat /\ version + 1 \in Nat
      BY DEF Held, TypeOK
    <3>3. TakeBack(r, used[w]) \in Nat \ {0}
      BY <3>2, <2>t
    <3>4. /\ outstanding' \subseteq Reservation /\ next' \in Nat \ {0}
          /\ visible' \in Nat /\ version' \in Nat /\ publishing' \in BOOLEAN
          /\ raised' \in BOOLEAN /\ UNCHANGED <<ledger, persisted, cellVersion>>
      BY <3>1, <3>2, <3>3, <2>f
    <3>5. target' \in [Writers -> Nat]
      BY <2>5 DEF CompleteCommitted, TypeOK
    <3> QED
      BY <2>5, <3>4, <3>5 DEF CompleteCommitted, TypeOK, storageVars, runVars, Phases
  <2>6. ASSUME NEW w \in Writers, CompleteAborted(w) PROVE TypeOK'
    <3>1. PICK r \in Held(w) : Finish(r, TakeBack(r, 0), version)
      BY <2>6 DEF CompleteAborted
    <3>2. r \in outstanding /\ version \in Nat
      BY DEF Held, TypeOK
    <3>3. TakeBack(r, 0) \in Nat \ {0}
      BY <3>2, <2>t
    <3>4. /\ outstanding' \subseteq Reservation /\ next' \in Nat \ {0}
          /\ visible' \in Nat /\ version' \in Nat /\ publishing' \in BOOLEAN
          /\ raised' \in BOOLEAN /\ UNCHANGED <<ledger, persisted, cellVersion>>
      BY <3>1, <3>2, <3>3, <2>f
    <3> QED
      BY <2>6, <3>4 DEF CompleteAborted, TypeOK, storageVars, runVars, Phases
  <2>7. CASE HolderDown
    <3>1. PICK r \in outstanding : Finish(r, next, version)
      BY <2>7 DEF HolderDown
    <3>2. next \in Nat \ {0} /\ version \in Nat
      BY DEF TypeOK
    <3> QED
      BY <2>7, <3>1, <3>2, <2>f DEF HolderDown, TypeOK, storageVars, writerVars, runVars
  <2>8. CASE FinishPublish
    <3>1. phase' \in [Writers -> Phases]
      BY <2>8 DEF FinishPublish, TypeOK, Phases
    <3>2. target' \in [Writers -> Nat]
      BY <2>8 DEF FinishPublish, TypeOK
    <3>3. answered' \subseteq Nat
      BY <2>8, <2>a DEF FinishPublish
    <3> QED
      BY <2>8, <3>1, <3>2, <3>3 DEF FinishPublish, TypeOK, storageVars, runVars
  <2>9. ASSUME NEW w \in Writers, Take(w) PROVE TypeOK'
    BY <2>9 DEF Take, Held, TypeOK, Reservation, ledgerVars, storageVars, runVars
  <2>10. ASSUME NEW w \in Writers, IssueCommit(w) \/ Rollback(w) \/ FlushFails(w)
         PROVE  TypeOK'
    BY <2>10 DEF IssueCommit, Rollback, FlushFails, WriterStep, TypeOK, Phases,
                 ledgerVars, storageVars, runVars
  <2>11. ASSUME NEW w \in Writers, CommitLands(w) PROVE TypeOK'
    BY <2>11, <2>k DEF CommitLands, WriterStep, TypeOK, Phases, ledgerVars, runVars
  <2>12. CASE OrphanLands
    BY <2>12 DEF OrphanLands, TypeOK, ledgerVars, writerVars, runVars
  <2>13. ASSUME NEW w \in Writers, Await(w) \/ AwaitDeadline(w) PROVE TypeOK'
    <3>1. phase' \in [Writers -> Phases]
      BY <2>13 DEF Await, AwaitDeadline, Answer, TypeOK, Phases
    <3>2. target' \in [Writers -> Nat]
      BY <2>13 DEF Await, AwaitDeadline, Answer, TypeOK
    <3>3. answered' \subseteq Nat
      BY <2>13, <2>a DEF Await, AwaitDeadline, Answer
    <3> QED
      BY <2>13, <3>1, <3>2, <3>3 DEF Await, AwaitDeadline, TypeOK, ledgerVars,
         storageVars, runVars
  <2>14. ASSUME NEW w \in Writers, KillWriter(w) PROVE TypeOK'
    <3>1. PICK L \in SUBSET {w} : Die({w} \cap Writing, L)
      BY <2>14 DEF KillWriter
    <3>2. {w} \cap Writing \in SUBSET Writers /\ L \in SUBSET ({w} \cap Writing)
      BY <3>1 DEF Die, Writing
    <3>3. /\ orphans' \subseteq SUBSET Nat
          /\ phase' \in [Writers -> Phases] /\ used' \in [Writers -> Nat]
          /\ target' \in [Writers -> Nat] /\ waiters' \subseteq Writers
          /\ UNCHANGED <<storedP, rows>>
      BY <3>1, <3>2, <2>d
    <3>4. outstanding' \subseteq Reservation
      BY <2>14, <2>o, {w} \in SUBSET Writers DEF KillWriter
    <3> QED
      BY <2>14, <3>3, <3>4 DEF KillWriter, TypeOK, runVars
  <2>18. ASSUME NEW w \in Writers, KillCaller(w) PROVE TypeOK'
    <3>1. Die({w}, {}) /\ {w} \in SUBSET Writers
      BY <2>18 DEF KillCaller
    <3>2. /\ orphans' \subseteq SUBSET Nat
          /\ phase' \in [Writers -> Phases] /\ used' \in [Writers -> Nat]
          /\ target' \in [Writers -> Nat] /\ waiters' \subseteq Writers
          /\ UNCHANGED <<storedP, rows>>
      BY <3>1, <2>d
    <3> QED
      BY <2>18, <3>2 DEF KillCaller, TypeOK, ledgerVars, runVars
  <2>15. CASE OwnerCrash
    <3>1. PICK L \in SUBSET Writing : Die(Writing, L)
      BY <2>15 DEF OwnerCrash
    <3>2. Writing \in SUBSET Writers
      BY DEF Writing
    <3>3. /\ orphans' \subseteq SUBSET Nat
          /\ phase' \in [Writers -> Phases] /\ used' \in [Writers -> Nat]
          /\ target' \in [Writers -> Nat] /\ waiters' \subseteq Writers
          /\ UNCHANGED <<storedP, rows>>
      BY <3>1, <3>2, <2>d
    <3>4. outstanding' \subseteq Reservation
      BY <2>15, <2>o, Writers \in SUBSET Writers DEF OwnerCrash
    <3> QED
      BY <2>15, <3>3, <3>4 DEF OwnerCrash, TypeOK
  <2>16. CASE LedgerCrash
    <3>1. PICK L \in SUBSET Writing : Die(Writing \cup waiters, L)
      BY <2>16 DEF LedgerCrash
    <3>2. Writing \cup waiters \in SUBSET Writers
      BY DEF Writing, TypeOK
    <3>3. L \in SUBSET (Writing \cup waiters)
      OBVIOUS
    <3>4. /\ orphans' \subseteq SUBSET Nat
          /\ phase' \in [Writers -> Phases] /\ used' \in [Writers -> Nat]
          /\ target' \in [Writers -> Nat] /\ waiters' \subseteq Writers
          /\ UNCHANGED <<storedP, rows>>
      BY <3>1, <3>2, <3>3, <2>d
    <3>5. answered' \subseteq Nat
      BY <2>16, <2>a DEF LedgerCrash
    <3>6. /\ outstanding' \subseteq Reservation
          /\ publishing' \in BOOLEAN /\ raised' \in BOOLEAN
      BY <2>16, Zenon DEF LedgerCrash
    <3> QED
      BY <2>16, <3>4, <3>5, <3>6 DEF LedgerCrash, TypeOK
  <2>17. CASE UNCHANGED vars
    BY <2>17 DEF vars, ledgerVars, storageVars, writerVars, runVars, TypeOK
  <2> QED
    BY <2>1, <2>2, <2>3, <2>4, <2>5, <2>6, <2>7, <2>8, <2>9, <2>10, <2>11,
       <2>12, <2>13, <2>14, <2>15, <2>16, <2>17, <2>18, <2>l DEF Next
<1> QED
  BY <1>1, <1>2

(* The type invariant, for every value of the constants.                   *)
THEOREM TypeCorrect == Spec => []TypeOK
<1>1. Init => TypeOK
  BY TypeInductive
<1>2. TypeOK /\ [Next]_vars => TypeOK'
  BY TypeInductive
<1> QED
  BY <1>1, <1>2, PTL DEF Spec

-----------------------------------------------------------------------------
(* The inductive invariant.                                                *)

InTransaction == {"writing", "committing", "committed", "failed"}

(* Outstanding ranges are nonempty, below next, and pairwise apart.        *)
RangesOK ==
  /\ \A r \in outstanding : r.first <= r.last /\ r.last < next
  /\ \A r, q \in outstanding : r # q => r.last < q.first \/ q.last < r.first

(* The counters of a running ledger are covered by P; W is always.         *)
CountersOK ==
  /\ visible <= storedP
  /\ ledger = "running" =>
       visible < next /\ next <= persisted + 1 /\ persisted <= storedP
  /\ ledger = "down" => owner = "down" /\ outstanding = {}
  /\ owner = "down" => \A r \in outstanding : r.dead

(* W is below every live range.  One whose caller knows of it belongs to  *)
(* exactly one transaction, every transaction has one, and the numbers     *)
(* taken are inside it.                                                    *)
HoldersOK ==
  /\ \A r \in outstanding : ~r.dead => visible < r.first
  /\ \A r \in outstanding : ~r.dead /\ ~r.lost =>
       /\ phase[r.holder] \in InTransaction
       /\ used[r.holder] = 0 \/ (r.first <= used[r.holder] /\ used[r.holder] <= r.last)
  /\ \A r, q \in outstanding :
       ~r.dead /\ ~r.lost /\ ~q.dead /\ ~q.lost /\ r.holder = q.holder => r = q
  /\ \A w \in Writers : phase[w] \in InTransaction =>
       \E r \in outstanding : r.holder = w /\ ~r.dead /\ ~r.lost
  /\ \A w \in Writers : phase[w] \notin InTransaction => used[w] = 0

(* A stored row is positive and covered; what a holder committed is        *)
(* stored, and nothing that a COMMIT under way is to store.  Where there   *)
(* is no flush to fail, rows are below next, and in a live range only when *)
(* its holder committed them.                                              *)
RowsBelowNext ==
  /\ \A s \in rows : ledger = "running" => s < next
  /\ \A r \in outstanding, s \in rows :
       ~r.dead /\ r.first <= s /\ s <= r.last
         => ~r.lost /\ phase[r.holder] = "committed" /\ s <= used[r.holder]

RowsOK ==
  /\ \A s \in rows : 0 < s /\ s <= storedP
  /\ \A w \in Writers : phase[w] = "committed" /\ used[w] > 0 => used[w] \in rows
  /\ \A r \in outstanding, s \in rows :
       ~r.dead /\ ~r.lost /\ phase[r.holder] = "committing" /\ r.first <= s
         => used[r.holder] < s
  /\ ~Indexed => RowsBelowNext

(* What a writer waits for, and what it was answered, is stored.           *)
AnswersOK ==
  /\ \A w \in Writers : target[w] \in rows \cup {0}
  /\ answered \subseteq rows \cup {0}
  /\ \A w \in waiters : phase[w] = "awaiting"

(* What a COMMIT without a process may still store is covered as rows are, *)
(* lies in no live range, and is neither stored yet nor another's.         *)
OrphansOK ==
  /\ \A s \in Landing :
       /\ 0 < s /\ s <= storedP /\ (ledger = "running" => s < next)
       /\ \A r \in outstanding : ~r.dead => s < r.first \/ r.last < s
       /\ s \notin rows
  /\ \A o, p \in orphans : o # p => o \cap p = {}

LedgerInv ==
  /\ TypeOK
  /\ RangesOK
  /\ CountersOK
  /\ HoldersOK
  /\ RowsOK
  /\ AnswersOK
  /\ OrphansOK

LEMMA InvInit == Init => LedgerInv
<1> SUFFICES ASSUME Init PROVE LedgerInv
  OBVIOUS
<1>1. TypeOK
  BY TypeInductive
<1>2. RangesOK /\ CountersOK /\ OrphansOK
  BY DEF Init, RangesOK, CountersOK, OrphansOK, Landing
<1>3. HoldersOK
  BY DEF Init, HoldersOK, InTransaction
<1>4. RowsOK /\ AnswersOK
  BY DEF Init, RowsOK, RowsBelowNext, AnswersOK
<1> QED
  BY <1>1, <1>2, <1>3, <1>4 DEF LedgerInv

(* What finishing a range leaves of the counters and the other ranges,     *)
(* whatever next becomes, as long as it stays above them and above rows.   *)
LEMMA FinishKeeps ==
  ASSUME LedgerInv, TypeOK', ledger = "running",
         NEW r \in outstanding, NEW n \in Nat \ {0}, NEW v \in Nat, Finish(r, n, v),
         n <= next, visible < n, \A q \in outstanding : q # r => q.last < n,
         \A s \in Landing : s < n, ~Indexed => \A s \in rows : s < n,
         UNCHANGED <<storedP, rows, orphans, owner>>
  PROVE  /\ RangesOK' /\ CountersOK' /\ OrphansOK'
         /\ \A q \in outstanding' : ~q.dead => visible' < q.first
         /\ ~Indexed => \A s \in rows' : s < next'
<1> DEFINE out == outstanding \ {r}
<1>1. out \in SUBSET Reservation /\ r \in Reservation
  BY DEF LedgerInv, TypeOK
<1>2. \A q \in out : q.first \in Nat /\ q.last \in Nat /\ q.first <= q.last
  BY <1>1 DEF LedgerInv, RangesOK, Reservation
<1>3. \A q \in out : q.last < n /\ q.first < n
  BY <1>2
<1>4. /\ Watermark(out, n) \in Nat /\ Watermark(out, n) < n
      /\ \A q \in out : Watermark(out, n) < q.first
  <2> HIDE DEF out
  <2> QED
    BY <1>1, <1>3, WatermarkBounds
<1>5. /\ outstanding' = out /\ next' = n
      /\ visible' = Larger(visible, Watermark(out, n))
      /\ UNCHANGED <<ledger, persisted>>
  BY DEF Finish
<1>6. visible \in Nat /\ next \in Nat /\ persisted \in Nat /\ storedP \in Nat
  BY DEF LedgerInv, TypeOK
<1>7. RangesOK'
  BY <1>3, <1>5 DEF LedgerInv, RangesOK
<1>8. /\ visible <= storedP /\ next <= persisted + 1 /\ persisted <= storedP
      /\ owner = "down" => \A q \in outstanding : q.dead
  BY DEF LedgerInv, CountersOK
<1>9. CountersOK'
  BY <1>4, <1>5, <1>6, <1>8 DEF CountersOK, Larger
<1>10. ASSUME NEW q \in outstanding', ~q.dead PROVE visible' < q.first
  <2>1. q \in out /\ visible < q.first
    BY <1>5, <1>10 DEF LedgerInv, HoldersOK
  <2> QED
    BY <2>1, <1>4, <1>5 DEF Larger
<1>11. ~Indexed => \A s \in rows' : s < next'
  BY <1>5
<1>12. OrphansOK'
  BY <1>5 DEF LedgerInv, OrphansOK, Landing
<1> QED
  BY <1>7, <1>9, <1>10, <1>11, <1>12

(* A live holder finishes: committed, with the numbers up to used[w] kept, *)
(* or failed, with none.                                                   *)
LEMMA CompleteKeeps ==
  ASSUME LedgerInv, TypeOK', ledger = "running",
         NEW w \in Writers, NEW r \in Held(w), NEW u \in Nat, NEW v \in Nat,
         \/ phase[w] = "committed" /\ u = used[w]
         \/ phase[w] = "failed" /\ u = 0,
         Finish(r, TakeBack(r, u), v),
         phase'[w] \notin InTransaction, used' = [used EXCEPT ![w] = 0],
         \A x \in Writers : x # w => phase'[x] = phase[x],
         UNCHANGED <<storedP, rows, orphans, owner>>
  PROVE  RangesOK' /\ CountersOK' /\ HoldersOK' /\ RowsOK' /\ OrphansOK'
<1> DEFINE n == TakeBack(r, u)
<1>1. /\ r \in outstanding /\ r.holder = w /\ ~r.dead /\ ~r.lost
      /\ r.first \in Nat \ {0} /\ r.last \in Nat /\ next \in Nat \ {0}
      /\ used[w] \in Nat /\ phase \in [Writers -> Phases] /\ used \in [Writers -> Nat]
  BY DEF Held, LedgerInv, TypeOK, Reservation
<1>2. /\ r.first <= r.last /\ r.last < next /\ visible < r.first
      /\ used[w] = 0 \/ (r.first <= used[w] /\ used[w] <= r.last)
      /\ visible < next
  BY <1>1 DEF LedgerInv, RangesOK, HoldersOK, CountersOK
<1>3. n \in Nat \ {0} /\ n <= next /\ r.first <= n /\ (n = next \/ r.last = next - 1)
  BY <1>1, <1>2 DEF TakeBack, Larger
<1>4. visible < n
  BY <1>1, <1>2, <1>3 DEF LedgerInv, TypeOK
<1>5. ASSUME NEW q \in outstanding, q # r PROVE q.last < n
  <2>1. /\ q.first \in Nat /\ q.last \in Nat /\ q.last < next /\ q.first <= q.last
        /\ r.last < q.first \/ q.last < r.first
    BY <1>1, <1>5 DEF LedgerInv, TypeOK, RangesOK, Reservation
  <2> QED
    BY <1>1, <1>2, <1>3, <2>1
<1>6. ASSUME ~Indexed, NEW s \in rows PROVE s < n
  <2>1. s \in Nat /\ s < next
    BY <1>6 DEF LedgerInv, TypeOK, RowsOK, RowsBelowNext
  <2>2. r.first <= s /\ s <= r.last => s <= used[w] /\ phase[w] = "committed"
    BY <1>1, <1>6 DEF LedgerInv, RowsOK, RowsBelowNext
  <2>3. n = next \/ s <= r.last
    BY <1>1, <1>3, <2>1
  <2>4. r.last = next - 1 /\ r.first <= s /\ s <= r.last => s < n
    BY <1>1, <1>2, <2>1, <2>2 DEF TakeBack, Larger
  <2> QED
    BY <1>1, <1>3, <2>1, <2>3, <2>4
<1>o. ASSUME NEW s \in Landing PROVE s < n
  <2>1. s \in Nat /\ s < next
    BY DEF LedgerInv, TypeOK, OrphansOK, Landing
  <2>2. s < r.first \/ r.last < s
    BY <1>1 DEF LedgerInv, OrphansOK
  <2> QED
    BY <1>1, <1>2, <1>3, <2>1, <2>2
<1>7. /\ RangesOK' /\ CountersOK' /\ OrphansOK'
      /\ \A q \in outstanding' : ~q.dead => visible' < q.first
      /\ ~Indexed => \A s \in rows' : s < next'
  <2> HIDE DEF n
  <2>1. Finish(r, n, v)
    BY DEF n
  <2> QED
    BY <1>1, <1>3, <1>4, <1>5, <1>6, <1>o, <2>1, FinishKeeps
<1>8. /\ outstanding' = outstanding \ {r}
      /\ \A q \in outstanding' : q \in outstanding /\ q.holder \in Writers
                                 /\ (~q.dead /\ ~q.lost => q.holder # w)
  <2>1. outstanding' = outstanding \ {r}
    BY DEF Finish
  <2> QED
    BY <1>1, <2>1 DEF LedgerInv, HoldersOK, TypeOK, Reservation
<1>9. \A x \in Writers : x # w => used'[x] = used[x] /\ phase'[x] = phase[x]
  BY <1>1
<1>10. used'[w] = 0
  BY <1>1
<1>11. HoldersOK'
  <2>1. \A q \in outstanding' : ~q.dead /\ ~q.lost =>
          /\ phase'[q.holder] \in InTransaction
          /\ used'[q.holder] = 0
               \/ (q.first <= used'[q.holder] /\ used'[q.holder] <= q.last)
    BY <1>8, <1>9 DEF LedgerInv, HoldersOK
  <2>2. \A q, p \in outstanding' :
          ~q.dead /\ ~q.lost /\ ~p.dead /\ ~p.lost /\ q.holder = p.holder => q = p
    BY <1>8 DEF LedgerInv, HoldersOK
  <2>3. ASSUME NEW x \in Writers, phase'[x] \in InTransaction
        PROVE  \E q \in outstanding' : q.holder = x /\ ~q.dead /\ ~q.lost
    <3>1. x # w /\ phase[x] \in InTransaction
      BY <2>3, <1>9
    <3>2. PICK q \in outstanding : q.holder = x /\ ~q.dead /\ ~q.lost
      BY <3>1 DEF LedgerInv, HoldersOK
    <3> QED
      BY <3>1, <3>2, <1>1, <1>8
  <2>4. \A x \in Writers : phase'[x] \notin InTransaction => used'[x] = 0
    BY <1>9, <1>10 DEF LedgerInv, HoldersOK
  <2> QED
    BY <1>7, <2>1, <2>2, <2>3, <2>4 DEF HoldersOK
<1>12. RowsOK'
  <2>1. ~Indexed => RowsBelowNext'
    <3>1. ASSUME ~Indexed
          PROVE  \A q \in outstanding', s \in rows' :
                   ~q.dead /\ q.first <= s /\ s <= q.last
                     => ~q.lost /\ phase'[q.holder] = "committed" /\ s <= used'[q.holder]
      BY <3>1, <1>8, <1>9 DEF LedgerInv, RowsOK, RowsBelowNext
    <3> QED
      BY <1>7, <3>1 DEF RowsBelowNext
  <2>2. \A x \in Writers : phase'[x] = "committed" /\ used'[x] > 0
                             => used'[x] \in rows'
    BY <1>9, <1>10 DEF LedgerInv, RowsOK
  <2>3. \A q \in outstanding', s \in rows' :
          ~q.dead /\ ~q.lost /\ phase'[q.holder] = "committing" /\ q.first <= s
            => used'[q.holder] < s
    BY <1>8, <1>9 DEF LedgerInv, RowsOK
  <2>4. \A s \in rows' : 0 < s /\ s <= storedP'
    BY DEF LedgerInv, RowsOK
  <2> QED
    BY <2>1, <2>2, <2>3, <2>4 DEF RowsOK
<1> QED
  BY <1>7, <1>11, <1>12

(* The deaths of D only mark the ranges D held.                            *)
LEMMA OrphanedRanges ==
  ASSUME TypeOK, NEW D \in SUBSET Writers
  PROVE  /\ \A q \in Orphaned(D) : \E r \in outstanding :
              /\ q.first = r.first /\ q.last = r.last /\ q.holder = r.holder
              /\ q = IF r.holder \in D THEN [r EXCEPT !.dead = TRUE] ELSE r
              /\ ~q.dead => q = r /\ r.holder \notin D
         /\ \A r \in outstanding : r.holder \notin D => r \in Orphaned(D)
<1>1. ASSUME NEW q \in Orphaned(D)
      PROVE  \E r \in outstanding :
              /\ q.first = r.first /\ q.last = r.last /\ q.holder = r.holder
              /\ q = IF r.holder \in D THEN [r EXCEPT !.dead = TRUE] ELSE r
              /\ ~q.dead => q = r /\ r.holder \notin D
  <2>1. PICK r \in outstanding :
          q = IF r.holder \in D THEN [r EXCEPT !.dead = TRUE] ELSE r
    BY DEF Orphaned
  <2>2. r \in Reservation
    BY DEF TypeOK
  <2> QED
    BY <2>1, <2>2 DEF Reservation
<1>2. \A r \in outstanding : r.holder \notin D => r \in Orphaned(D)
  BY DEF Orphaned
<1> QED
  BY <1>1, <1>2

(* What a transaction took lies in its live range, below next and P.       *)
LEMMA TakenInRange ==
  ASSUME LedgerInv, NEW w \in Writers, NEW s \in Taken(w)
  PROVE  /\ s \in Nat /\ 0 < s /\ s < next /\ s <= storedP
         /\ \E r \in outstanding : /\ r.holder = w /\ ~r.dead /\ ~r.lost
                                   /\ r.first <= s /\ s <= r.last /\ s <= used[w]
<1>1. PICK r \in Held(w) : used[w] # 0 /\ s \in r.first..used[w]
  BY DEF Taken
<1>2. /\ r \in outstanding /\ r.holder = w /\ ~r.dead /\ ~r.lost
      /\ used[w] \in Nat /\ r.first \in Nat \ {0} /\ r.last \in Nat
      /\ next \in Nat /\ storedP \in Nat /\ persisted \in Nat
  BY DEF Held, LedgerInv, TypeOK, Reservation
<1>3. r.first <= s /\ s <= r.last /\ r.last < next /\ s \in Nat /\ s <= used[w]
  BY <1>1, <1>2 DEF LedgerInv, HoldersOK, RangesOK
<1>4. next <= storedP + 1
  BY <1>2 DEF LedgerInv, CountersOK, TypeOK
<1> QED
  BY <1>2, <1>3, <1>4

(* Two transactions never took the same number.                            *)
LEMMA TakenApart ==
  ASSUME LedgerInv, NEW w \in Writers, NEW x \in Writers, w # x,
         NEW s \in Taken(w)
  PROVE  s \notin Taken(x)
<1> SUFFICES ASSUME s \in Taken(x) PROVE FALSE
  OBVIOUS
<1>1. PICK r \in outstanding : r.holder = w /\ r.first <= s /\ s <= r.last
  BY TakenInRange
<1>2. PICK q \in outstanding : q.holder = x /\ q.first <= s /\ s <= q.last
  BY TakenInRange
<1>3. s \in Nat
  BY TakenInRange
<1>4. r.last < q.first \/ q.last < r.first
  BY <1>1, <1>2 DEF LedgerInv, RangesOK
<1>5. r.first \in Nat /\ r.last \in Nat /\ q.first \in Nat /\ q.last \in Nat
  BY DEF LedgerInv, TypeOK, Reservation
<1> QED
  BY <1>1, <1>2, <1>3, <1>4, <1>5

(* A COMMIT under way, and what is left of one whose process died, stores  *)
(* what is not stored, and not what the other is to store.                 *)
LEMMA CommitsApart ==
  ASSUME LedgerInv, NEW w \in Writers, NEW s \in Taken(w)
  PROVE  /\ phase[w] = "committing" => s \notin rows
         /\ s \notin Landing
<1>1. PICK r \in outstanding : /\ r.holder = w /\ ~r.dead /\ ~r.lost
                               /\ r.first <= s /\ s <= r.last /\ s <= used[w]
  BY TakenInRange
<1>2. s \in Nat /\ r.first \in Nat /\ r.last \in Nat /\ used[w] \in Nat
  BY TakenInRange DEF LedgerInv, TypeOK, Reservation
<1>3. s \in rows => phase[w] # "committing"
  BY <1>1, <1>2 DEF LedgerInv, RowsOK
<1>4. s \notin Landing
  BY <1>1, <1>2 DEF LedgerInv, OrphansOK
<1> QED
  BY <1>3, <1>4

(* What deaths leave with the engine keeps to that.                        *)
LEMMA LandingGrows ==
  ASSUME LedgerInv, NEW D \in SUBSET Writers, NEW L, Die(D, L)
  PROVE  /\ \A s \in Landing' : /\ 0 < s /\ s <= storedP
                                 /\ (ledger = "running" => s < next)
                                 /\ s \notin rows
         /\ \A o, p \in orphans' : o # p => o \cap p = {}
         /\ \A s \in Landing' : s \in Landing \/ \E w \in L : s \in Taken(w)
<1>1. /\ orphans' = orphans \cup {Taken(w) : w \in L}
      /\ \A w \in L : w \in Writers /\ phase[w] = "committing"
  BY DEF Die
<1>2. ASSUME NEW s \in Landing' PROVE s \in Landing \/ \E w \in L : s \in Taken(w)
  BY <1>1, <1>2 DEF Landing
<1>3. ASSUME NEW s \in Landing'
      PROVE  0 < s /\ s <= storedP /\ (ledger = "running" => s < next) /\ s \notin rows
  <2>1. CASE s \in Landing
    BY <2>1 DEF LedgerInv, OrphansOK
  <2>2. CASE \E w \in L : s \in Taken(w)
    BY <1>1, <2>2, TakenInRange, CommitsApart
  <2> QED
    BY <1>2, <2>1, <2>2
<1>4. ASSUME NEW o \in orphans', NEW p \in orphans', o # p, NEW s \in o, s \in p
      PROVE  FALSE
  <2>1. CASE o \in orphans /\ p \in orphans
    BY <1>4, <2>1 DEF LedgerInv, OrphansOK
  <2>2. ASSUME NEW w \in L, o = Taken(w), p \in orphans PROVE FALSE
    BY <1>1, <1>4, <2>2, CommitsApart DEF Landing
  <2>3. ASSUME NEW w \in L, p = Taken(w), o \in orphans PROVE FALSE
    BY <1>1, <1>4, <2>3, CommitsApart DEF Landing
  <2>4. ASSUME NEW w \in L, NEW x \in L, o = Taken(w), p = Taken(x) PROVE FALSE
    BY <1>1, <1>4, <2>4, TakenApart
  <2> QED
    BY <1>1, <2>1, <2>2, <2>3, <2>4
<1> QED
  BY <1>2, <1>3, <1>4

(* The deaths of D, after which the monitors of E fire, keep the invariant *)
(* of a ledger that goes on running, when D and E have the same of the     *)
(* writers inside a transaction.                                           *)
LEMMA DeathKeeps ==
  ASSUME LedgerInv, TypeOK',
         NEW D \in SUBSET Writers, NEW E \in SUBSET Writers, NEW L, Die(D, L),
         \A x \in Writers : phase[x] \in InTransaction => (x \in D <=> x \in E),
         outstanding' = Orphaned(E),
         UNCHANGED <<next, visible, ledger, answered>>
  PROVE  /\ RangesOK' /\ HoldersOK' /\ RowsOK' /\ AnswersOK' /\ OrphansOK'
         /\ (\A r \in outstanding : r.dead) => (\A r \in outstanding' : r.dead)
<1>1. /\ \A q \in outstanding' : \E r \in outstanding :
           /\ q.first = r.first /\ q.last = r.last /\ q.holder = r.holder
           /\ q = IF r.holder \in E THEN [r EXCEPT !.dead = TRUE] ELSE r
           /\ ~q.dead => q = r /\ r.holder \notin E
      /\ \A r \in outstanding : r.holder \notin E => r \in outstanding'
  BY OrphanedRanges DEF LedgerInv
<1>2. \A r \in outstanding : r.holder \in Writers
  BY DEF LedgerInv, TypeOK, Reservation
<1>3. /\ phase' = [x \in Writers |-> IF x \in D THEN "idle" ELSE phase[x]]
      /\ used' = [x \in Writers |-> IF x \in D THEN 0 ELSE used[x]]
      /\ target' = [x \in Writers |-> IF x \in D THEN 0 ELSE target[x]]
      /\ waiters' = waiters \ D /\ rows' = rows /\ storedP' = storedP
  BY DEF Die
<1>4. RangesOK'
  <2>1. \A q \in outstanding' : q.first <= q.last /\ q.last < next'
    BY <1>1 DEF LedgerInv, RangesOK
  <2>2. ASSUME NEW q \in outstanding', NEW p \in outstanding', q # p
        PROVE  q.last < p.first \/ p.last < q.first
    <3>1. PICK r \in outstanding : q.first = r.first /\ q.last = r.last
            /\ q = IF r.holder \in E THEN [r EXCEPT !.dead = TRUE] ELSE r
      BY <1>1
    <3>2. PICK t \in outstanding : p.first = t.first /\ p.last = t.last
            /\ p = IF t.holder \in E THEN [t EXCEPT !.dead = TRUE] ELSE t
      BY <1>1
    <3>3. r # t
      BY <2>2, <3>1, <3>2
    <3> QED
      BY <3>1, <3>2, <3>3 DEF LedgerInv, RangesOK
  <2> QED
    BY <2>1, <2>2 DEF RangesOK
<1>5. \A q \in outstanding' : ~q.dead => q \in outstanding /\ q.holder \notin E
  BY <1>1
<1>h. \A q \in outstanding' : ~q.dead /\ ~q.lost =>
        /\ q \in outstanding /\ q.holder \in Writers
        /\ phase'[q.holder] = phase[q.holder] /\ used'[q.holder] = used[q.holder]
  BY <1>2, <1>3, <1>5 DEF LedgerInv, HoldersOK
<1>6. HoldersOK'
  <2>0. \A q \in outstanding' : ~q.dead => visible' < q.first
    BY <1>5 DEF LedgerInv, HoldersOK
  <2>1. \A q \in outstanding' : ~q.dead /\ ~q.lost =>
          /\ phase'[q.holder] \in InTransaction
          /\ used'[q.holder] = 0
               \/ (q.first <= used'[q.holder] /\ used'[q.holder] <= q.last)
    BY <1>h DEF LedgerInv, HoldersOK
  <2>2. \A q, p \in outstanding' :
          ~q.dead /\ ~q.lost /\ ~p.dead /\ ~p.lost /\ q.holder = p.holder => q = p
    BY <1>5 DEF LedgerInv, HoldersOK
  <2>3. ASSUME NEW x \in Writers, phase'[x] \in InTransaction
        PROVE  \E q \in outstanding' : q.holder = x /\ ~q.dead /\ ~q.lost
    <3>1. x \notin D /\ phase[x] \in InTransaction
      BY <2>3, <1>3 DEF InTransaction
    <3>2. PICK q \in outstanding : q.holder = x /\ ~q.dead /\ ~q.lost
      BY <3>1 DEF LedgerInv, HoldersOK
    <3> QED
      BY <3>1, <3>2, <1>1
  <2>4. \A x \in Writers : phase'[x] \notin InTransaction => used'[x] = 0
    BY <1>3 DEF LedgerInv, HoldersOK
  <2> QED
    BY <2>0, <2>1, <2>2, <2>3, <2>4 DEF HoldersOK
<1>7. RowsOK'
  <2>1. ~Indexed => RowsBelowNext'
    <3> SUFFICES ASSUME ~Indexed PROVE RowsBelowNext'
      OBVIOUS
    <3>1. RowsBelowNext
      BY DEF LedgerInv, RowsOK
    <3>2. ASSUME NEW q \in outstanding', NEW s \in rows',
                 ~q.dead, q.first <= s, s <= q.last
          PROVE  ~q.lost /\ phase'[q.holder] = "committed" /\ s <= used'[q.holder]
      <4>1. q \in outstanding /\ s \in rows
        BY <1>3, <1>5, <3>2
      <4>2. ~q.lost /\ phase[q.holder] = "committed" /\ s <= used[q.holder]
        BY <3>1, <3>2, <4>1 DEF RowsBelowNext
      <4> QED
        BY <1>h, <3>2, <4>2
    <3> QED
      BY <1>3, <3>1, <3>2 DEF RowsBelowNext
  <2>2. \A x \in Writers : phase'[x] = "committed" /\ used'[x] > 0
                             => used'[x] \in rows'
    BY <1>3 DEF LedgerInv, RowsOK
  <2>3. \A q \in outstanding', s \in rows' :
          ~q.dead /\ ~q.lost /\ phase'[q.holder] = "committing" /\ q.first <= s
            => used'[q.holder] < s
    BY <1>3, <1>h DEF LedgerInv, RowsOK
  <2>4. \A s \in rows' : 0 < s /\ s <= storedP'
    BY <1>3 DEF LedgerInv, RowsOK
  <2> QED
    BY <2>1, <2>2, <2>3, <2>4 DEF RowsOK
<1>8. AnswersOK'
  BY <1>3 DEF LedgerInv, AnswersOK, TypeOK
<1>9. OrphansOK'
  <2>1. ASSUME NEW s \in Landing', NEW q \in outstanding', ~q.dead
        PROVE  s < q.first \/ q.last < s
    <3>0. q \in outstanding /\ q.holder \notin E
      BY <1>5, <2>1
    <3>1. CASE s \in Landing
      BY <2>1, <3>0, <3>1 DEF LedgerInv, OrphansOK
    <3>2. ASSUME NEW w \in L, s \in Taken(w) PROVE s < q.first \/ q.last < s
      <4>0. w \in Writers /\ w \in D /\ phase[w] = "committing"
        BY DEF Die
      <4>1. PICK r \in outstanding : r.holder = w /\ r.first <= s /\ s <= r.last
        BY <3>2, <4>0, TakenInRange
      <4>2. w \in E
        BY <4>0 DEF InTransaction
      <4>3. q # r /\ s \in Nat
        BY <3>0, <3>2, <4>0, <4>1, <4>2, TakenInRange
      <4>4. /\ q.first \in Nat /\ q.last \in Nat /\ r.first \in Nat /\ r.last \in Nat
            /\ r.last < q.first \/ q.last < r.first
        BY <3>0, <4>3 DEF LedgerInv, RangesOK, TypeOK, Reservation
      <4> QED
        BY <4>1, <4>3, <4>4
    <3> QED
      BY <3>1, <3>2, LandingGrows
  <2>2. /\ \A s \in Landing' : /\ 0 < s /\ s <= storedP
                                /\ (ledger = "running" => s < next)
                                /\ s \notin rows
        /\ \A o, p \in orphans' : o # p => o \cap p = {}
    BY LandingGrows
  <2> QED
    BY <1>3, <2>1, <2>2 DEF OrphansOK
<1>10. (\A r \in outstanding : r.dead) => (\A r \in outstanding' : r.dead)
  BY <1>5
<1> QED
  BY <1>4, <1>6, <1>7, <1>8, <1>9, <1>10

(* A range added at next, of an idle process that knows of it and begins   *)
(* its transaction, or of one that gave its call up.                       *)
LEMMA AddRangeKeeps ==
  ASSUME LedgerInv, TypeOK',
         NEW w \in Writers, NEW last \in Nat, last >= next, NEW d \in BOOLEAN, NEW l \in BOOLEAN,
         NEW new, new = [first |-> next, last |-> last, holder |-> w, dead |-> d, lost |-> l],
         ledger = "running", phase[w] \notin InTransaction,
         EnsurePersisted(last), next' = last + 1,
         outstanding' = outstanding \cup {new},
         owner = "down" => d, ~l => ~d,
         \A x \in Writers : x # w => phase'[x] = phase[x],
         l => phase'[w] = phase[w], ~l => phase'[w] = "writing",
         phase'[w] = "awaiting" => phase[w] = "awaiting",
         phase[w] = "awaiting" => phase'[w] = "awaiting",
         UNCHANGED <<ledger, owner, visible, rows, orphans, used, target, answered, waiters>>
  PROVE  LedgerInv'
<1> USE BlockAssumption, BoundsAssumption
<1>0. TypeOK /\ TypeOK' /\ RangesOK /\ CountersOK /\ HoldersOK /\ RowsOK
      /\ AnswersOK /\ OrphansOK
  BY DEF LedgerInv
<1>n. /\ next \in Nat \ {0} /\ storedP \in Nat /\ persisted \in Nat /\ visible \in Nat
      /\ rows \subseteq Nat /\ outstanding \subseteq Reservation
      /\ used \in [Writers -> Nat] /\ Landing \subseteq Nat
      /\ \A r \in outstanding : r.holder \in Writers /\ r.first \in Nat \ {0}
                                /\ r.last \in Nat \ {0} /\ r.dead \in BOOLEAN
      /\ next' \in Nat /\ storedP' \in Nat /\ persisted' \in Nat
  BY <1>0 DEF TypeOK, Reservation, Landing
<1>r. new.first = next /\ new.last = last /\ new.holder = w /\ new.dead = d /\ new.lost = l
  OBVIOUS
<1>2. /\ storedP' >= storedP /\ persisted' <= storedP' /\ last <= persisted'
  BY <1>n, <1>0 DEF EnsurePersisted, Larger, CountersOK
<1>3. RangesOK'
  BY <1>0, <1>n, <1>r DEF RangesOK
<1>4. CountersOK'
  <2>1. visible <= storedP /\ visible < next
    BY <1>0 DEF CountersOK
  <2>2. visible' <= storedP'
    BY <2>1, <1>2, <1>n
  <2>3. visible' < next'
    BY <2>1, <1>n
  <2>4. next' <= persisted' + 1
    BY <1>n, <1>2, SuccessorMonotone
  <2>5. owner' = "down" => \A r \in outstanding' : r.dead
    BY <1>0, <1>r DEF CountersOK
  <2> QED
    BY <1>2, <2>2, <2>3, <2>4, <2>5 DEF CountersOK
<1>5. used[w] = 0 /\ visible < next
  BY <1>0 DEF HoldersOK, CountersOK
<1>6. \A r \in outstanding : ~r.dead /\ ~r.lost => r.holder # w
  BY <1>0 DEF HoldersOK
<1>7. HoldersOK'
  <2>0. \A r \in outstanding' : ~r.dead => visible' < r.first
    BY <1>0, <1>r, <1>5 DEF HoldersOK
  <2>1. \A r \in outstanding' : ~r.dead /\ ~r.lost =>
          /\ phase'[r.holder] \in InTransaction
          /\ used'[r.holder] = 0
               \/ (r.first <= used'[r.holder] /\ used'[r.holder] <= r.last)
    BY <1>0, <1>n, <1>r, <1>5, <1>6 DEF HoldersOK, InTransaction
  <2>2. \A q, p \in outstanding' :
          ~q.dead /\ ~q.lost /\ ~p.dead /\ ~p.lost /\ q.holder = p.holder => q = p
    BY <1>0, <1>n, <1>r, <1>6 DEF HoldersOK
  <2>3. \A x \in Writers : phase'[x] \in InTransaction =>
          \E q \in outstanding' : q.holder = x /\ ~q.dead /\ ~q.lost
    BY <1>0, <1>n, <1>r DEF HoldersOK
  <2>4. \A x \in Writers : phase'[x] \notin InTransaction => used'[x] = 0
    BY <1>0, <1>n, <1>5 DEF HoldersOK, InTransaction
  <2> QED
    BY <2>0, <2>1, <2>2, <2>3, <2>4 DEF HoldersOK
<1>8. RowsOK'
  <2>1. \A s \in rows' : 0 < s /\ s <= storedP'
    BY <1>0, <1>n, <1>2 DEF RowsOK
  <2>2. ~Indexed => RowsBelowNext'
    <3> SUFFICES ASSUME ~Indexed PROVE RowsBelowNext'
      OBVIOUS
    <3>1. RowsBelowNext
      BY <1>0 DEF RowsOK
    <3>2. \A s \in rows : s < next
      BY <3>1 DEF RowsBelowNext
    <3>3. \A s \in rows' : s < next'
      BY <1>n, <3>2
    <3>4. \A r \in outstanding', s \in rows' :
            ~r.dead /\ r.first <= s /\ s <= r.last
              => ~r.lost /\ phase'[r.holder] = "committed" /\ s <= used'[r.holder]
      <4> SUFFICES ASSUME NEW r \in outstanding', NEW s \in rows',
                          ~r.dead, r.first <= s, s <= r.last
                   PROVE  ~r.lost /\ phase'[r.holder] = "committed" /\ s <= used'[r.holder]
        OBVIOUS
      <4>0. s \in Nat /\ s < next
        BY <1>n, <3>2
      <4>1. r \in outstanding
        <5>1. r.first # next
          BY <1>n, <4>0
        <5> QED
          BY <1>r, <5>1
      <4>2. ~r.lost /\ phase[r.holder] = "committed" /\ s <= used[r.holder]
        BY <3>1, <4>1 DEF RowsBelowNext
      <4> QED
        BY <1>n, <1>6, <4>1, <4>2
    <3> QED
      BY <3>3, <3>4 DEF RowsBelowNext
  <2>3. \A x \in Writers : phase'[x] = "committed" /\ used'[x] > 0
                             => used'[x] \in rows'
    BY <1>0, <1>n DEF RowsOK
  <2>4. \A r \in outstanding', s \in rows' :
          ~r.dead /\ ~r.lost /\ phase'[r.holder] = "committing" /\ r.first <= s
            => used'[r.holder] < s
    BY <1>0, <1>n, <1>r, <1>6 DEF RowsOK
  <2> QED
    BY <2>1, <2>2, <2>3, <2>4 DEF RowsOK
<1>9. AnswersOK'
  BY <1>0 DEF AnswersOK, TypeOK
<1>10. OrphansOK'
  <2>1. ASSUME NEW s \in Landing'
        PROVE  /\ 0 < s /\ s <= storedP' /\ s < next' /\ s \notin rows'
               /\ \A r \in outstanding' : ~r.dead => s < r.first \/ r.last < s
    <3>1. /\ s \in Landing /\ s \in Nat
          /\ 0 < s /\ s <= storedP /\ s < next /\ s \notin rows
          /\ \A r \in outstanding : ~r.dead => s < r.first \/ r.last < s
      BY <1>0, <1>n DEF OrphansOK, Landing
    <3> QED
      BY <1>n, <1>r, <1>2, <3>1
  <2> QED
    BY <1>0, <2>1 DEF OrphansOK
<1> QED
  BY <1>3, <1>4, <1>7, <1>8, <1>9, <1>10 DEF LedgerInv

LEMMA InvStep ==
  ASSUME LedgerInv, [Next]_vars
  PROVE  LedgerInv'
<1> USE BlockAssumption, BoundsAssumption
<1>0. TypeOK /\ TypeOK' /\ RangesOK /\ CountersOK /\ HoldersOK /\ RowsOK
      /\ AnswersOK /\ OrphansOK
  BY TypeInductive DEF LedgerInv
<1>n. /\ next \in Nat \ {0} /\ storedP \in Nat /\ persisted \in Nat /\ visible \in Nat
      /\ rows \subseteq Nat /\ outstanding \subseteq Reservation
      /\ used \in [Writers -> Nat] /\ target \in [Writers -> Nat]
      /\ phase \in [Writers -> Phases]
      /\ \A r \in outstanding : r.holder \in Writers /\ r.first \in Nat \ {0}
                                /\ r.last \in Nat \ {0} /\ r.dead \in BOOLEAN
                                /\ r.lost \in BOOLEAN
      /\ next' \in Nat /\ storedP' \in Nat /\ persisted' \in Nat
      /\ Landing \subseteq Nat
  BY <1>0 DEF TypeOK, Reservation, Landing
<1>1. CASE Initialize
  <2>1. /\ \A r \in outstanding : r.dead
        /\ next' >= next /\ next' >= storedP + 1 /\ storedP' = persisted'
        /\ storedP' >= storedP /\ next' <= persisted' + 1
        /\ visible' < next' /\ visible' <= storedP'
    BY <1>1, <1>0, <1>n DEF Initialize, Opening, CountersOK, Larger
  <2>2. RangesOK'
    BY <1>1, <1>0, <1>n, <2>1 DEF Initialize, RangesOK
  <2>3. CountersOK'
    BY <1>1, <1>n, <1>0, <2>1 DEF Initialize, CountersOK, TypeOK
  <2>4. HoldersOK'
    BY <1>1, <1>0, <2>1 DEF Initialize, HoldersOK, writerVars
  <2>5. RowsOK'
    BY <1>1, <1>0, <1>n, <2>1 DEF Initialize, RowsOK, RowsBelowNext, writerVars
  <2>6. AnswersOK'
    BY <1>1, <1>0 DEF Initialize, AnswersOK, writerVars
  <2>7. OrphansOK'
    BY <1>1, <1>0, <1>n, <2>1 DEF Initialize, OrphansOK, Landing
  <2> QED
    BY <1>0, <2>2, <2>3, <2>4, <2>5, <2>6, <2>7 DEF LedgerInv
<1>2. CASE InitializeFails
  <2>1. storedP' >= storedP
    BY <1>2, <1>n DEF InitializeFails, Opening, Larger
  <2> QED
    BY <1>2, <1>0, <1>n, <2>1 DEF InitializeFails, LedgerInv, RangesOK, CountersOK,
       HoldersOK, RowsOK, RowsBelowNext, AnswersOK, OrphansOK, Landing, ledgerVars,
       writerVars, TypeOK
<1>3. ASSUME NEW w \in Writers, NEW count \in 1..MaxCount, Reserve(w, count)
      PROVE  LedgerInv'
  <2> DEFINE last == next + count - 1
             new  == [first |-> next, last |-> last, holder |-> w,
                      dead |-> FALSE, lost |-> FALSE]
  <2>1. /\ ledger = "running" /\ owner = "up" /\ phase[w] = "idle"
        /\ EnsurePersisted(last)
        /\ next' = last + 1 /\ outstanding' = outstanding \cup {new}
        /\ UNCHANGED <<ledger, owner, visible, rows, orphans, used, target, answered, waiters>>
        /\ last \in Nat /\ last >= next
    BY <1>3, <1>n DEF Reserve, Serving, runVars
  <2>2. /\ phase'[w] = "writing"
        /\ \A x \in Writers : x # w => phase'[x] = phase[x]
    BY <1>3, <1>n DEF Reserve
  <2>3. phase[w] \notin InTransaction
    BY <2>1 DEF InTransaction
  <2> HIDE DEF last
  <2> QED
    BY <1>0, <2>1, <2>2, <2>3, AddRangeKeeps
<1>l. ASSUME NEW w \in Writers, NEW count \in 1..MaxCount, ReserveLate(w, count)
      PROVE  LedgerInv'
  <2> DEFINE last == next + count - 1
             d    == owner = "down"
             new  == [first |-> next, last |-> last, holder |-> w,
                      dead |-> d, lost |-> TRUE]
  <2>1. /\ ledger = "running" /\ w \notin Writing
        /\ EnsurePersisted(last)
        /\ next' = last + 1 /\ outstanding' = outstanding \cup {new}
        /\ UNCHANGED <<ledger, owner, visible, rows, orphans, used, target, answered,
                       waiters, phase>>
        /\ last \in Nat /\ last >= next
    BY <1>l, <1>n DEF ReserveLate, Serving, runVars, writerVars
  <2>3. phase[w] \notin InTransaction
    BY <2>1 DEF InTransaction, Writing
  <2>4. d \in BOOLEAN /\ (owner = "down" => d)
    OBVIOUS
  <2> HIDE DEF last, d
  <2> QED
    BY <1>0, <2>1, <2>3, <2>4, AddRangeKeeps
<1>4. ASSUME NEW count \in 1..MaxCount, ReserveUnpersisted(count)
      PROVE  LedgerInv'
  <2>1. storedP' >= storedP
    BY <1>4, <1>n DEF ReserveUnpersisted, Larger
  <2> QED
    BY <1>4, <1>0, <1>n, <2>1 DEF ReserveUnpersisted, LedgerInv, RangesOK, CountersOK,
       HoldersOK, RowsOK, RowsBelowNext, AnswersOK, OrphansOK, Landing, ledgerVars,
       writerVars, runVars, TypeOK
<1>5. ASSUME NEW w \in Writers, CompleteCommitted(w) PROVE LedgerInv'
  <2>1. PICK r \in Held(w) : Finish(r, TakeBack(r, used[w]), version + 1)
    BY <1>5 DEF CompleteCommitted
  <2>2. /\ ledger = "running" /\ phase[w] = "committed"
        /\ phase' = [phase EXCEPT ![w] = "completed"]
        /\ used' = [used EXCEPT ![w] = 0]
        /\ UNCHANGED <<storedP, rows, orphans, owner, answered, waiters>>
    BY <1>5 DEF CompleteCommitted, Serving, storageVars, runVars
  <2>3. /\ phase'[w] \notin InTransaction
        /\ \A x \in Writers : x # w => phase'[x] = phase[x]
        /\ used[w] \in Nat /\ version + 1 \in Nat
    BY <1>0, <1>n, <2>2 DEF InTransaction, TypeOK
  <2>4. RangesOK' /\ CountersOK' /\ HoldersOK' /\ RowsOK' /\ OrphansOK'
    BY <1>0, <2>1, <2>2, <2>3, CompleteKeeps DEF LedgerInv
  <2>5. AnswersOK'
    <3>1. PICK seq \in IF used[w] > 0 THEN {used[w]} ELSE rows \cup {0} :
            target' = [target EXCEPT ![w] = seq]
      BY <1>5 DEF CompleteCommitted
    <3>2. seq \in rows \cup {0}
      BY <1>0, <2>2, <3>1 DEF RowsOK
    <3> QED
      BY <1>0, <1>n, <2>2, <3>1, <3>2 DEF AnswersOK
  <2> QED
    BY <1>0, <2>4, <2>5 DEF LedgerInv
<1>6. ASSUME NEW w \in Writers, CompleteAborted(w) PROVE LedgerInv'
  <2>1. PICK r \in Held(w) : Finish(r, TakeBack(r, 0), version)
    BY <1>6 DEF CompleteAborted
  <2>2. /\ ledger = "running" /\ phase[w] = "failed"
        /\ phase' = [phase EXCEPT ![w] = "idle"]
        /\ used' = [used EXCEPT ![w] = 0]
        /\ UNCHANGED <<storedP, rows, orphans, owner, target, answered, waiters>>
    BY <1>6 DEF CompleteAborted, Serving, storageVars, runVars
  <2>3. /\ phase'[w] \notin InTransaction
        /\ \A x \in Writers : x # w => phase'[x] = phase[x]
        /\ version \in Nat
    BY <1>0, <1>n, <2>2 DEF InTransaction, TypeOK
  <2>4. RangesOK' /\ CountersOK' /\ HoldersOK' /\ RowsOK' /\ OrphansOK'
    BY <1>0, <2>1, <2>2, <2>3, CompleteKeeps DEF LedgerInv
  <2>5. AnswersOK'
    BY <1>0, <1>n, <2>2 DEF AnswersOK
  <2> QED
    BY <1>0, <2>4, <2>5 DEF LedgerInv
<1>7. CASE HolderDown
  <2>1. PICK r \in outstanding : r.dead /\ Finish(r, next, version)
    BY <1>7 DEF HolderDown
  <2>2. /\ ledger = "running" /\ UNCHANGED <<storedP, rows, orphans, owner>>
        /\ UNCHANGED <<phase, used, target, answered, waiters>>
    BY <1>7 DEF HolderDown, Serving, storageVars, writerVars, runVars
  <2>3. /\ version \in Nat /\ next <= next /\ visible < next
        /\ \A q \in outstanding : q # r => q.last < next
        /\ \A s \in Landing : s < next
        /\ ~Indexed => \A s \in rows : s < next
    BY <1>0, <1>n, <2>2 DEF TypeOK, CountersOK, RangesOK, RowsOK, RowsBelowNext, OrphansOK
  <2>4. /\ RangesOK' /\ CountersOK' /\ OrphansOK'
        /\ \A q \in outstanding' : ~q.dead => visible' < q.first
        /\ ~Indexed => \A s \in rows' : s < next'
    BY <1>0, <1>n, <2>1, <2>2, <2>3, FinishKeeps
  <2>5. outstanding' = outstanding \ {r}
    BY <2>1 DEF Finish
  <2>6. HoldersOK'
    BY <1>0, <2>1, <2>2, <2>4, <2>5 DEF HoldersOK
  <2>7. RowsOK'
    BY <1>0, <2>2, <2>4, <2>5 DEF RowsOK, RowsBelowNext
  <2>8. AnswersOK'
    BY <1>0, <2>2 DEF AnswersOK
  <2> QED
    BY <1>0, <2>4, <2>6, <2>7, <2>8 DEF LedgerInv
<1>8. CASE FinishPublish
  <2> DEFINE woken == {x \in waiters : raised /\ target[x] <= visible}
  <2>1. /\ UNCHANGED <<ledger, owner, next, persisted, visible, outstanding, storedP,
                       rows, orphans, used>>
        /\ waiters' = waiters \ woken
        /\ answered' = answered \cup {target[x] : x \in woken}
    BY <1>8 DEF FinishPublish, storageVars, runVars
  <2>2. \A x \in Writers :
          /\ phase'[x] = IF x \in woken THEN "idle" ELSE phase[x]
          /\ target'[x] = IF x \in woken THEN 0 ELSE target[x]
    BY <1>8 DEF FinishPublish
  <2>w. woken \subseteq waiters
    OBVIOUS
  <2> HIDE DEF woken
  <2>3. \A x \in Writers : phase[x] \in InTransaction \/ phase'[x] \in InTransaction
                             => phase'[x] = phase[x]
    BY <1>0, <2>2, <2>w DEF AnswersOK, InTransaction
  <2>4. RangesOK' /\ CountersOK'
    BY <1>0, <2>1 DEF RangesOK, CountersOK
  <2>5. HoldersOK'
    BY <1>0, <1>n, <2>1, <2>3 DEF HoldersOK
  <2>6. RowsOK'
    <3>1. \A x \in Writers : /\ phase[x] = "committed" <=> phase'[x] = "committed"
                             /\ phase[x] = "committing" <=> phase'[x] = "committing"
      BY <2>3 DEF InTransaction
    <3> QED
      BY <1>0, <1>n, <2>1, <3>1 DEF RowsOK, RowsBelowNext
  <2>7. AnswersOK'
    <3>1. waiters \subseteq Writers
      BY <1>0 DEF TypeOK
    <3> QED
      BY <1>0, <2>1, <2>2, <2>w, <3>1 DEF AnswersOK
  <2>8. OrphansOK'
    BY <1>0, <2>1 DEF OrphansOK, Landing
  <2> QED
    BY <1>0, <2>4, <2>5, <2>6, <2>7, <2>8 DEF LedgerInv
<1>9. ASSUME NEW w \in Writers, Take(w) PROVE LedgerInv'
  <2>1. PICK r \in outstanding : /\ r.holder = w /\ ~r.dead /\ ~r.lost /\ used[w] < r.last
          /\ used' = [used EXCEPT ![w] = IF @ = 0 THEN r.first ELSE @ + 1]
    BY <1>9 DEF Take, Held
  <2>2. /\ phase[w] = "writing"
        /\ UNCHANGED <<ledger, owner, next, persisted, visible, outstanding, storedP,
                       rows, orphans, phase, target, answered, waiters>>
    BY <1>9 DEF Take, ledgerVars, storageVars, runVars
  <2>3. used'[w] = IF used[w] = 0 THEN r.first ELSE used[w] + 1
    BY <1>n, <2>1
  <2>4. r.first <= used'[w] /\ used'[w] <= r.last
    BY <1>0, <1>n, <2>1, <2>3 DEF HoldersOK, RangesOK
  <2>5. \A x \in Writers : x # w => used'[x] = used[x]
    BY <1>n, <2>1
  <2>6. HoldersOK'
    <3>1. \A q \in outstanding : ~q.dead /\ ~q.lost /\ q.holder = w => q = r
      BY <1>0, <2>1 DEF HoldersOK
    <3> QED
      BY <1>0, <1>n, <2>2, <2>4, <2>5, <3>1 DEF HoldersOK, InTransaction
  <2>7. RowsOK'
    BY <1>0, <1>n, <2>2, <2>5 DEF RowsOK, RowsBelowNext
  <2> QED
    BY <1>0, <2>2, <2>6, <2>7 DEF LedgerInv, RangesOK, CountersOK, AnswersOK,
       OrphansOK, Landing
<1>10. ASSUME NEW w \in Writers, IssueCommit(w) \/ Rollback(w) \/ FlushFails(w)
       PROVE  LedgerInv'
  <2>1. /\ UNCHANGED <<ledger, owner, next, persisted, visible, outstanding, storedP,
                       rows, orphans, used, target, answered, waiters>>
        /\ phase[w] \in {"writing", "committing"} \/ (phase[w] = "committed" /\ Indexed)
        /\ \A x \in Writers : x # w => phase'[x] = phase[x]
        /\ phase'[w] \in {"committing", "failed"}
    BY <1>10, <1>n DEF IssueCommit, Rollback, FlushFails, WriterStep, ledgerVars,
       storageVars, runVars
  <2>2. HoldersOK'
    BY <1>0, <1>n, <2>1 DEF HoldersOK, InTransaction
  <2>3. RowsOK'
    <3>1. \A x \in Writers : phase'[x] = "committed" /\ used'[x] > 0
                               => used'[x] \in rows'
      BY <1>0, <2>1 DEF RowsOK
    <3>2. ~Indexed => RowsBelowNext'
      BY <1>0, <1>n, <2>1 DEF RowsOK, RowsBelowNext
    <3>3. ASSUME NEW r \in outstanding', NEW s \in rows',
                 ~r.dead, ~r.lost, phase'[r.holder] = "committing", r.first <= s
          PROVE  used'[r.holder] < s
      <4>1. CASE phase[r.holder] = "committing"
        BY <1>0, <2>1, <3>3, <4>1 DEF RowsOK
      <4>2. CASE phase[r.holder] # "committing"
        <5>1. r.holder = w /\ r \in Held(w)
          BY <1>n, <2>1, <3>3, <4>2 DEF Held
        <5>2. Taken(w) \cap rows = {}
          BY <1>10, <1>n, <3>3, <5>1 DEF IssueCommit, Rollback, FlushFails, WriterStep
        <5>3. used[w] = 0 \/ s \notin r.first..used[w]
          BY <2>1, <5>1, <5>2 DEF Taken
        <5>4. 0 < s /\ s \in Nat /\ used[w] \in Nat /\ r.first \in Nat
          BY <1>0, <1>n, <2>1 DEF RowsOK
        <5> QED
          BY <2>1, <3>3, <5>1, <5>3, <5>4
      <4> QED
        BY <4>1, <4>2
    <3> QED
      BY <1>0, <2>1, <3>1, <3>2, <3>3 DEF RowsOK
  <2>4. AnswersOK'
    BY <1>0, <1>n, <2>1 DEF AnswersOK, TypeOK
  <2> QED
    BY <1>0, <2>1, <2>2, <2>3, <2>4 DEF LedgerInv, RangesOK, CountersOK,
       OrphansOK, Landing
<1>11. ASSUME NEW w \in Writers, CommitLands(w) PROVE LedgerInv'
  <2>1. /\ UNCHANGED <<ledger, owner, next, persisted, visible, outstanding, storedP,
                       orphans, used, target, answered, waiters>>
        /\ phase[w] = "committing" /\ phase' = [phase EXCEPT ![w] = "committed"]
        /\ rows' = rows \cup Taken(w)
    BY <1>11 DEF CommitLands, WriterStep, ledgerVars, runVars
  <2>2. PICK r \in outstanding : r.holder = w /\ ~r.dead /\ ~r.lost
    BY <1>0, <2>1 DEF HoldersOK, InTransaction
  <2>3. Held(w) = {r}
    BY <1>0, <2>2 DEF Held, HoldersOK
  <2>4. Taken(w) = IF used[w] = 0 THEN {} ELSE r.first..used[w]
    BY <2>3 DEF Taken
  <2>5. r.first <= r.last /\ r.last < next /\ (used[w] = 0 \/ used[w] <= r.last)
        /\ (used[w] > 0 => used[w] >= r.first)
    BY <1>0, <1>n, <2>2 DEF RangesOK, HoldersOK
  <2>c. next <= storedP + 1
    BY <1>0, <1>n, <2>2 DEF CountersOK, TypeOK
  <2>6. \A s \in Taken(w) : 0 < s /\ s < next /\ s <= storedP /\ s <= used[w]
                            /\ r.first <= s /\ s <= r.last
    BY <1>n, <2>c, <2>2, <2>4, <2>5
  <2>7. HoldersOK'
    BY <1>0, <1>n, <2>1 DEF HoldersOK, InTransaction
  <2>8. RowsOK'
    <3>1. \A s \in rows' : 0 < s /\ s <= storedP'
      BY <1>0, <2>1, <2>6 DEF RowsOK
    <3>q. ASSUME NEW q \in outstanding, NEW s \in Taken(w), q # r
          PROVE  s < q.first \/ q.last < s
      <4>1. r.last < q.first \/ q.last < r.first
        BY <1>0, <2>2, <3>q DEF RangesOK
      <4>2. s \in Nat /\ r.first <= s /\ s <= r.last
        BY <1>n, <2>4, <2>6
      <4> QED
        BY <1>n, <4>1, <4>2
    <3>2. ~Indexed => RowsBelowNext'
      <4> SUFFICES ASSUME ~Indexed PROVE RowsBelowNext'
        OBVIOUS
      <4>0. RowsBelowNext
        BY <1>0 DEF RowsOK
      <4>1. ASSUME NEW q \in outstanding', NEW s \in rows',
                   ~q.dead, q.first <= s, s <= q.last
            PROVE  ~q.lost /\ phase'[q.holder] = "committed" /\ s <= used'[q.holder]
        <5>1. CASE s \in rows
          BY <1>n, <2>1, <4>0, <4>1, <5>1 DEF RowsBelowNext
        <5>2. CASE s \in Taken(w)
          <6>1. s \in Nat
            BY <1>n, <2>4, <5>2
          <6>2. q = r
            BY <1>n, <2>1, <3>q, <4>1, <5>2, <6>1
          <6> QED
            BY <1>n, <2>1, <2>2, <2>6, <5>2, <6>2
        <5> QED
          BY <2>1, <5>1, <5>2
      <4>2. \A s \in rows' : ledger' = "running" => s < next'
        BY <2>1, <2>6, <4>0 DEF RowsBelowNext
      <4> QED
        BY <4>1, <4>2 DEF RowsBelowNext
    <3>3. \A x \in Writers : phase'[x] = "committed" /\ used'[x] > 0
                               => used'[x] \in rows'
      BY <1>0, <1>n, <2>1, <2>4, <2>5 DEF RowsOK
    <3>4. ASSUME NEW q \in outstanding', NEW s \in rows',
                 ~q.dead, ~q.lost, phase'[q.holder] = "committing", q.first <= s
          PROVE  used'[q.holder] < s
      <4>1. q # r /\ q \in outstanding /\ phase[q.holder] = "committing"
        BY <1>n, <2>1, <2>2, <3>4
      <4>2. CASE s \in rows
        BY <1>0, <2>1, <3>4, <4>1, <4>2 DEF RowsOK
      <4>3. CASE s \in Taken(w)
        <5>1. s \in Nat
          BY <1>n, <2>4, <4>3
        <5>2. q.last < s
          BY <1>n, <3>4, <3>q, <4>1, <4>3, <5>1
        <5>3. used[q.holder] = 0 \/ used[q.holder] <= q.last
          BY <1>0, <3>4, <4>1 DEF HoldersOK
        <5> QED
          BY <1>n, <2>1, <2>6, <4>1, <4>3, <5>1, <5>2, <5>3
      <4> QED
        BY <2>1, <4>2, <4>3
    <3> QED
      BY <3>1, <3>2, <3>3, <3>4 DEF RowsOK
  <2>9. AnswersOK'
    BY <1>0, <1>n, <2>1 DEF AnswersOK, TypeOK
  <2>10. OrphansOK'
    <3>1. \A s \in Taken(w) : s \notin Landing
      BY CommitsApart
    <3> QED
      BY <1>0, <2>1, <3>1 DEF OrphansOK, Landing
  <2> QED
    BY <1>0, <2>1, <2>7, <2>8, <2>9, <2>10 DEF LedgerInv, RangesOK, CountersOK
<1>12. CASE OrphanLands
  <2>1. PICK o \in orphans : rows' = rows \cup o /\ orphans' = orphans \ {o}
    BY <1>12 DEF OrphanLands
  <2>2. /\ UNCHANGED <<ledger, owner, next, persisted, visible, outstanding, storedP,
                       phase, used, target, answered, waiters>>
        /\ Landing' \subseteq Landing /\ o \subseteq Landing
    BY <1>12, <2>1 DEF OrphanLands, ledgerVars, writerVars, runVars, Landing
  <2>3. RowsOK'
    <3>1. \A s \in rows' : 0 < s /\ s <= storedP'
      BY <1>0, <2>1, <2>2 DEF RowsOK, OrphansOK
    <3>2. ASSUME NEW r \in outstanding, NEW s \in o, ~r.dead
          PROVE  s < r.first \/ r.last < s
      BY <1>0, <1>n, <2>2, <3>2 DEF OrphansOK
    <3>n. \A s \in o : s \in Nat
      BY <1>n, <2>2
    <3>3. ~Indexed => RowsBelowNext'
      <4> SUFFICES ASSUME ~Indexed PROVE RowsBelowNext'
        OBVIOUS
      <4>0. RowsBelowNext
        BY <1>0 DEF RowsOK
      <4>1. \A s \in rows' : ledger' = "running" => s < next'
        <5>1. \A s \in rows : ledger = "running" => s < next
          BY <4>0 DEF RowsBelowNext
        <5>2. \A s \in o : ledger = "running" => s < next
          BY <1>0, <2>2 DEF OrphansOK
        <5> QED
          BY <2>1, <2>2, <5>1, <5>2
      <4>2. ASSUME NEW r \in outstanding', NEW s \in rows',
                   ~r.dead, r.first <= s, s <= r.last
            PROVE  ~r.lost /\ phase'[r.holder] = "committed" /\ s <= used'[r.holder]
        <5>1. s \notin o
          <6>1. r \in outstanding /\ r.first \in Nat /\ r.last \in Nat
            BY <1>n, <2>2
          <6>2. s \in o => (s < r.first \/ r.last < s) /\ s \in Nat
            BY <3>2, <3>n, <4>2, <6>1
          <6> QED
            BY <4>2, <6>1, <6>2
        <5> QED
          BY <2>1, <2>2, <4>0, <4>2, <5>1 DEF RowsBelowNext
      <4> QED
        BY <4>1, <4>2 DEF RowsBelowNext
    <3>4. ASSUME NEW r \in outstanding', NEW s \in rows',
                 ~r.dead, ~r.lost, phase'[r.holder] = "committing", r.first <= s
          PROVE  used'[r.holder] < s
      <4>1. CASE s \in rows
        BY <1>0, <2>2, <3>4, <4>1 DEF RowsOK
      <4>2. CASE s \in o
        <5>1. r.last < s /\ s \in Nat /\ s > 0
          BY <1>0, <1>n, <2>2, <3>2, <3>n, <3>4, <4>2 DEF OrphansOK
        <5>2. used[r.holder] = 0 \/ used[r.holder] <= r.last
          BY <1>0, <2>2, <3>4 DEF HoldersOK
        <5> QED
          BY <1>n, <2>2, <5>1, <5>2
      <4> QED
        BY <2>1, <4>1, <4>2
    <3>5. \A x \in Writers : phase'[x] = "committed" /\ used'[x] > 0
                               => used'[x] \in rows'
      BY <1>0, <2>1, <2>2 DEF RowsOK
    <3> QED
      BY <3>1, <3>3, <3>4, <3>5 DEF RowsOK
  <2>4. OrphansOK'
    <3>1. \A s \in Landing' : s \notin o
      BY <1>0, <2>1 DEF OrphansOK, Landing
    <3> QED
      BY <1>0, <2>1, <2>2, <3>1 DEF OrphansOK
  <2> QED
    BY <1>0, <2>1, <2>2, <2>3, <2>4 DEF LedgerInv, RangesOK, CountersOK, HoldersOK,
       AnswersOK
<1>13. ASSUME NEW w \in Writers, Await(w) \/ AwaitDeadline(w) PROVE LedgerInv'
  <2>1. /\ UNCHANGED <<ledger, owner, next, persisted, visible, outstanding, storedP,
                       rows, orphans, used>>
        /\ phase[w] \in {"completed", "awaiting"}
        /\ \A x \in Writers : x # w => phase'[x] = phase[x]
        /\ phase'[w] \in {"idle", "awaiting"}
    BY <1>13, <1>n DEF Await, AwaitDeadline, Answer, ledgerVars, storageVars, runVars
  <2>2. HoldersOK'
    BY <1>0, <1>n, <2>1 DEF HoldersOK, InTransaction
  <2>3. RowsOK'
    BY <1>0, <1>n, <2>1 DEF RowsOK, RowsBelowNext
  <2>4. AnswersOK'
    BY <1>0, <1>n, <1>13, <2>1 DEF Await, AwaitDeadline, Answer, AnswersOK, TypeOK
  <2> QED
    BY <1>0, <2>1, <2>2, <2>3, <2>4 DEF LedgerInv, RangesOK, CountersOK,
       OrphansOK, Landing
<1>14. ASSUME NEW w \in Writers, KillWriter(w) PROVE LedgerInv'
  <2>1. PICK L \in SUBSET {w} : Die({w} \cap Writing, L)
    BY <1>14 DEF KillWriter
  <2>2. /\ UNCHANGED <<ledger, owner, next, persisted, visible, answered>>
        /\ outstanding' = Orphaned({w})
    BY <1>14 DEF KillWriter, runVars
  <2>d. /\ {w} \cap Writing \in SUBSET Writers
        /\ \A x \in Writers : phase[x] \in InTransaction =>
             (x \in {w} \cap Writing <=> x \in {w})
    BY DEF Writing, InTransaction
  <2>3. /\ RangesOK' /\ HoldersOK' /\ RowsOK' /\ AnswersOK' /\ OrphansOK'
        /\ (\A r \in outstanding : r.dead) => (\A r \in outstanding' : r.dead)
    BY <2>1, <2>2, <2>d, <1>0, DeathKeeps
  <2>4. outstanding = {} => outstanding' = {}
    BY <2>2 DEF Orphaned
  <2>5. CountersOK'
    BY <1>0, <2>1, <2>2, <2>3, <2>4 DEF CountersOK, Die
  <2> QED
    BY <1>0, <2>3, <2>5 DEF LedgerInv
<1>k. ASSUME NEW w \in Writers, KillCaller(w) PROVE LedgerInv'
  <2>1. /\ Die({w}, {}) /\ phase[w] \in {"completed", "awaiting"}
        /\ UNCHANGED <<ledger, owner, next, persisted, visible, outstanding, answered>>
    BY <1>k DEF KillCaller, ledgerVars, runVars
  <2>2. outstanding' = Orphaned({})
    BY <2>1 DEF Orphaned
  <2>d. \A x \in Writers : phase[x] \in InTransaction => (x \in {w} <=> x \in {})
    BY <2>1 DEF InTransaction
  <2>3. RangesOK' /\ HoldersOK' /\ RowsOK' /\ AnswersOK' /\ OrphansOK'
    BY <2>1, <2>2, <2>d, <1>0, DeathKeeps
  <2>4. CountersOK'
    BY <1>0, <2>1 DEF CountersOK, Die
  <2> QED
    BY <1>0, <2>3, <2>4 DEF LedgerInv
<1>15. CASE OwnerCrash
  <2>1. PICK L \in SUBSET Writing : Die(Writing, L)
    BY <1>15 DEF OwnerCrash
  <2>2. /\ UNCHANGED <<ledger, next, persisted, visible, answered>>
        /\ outstanding' = Orphaned(Writers) /\ owner = "up" /\ Writing \in SUBSET Writers
    BY <1>15 DEF OwnerCrash, Writing
  <2>d. \A x \in Writers : phase[x] \in InTransaction => (x \in Writing <=> x \in Writers)
    BY DEF Writing, InTransaction
  <2>3. /\ RangesOK' /\ HoldersOK' /\ RowsOK' /\ AnswersOK' /\ OrphansOK'
    BY <2>1, <2>2, <2>d, <1>0, DeathKeeps
  <2>4. \A q \in outstanding' : q.dead
    <3>1. \A q \in outstanding' : ~q.dead =>
            \E r \in outstanding : q = r /\ r.holder \notin Writers
      BY <1>0, <2>2, OrphanedRanges
    <3> QED
      BY <1>n, <3>1
  <2>5. ledger # "down"
    BY <1>0, <2>2 DEF CountersOK
  <2>6. CountersOK'
    BY <1>0, <2>1, <2>2, <2>4, <2>5 DEF CountersOK, Die
  <2> QED
    BY <1>0, <2>3, <2>6 DEF LedgerInv
<1>16. CASE LedgerCrash
  <2>1. PICK L \in SUBSET Writing : Die(Writing \cup waiters, L)
    BY <1>16 DEF LedgerCrash
  <2>2. /\ ledger' = "down" /\ owner' = "down" /\ outstanding' = {}
        /\ visible' = visible
        /\ answered' = answered \cup {target[x] : x \in waiters}
    BY <1>16 DEF LedgerCrash
  <2>3. /\ phase' = [x \in Writers |-> IF x \in Writing \cup waiters THEN "idle" ELSE phase[x]]
        /\ used' = [x \in Writers |-> IF x \in Writing \cup waiters THEN 0 ELSE used[x]]
        /\ target' = [x \in Writers |-> IF x \in Writing \cup waiters THEN 0 ELSE target[x]]
        /\ waiters' = {} /\ rows' = rows /\ storedP' = storedP
    BY <1>0, <2>1 DEF Die
  <2>4. \A x \in Writers : phase'[x] \notin InTransaction
    BY <2>3 DEF InTransaction, Writing
  <2>5. RangesOK' /\ CountersOK'
    BY <1>0, <2>2, <2>3 DEF RangesOK, CountersOK
  <2>6. HoldersOK'
    BY <1>0, <2>2, <2>3, <2>4 DEF HoldersOK, InTransaction
  <2>7. RowsOK'
    <3>1. \A x \in Writers : phase'[x] # "committed"
      BY <2>4 DEF InTransaction
    <3>2. RowsBelowNext'
      BY <2>2 DEF RowsBelowNext
    <3> QED
      BY <1>0, <2>2, <2>3, <3>1, <3>2 DEF RowsOK
  <2>8. AnswersOK'
    BY <1>0, <2>2, <2>3 DEF AnswersOK, TypeOK
  <2>9. OrphansOK'
    <3>1. Writing \cup waiters \in SUBSET Writers
      BY <1>0 DEF Writing, TypeOK
    <3>2. /\ \A s \in Landing' : 0 < s /\ s <= storedP /\ s \notin rows
          /\ \A o, p \in orphans' : o # p => o \cap p = {}
      BY <2>1, <3>1, LandingGrows
    <3> QED
      BY <2>2, <2>3, <3>2 DEF OrphansOK
  <2> QED
    BY <1>0, <2>5, <2>6, <2>7, <2>8, <2>9 DEF LedgerInv
<1>17. CASE UNCHANGED vars
  BY <1>0, <1>17 DEF LedgerInv, RangesOK, CountersOK, HoldersOK, RowsOK,
     RowsBelowNext, AnswersOK, OrphansOK, Landing, vars, ledgerVars, storageVars, writerVars, runVars
<1> QED
  BY <1>1, <1>2, <1>3, <1>4, <1>5, <1>6, <1>7, <1>8, <1>9, <1>10, <1>11, <1>12,
     <1>13, <1>14, <1>15, <1>16, <1>17, <1>l, <1>k DEF Next

-----------------------------------------------------------------------------
(* What the invariant gives.                                               *)

LEMMA InvAlways == Spec => []LedgerInv
<1>1. Init => LedgerInv
  BY InvInit
<1>2. LedgerInv /\ [Next]_vars => LedgerInv'
  BY InvStep
<1> QED
  BY <1>1, <1>2, PTL DEF Spec

(* P is at or above every stored or promised sequence and every W.         *)
THEOREM PersistedFirst == Spec => []ReservedThrough
<1>1. LedgerInv => ReservedThrough
  <2> SUFFICES ASSUME LedgerInv PROVE ReservedThrough
    OBVIOUS
  <2>1. \A r \in outstanding : ledger = "running" => r.last <= storedP
    <3> SUFFICES ASSUME NEW r \in outstanding, ledger = "running"
                 PROVE  r.last <= storedP
      OBVIOUS
    <3> QED
      BY DEF LedgerInv, TypeOK, Reservation, RangesOK, CountersOK
  <2> QED
    BY <2>1 DEF LedgerInv, ReservedThrough, RowsOK, CountersOK
<1> QED
  BY <1>1, InvAlways, PTL

(* No two transactions take the same number and no two COMMITs in flight   *)
(* store it, with numbers taken back, crashes and restarts; and, where a   *)
(* write has no flush to fail, none takes a number that is stored.         *)
THEOREM SequencesApart == Spec => []NumbersApart
<1>1. LedgerInv => NumbersApart
  <2> SUFFICES ASSUME LedgerInv PROVE NumbersApart
    OBVIOUS
  <2>1. \A w \in Writers : phase[w] = "committing" => Taken(w) \cap rows = {}
    BY CommitsApart
  <2>2. \A w, x \in Writers : w # x => Taken(w) \cap Taken(x) = {}
    BY TakenApart
  <2>3. ASSUME NEW o \in orphans
        PROVE  /\ o \cap rows = {}
               /\ \A w \in Writers : o \cap Taken(w) = {}
               /\ \A p \in orphans : o # p => o \cap p = {}
    <3>1. o \subseteq Landing
      BY DEF Landing
    <3>2. o \cap rows = {}
      BY <3>1 DEF LedgerInv, OrphansOK
    <3>3. \A w \in Writers : o \cap Taken(w) = {}
      BY <3>1, CommitsApart
    <3>4. \A p \in orphans : o # p => o \cap p = {}
      BY DEF LedgerInv, OrphansOK
    <3> QED
      BY <3>2, <3>3, <3>4
  <2>4. ASSUME ~Indexed, NEW w \in Writers, phase[w] = "writing",
               NEW s \in Taken(w), s \in rows
        PROVE  FALSE
    <3>1. \E r \in outstanding : /\ r.holder = w /\ ~r.dead
                                 /\ r.first <= s /\ s <= r.last
      BY TakenInRange
    <3>2. RowsBelowNext
      BY <2>4 DEF LedgerInv, RowsOK
    <3> QED
      BY <2>4, <3>1, <3>2 DEF RowsBelowNext
  <2> QED
    BY <2>1, <2>2, <2>3, <2>4 DEF NumbersApart, NoSequenceReuse
<1> QED
  BY <1>1, InvAlways, PTL

(* A write answered ok is durable.                                         *)
THEOREM AnswersDurable == Spec => []AnsweredIsStored
<1>1. LedgerInv => AnsweredIsStored
  BY DEF LedgerInv, AnswersOK, AnsweredIsStored
<1> QED
  BY <1>1, InvAlways, PTL

(* What a transaction takes lies above W.                                  *)
LEMMA TakenAboveVisible ==
  ASSUME LedgerInv, NEW w \in Writers, NEW s \in Taken(w)
  PROVE  s > visible
<1>1. PICK r \in outstanding : ~r.dead /\ r.first <= s
  BY TakenInRange
<1>2. visible < r.first /\ r.first \in Nat /\ visible \in Nat /\ s \in Nat
  BY <1>1, TakenInRange DEF LedgerInv, TypeOK, HoldersOK, Reservation
<1> QED
  BY <1>1, <1>2

(* While no process dies and no orphan lands, rows are only added, above   *)
(* W, and W only rises.                                                    *)
LEMMA RowsAboveVisible ==
  ASSUME LedgerInv, LedgerInv', [Next]_vars
  PROVE  \/ /\ rows \subseteq rows' /\ visible <= visible' /\ orphans' = orphans
            /\ visible' # visible => rows' = rows
            /\ \A s \in rows' \ rows : s > visible
         \/ /\ rows' = rows /\ visible' = visible
            /\ \E D \in SUBSET Writers : \E L : Die(D, L)
         \/ OrphanLands
<1>0. visible \in Nat /\ storedP \in Nat /\ visible <= storedP /\ visible' \in Nat
      /\ outstanding \subseteq Reservation
  BY DEF LedgerInv, TypeOK, CountersOK
<1>1. CASE Initialize
  BY <1>0, <1>1 DEF Initialize, Larger
<1>2. ASSUME \/ HolderDown
             \/ \E w \in Writers : CompleteCommitted(w) \/ CompleteAborted(w)
      PROVE  rows' = rows /\ visible <= visible' /\ orphans' = orphans
  <2>1. PICK r \in outstanding, n \in Int, v \in Int : Finish(r, n, v)
    <3>1. \A r \in outstanding, w \in Writers :
            /\ next \in Int /\ version \in Int /\ version + 1 \in Int
            /\ TakeBack(r, 0) \in Int /\ TakeBack(r, used[w]) \in Int
      BY DEF TakeBack, Larger, LedgerInv, TypeOK, Reservation
    <3>2. CASE HolderDown
      BY <3>2 DEF HolderDown, LedgerInv, TypeOK
    <3>3. CASE \E w \in Writers : CompleteCommitted(w) \/ CompleteAborted(w)
      BY <3>1, <3>3 DEF CompleteCommitted, CompleteAborted, Held
    <3> QED
      BY <1>2, <3>2, <3>3
  <2>2. rows' = rows /\ orphans' = orphans
    BY <1>2 DEF CompleteCommitted, CompleteAborted, HolderDown, storageVars
  <2>3. visible' = visible \/ visible' >= visible
    BY <2>1, <1>0 DEF Finish, Larger
  <2> QED
    BY <1>0, <2>2, <2>3
<1>3. ASSUME NEW w \in Writers, CommitLands(w)
      PROVE  /\ rows \subseteq rows' /\ visible' = visible /\ orphans' = orphans
             /\ \A s \in rows' \ rows : s > visible
  <2>1. rows' = rows \cup Taken(w) /\ visible' = visible /\ orphans' = orphans
    BY <1>3 DEF CommitLands, WriterStep, ledgerVars
  <2> QED
    BY <2>1, TakenAboveVisible
<1>4. ASSUME \/ InitializeFails \/ FinishPublish
             \/ \E count \in 1..MaxCount : ReserveUnpersisted(count)
             \/ \E w \in Writers, count \in 1..MaxCount : Reserve(w, count)
             \/ \E w \in Writers, count \in 1..MaxCount : ReserveLate(w, count)
             \/ \E w \in Writers : \/ Take(w) \/ IssueCommit(w) \/ Rollback(w)
                                  \/ FlushFails(w) \/ Await(w) \/ AwaitDeadline(w)
      PROVE  rows' = rows /\ visible' = visible /\ orphans' = orphans
  BY <1>4 DEF InitializeFails, Reserve, ReserveLate, ReserveUnpersisted, FinishPublish,
     Take, IssueCommit, Rollback, FlushFails, WriterStep, Await, AwaitDeadline,
     ledgerVars, storageVars
<1>5. ASSUME \/ OwnerCrash \/ LedgerCrash
             \/ \E w \in Writers : KillWriter(w) \/ KillCaller(w)
      PROVE  /\ rows' = rows /\ visible' = visible
             /\ \E D \in SUBSET Writers : \E L : Die(D, L)
  <2>1. rows' = rows /\ visible' = visible
    BY <1>5 DEF KillWriter, KillCaller, OwnerCrash, LedgerCrash, Die, ledgerVars
  <2>2. Writing \in SUBSET Writers /\ waiters \in SUBSET Writers
    BY DEF Writing, LedgerInv, TypeOK
  <2>3. CASE OwnerCrash
    BY <2>1, <2>2, <2>3 DEF OwnerCrash
  <2>4. CASE LedgerCrash
    BY <2>1, <2>2, <2>4 DEF LedgerCrash
  <2>5. ASSUME NEW w \in Writers, KillWriter(w)
        PROVE  \E D \in SUBSET Writers : \E L : Die(D, L)
    BY <2>5 DEF KillWriter
  <2>6. ASSUME NEW w \in Writers, KillCaller(w)
        PROVE  \E D \in SUBSET Writers : \E L : Die(D, L)
    BY <2>6 DEF KillCaller
  <2> QED
    BY <1>5, <2>1, <2>3, <2>4, <2>5, <2>6
<1>7. CASE UNCHANGED vars
  BY <1>0, <1>7 DEF vars, ledgerVars, storageVars
<1> QED
  BY <1>0, <1>1, <1>2, <1>3, <1>4, <1>5, <1>7 DEF Next

(* The ledger implements the stable feed: what a reader was served below a *)
(* watermark is what every later reader is served below it, and the only   *)
(* rows that come later are those of COMMITs whose process died.           *)
THEOREM FeedStability == Spec => FeedIsStable
<1>1. Init => Feed!Init
  BY DEF Init, Feed!Init, Landing
<1>2. ASSUME LedgerInv, LedgerInv', [Next]_vars
      PROVE  [Feed!Next]_(Feed!feedVars)
  <2> DEFINE feed == {s \in rows : s <= visible}
  <2>2. visible \in Nat /\ visible' \in Nat /\ rows \subseteq Nat /\ rows' \subseteq Nat
    BY <1>2 DEF LedgerInv, TypeOK
  <2>3. ASSUME rows \subseteq rows', visible <= visible', orphans' = orphans,
               visible' # visible => rows' = rows,
               \A s \in rows' \ rows : s > visible
        PROVE  [Feed!Next]_(Feed!feedVars)
    <3>l. Landing' = Landing
      BY <2>3 DEF Landing
    <3>1. CASE visible' = visible
      <4>1. \A s \in rows' : s <= visible => s \in rows
        BY <2>2, <2>3
      <4>2. feed' = feed
        BY <2>3, <3>1, <4>1
      <4> QED
        BY <3>1, <3>l, <4>2 DEF Feed!feedVars
    <3>2. CASE visible' # visible
      <4>1. rows' = rows /\ visible' > visible
        BY <2>2, <2>3, <3>2
      <4>2. feed \subseteq feed'
        <5> SUFFICES ASSUME NEW s \in rows, s <= visible PROVE s <= visible'
          BY <4>1
        <5> QED
          BY <2>2, <4>1
      <4>3. feed' \ feed \subseteq (visible + 1)..visible'
        <5> SUFFICES ASSUME NEW s \in rows, s <= visible', ~(s <= visible)
                     PROVE  s \in (visible + 1)..visible'
          BY <4>1
        <5> QED
          BY <2>2
      <4> QED
        BY <2>2, <3>l, <4>1, <4>2, <4>3 DEF Feed!Next, Feed!Advance
    <3> QED
      BY <3>1, <3>2
  <2>4. ASSUME rows' = rows, visible' = visible,
               NEW D \in SUBSET Writers, NEW L, Die(D, L)
        PROVE  [Feed!Next]_(Feed!feedVars)
    <3>1. Landing \subseteq Landing'
      BY <2>4 DEF Die, Landing
    <3>2. ASSUME NEW s \in Landing' \ Landing PROVE s > visible
      <4>1. PICK w \in L : s \in Taken(w)
        BY <1>2, <2>4, LandingGrows
      <4>2. w \in Writers
        BY <2>4 DEF Die
      <4> QED
        BY <1>2, <4>1, <4>2, TakenAboveVisible
    <3>3. feed' = feed
      BY <2>4
    <3> QED
      BY <2>4, <3>1, <3>2, <3>3 DEF Feed!Next, Feed!Fall
  <2>5. CASE OrphanLands
    <3>1. PICK o \in orphans : rows' = rows \cup o /\ orphans' = orphans \ {o}
      BY <2>5 DEF OrphanLands
    <3>2. visible' = visible
      BY <2>5 DEF OrphanLands, ledgerVars
    <3>3. Landing' \subseteq Landing /\ Landing \ Landing' = o
      BY <1>2, <3>1 DEF LedgerInv, OrphansOK, Landing
    <3>4. feed' = feed \cup {s \in Landing \ Landing' : s <= visible}
      BY <3>1, <3>2, <3>3
    <3> QED
      BY <3>2, <3>3, <3>4 DEF Feed!Next, Feed!Arrive
  <2> QED
    BY <1>2, <2>3, <2>4, <2>5, RowsAboveVisible
<1> QED
  BY <1>1, <1>2, InvAlways, PTL DEF Spec, FeedIsStable, Feed!Spec

-----------------------------------------------------------------------------
(* Nothing waits for nothing.                                              *)

(* W has reached all that was handed out, or the start of an open range;   *)
(* and a ledger that lost its state starts over.                           *)
FeedReaches ==
  /\ ledger = "running" =>
       next <= visible + 1 \/ \E r \in outstanding : r.first <= visible + 1
  /\ ledger = "down" => next = 1

(* A parked caller waits for more than W has reached, or the handler that  *)
(* raised W is about to answer it, or the owner or the ledger restarted.   *)
ParkedForMore ==
  /\ \A w \in Writers : phase[w] = "awaiting" =>
       /\ w \in waiters /\ ledger = "running"
       /\ target[w] <= visible => (publishing /\ raised) \/ restarts > 0
  /\ ledger = "running" /\ owner = "down" => restarts > 0

(* A sequence above W lies at or beyond an open range, or is not handed    *)
(* out: then a stored one was given back, which takes a flush that failed. *)
HeldBack(s) ==
  \/ \E r \in outstanding : r.first <= s
  \/ Indexed /\ next <= s

HeldBackByRange ==
  /\ ledger = "running" => \A s \in rows : s <= visible \/ HeldBack(s)
  /\ \A w \in Writers : phase[w] = "awaiting" =>
       /\ w \in waiters /\ ledger = "running"
       /\ \/ target[w] > visible /\ HeldBack(target[w])
          \/ target[w] <= visible /\ ((publishing /\ raised) \/ restarts > 0)
  /\ \A r \in outstanding : r.dead \/ r.lost \/ phase[r.holder] \in InTransaction

(* Publishing W leaves it at all that was handed out or at an open range.  *)
LEMMA FinishReaches ==
  ASSUME LedgerInv, NEW r \in outstanding, NEW n \in Nat \ {0}, NEW v \in Nat,
         Finish(r, n, v)
  PROVE  next' <= visible' + 1 \/ \E q \in outstanding' : q.first <= visible' + 1
<1>1. outstanding' \in SUBSET Reservation /\ next' = n /\ visible \in Nat
      /\ visible' = Larger(visible, Watermark(outstanding', n))
  BY DEF Finish, LedgerInv, TypeOK
<1>2. Watermark(outstanding', n) \in Nat
  BY <1>1, WatermarkType
<1>3. Watermark(outstanding', n) <= visible' /\ visible' \in Nat
  BY <1>1, <1>2 DEF Larger
<1>4. CASE outstanding' = {}
  BY <1>1, <1>3, <1>4 DEF Watermark
<1>5. CASE outstanding' # {}
  <2>1. Lowest(outstanding') \in outstanding'
    BY <1>1, <1>5, LowestIsFirst
  <2>2. Lowest(outstanding').first \in Nat
    BY <1>1, <2>1 DEF Reservation
  <2>3. Watermark(outstanding', n) = Lowest(outstanding').first - 1
    BY <1>5 DEF Watermark
  <2>4. Lowest(outstanding').first <= visible' + 1
    BY <1>3, <2>2, <2>3
  <2> QED
    BY <2>1, <2>4
<1> QED
  BY <1>4, <1>5

(* What lies above W, stored or waited for, is held back.                  *)
LEMMA BeyondIsHeld ==
  ASSUME LedgerInv, FeedReaches, ledger = "running",
         NEW s \in rows \cup {0}, s > visible
  PROVE  HeldBack(s)
<1>1. visible \in Nat /\ next \in Nat /\ s \in Nat /\ s \in rows
      /\ outstanding \subseteq Reservation
  BY DEF LedgerInv, TypeOK
<1>2. CASE s < next
  <2>1. PICK r \in outstanding : r.first <= visible + 1
    BY <1>1, <1>2 DEF FeedReaches
  <2>2. r.first \in Nat
    BY <1>1 DEF Reservation
  <2> QED
    BY <1>1, <2>1, <2>2 DEF HeldBack
<1>3. CASE ~(s < next)
  <2>1. Indexed
    BY <1>1, <1>3 DEF LedgerInv, RowsOK, RowsBelowNext
  <2> QED
    BY <1>1, <1>3, <2>1 DEF HeldBack
<1> QED
  BY <1>2, <1>3

(* Deaths keep the open ranges where they are.                             *)
LEMMA OrphanedKeeps ==
  ASSUME NEW D, NEW s \in Int, NEW r \in outstanding, r.first <= s,
         outstanding \subseteq Reservation, outstanding' = Orphaned(D)
  PROVE  \E q \in outstanding' : q.first <= s
<1> DEFINE q == IF r.holder \in D THEN [r EXCEPT !.dead = TRUE] ELSE r
<1>1. q \in outstanding'
  BY DEF Orphaned
<1>2. q.first = r.first
  BY DEF Reservation
<1> QED
  BY <1>1, <1>2

LEMMA HeldInit == Init => FeedReaches /\ ParkedForMore
  BY DEF Init, FeedReaches, ParkedForMore

LEMMA HeldStep ==
  LedgerInv /\ FeedReaches /\ ParkedForMore /\ [Next]_vars
    => FeedReaches' /\ ParkedForMore'
<1> SUFFICES ASSUME LedgerInv, FeedReaches, ParkedForMore, [Next]_vars
             PROVE  FeedReaches' /\ ParkedForMore'
  OBVIOUS
<1>n. /\ next \in Nat \ {0} /\ visible \in Nat /\ storedP \in Nat /\ version \in Nat
      /\ outstanding \subseteq Reservation
      /\ phase \in [Writers -> Phases] /\ target \in [Writers -> Nat]
      /\ used \in [Writers -> Nat] /\ restarts \in Nat
  BY DEF LedgerInv, TypeOK
<1>m. \A r \in outstanding : r.first \in Nat
  BY <1>n DEF Reservation
<1>s. ASSUME UNCHANGED <<ledger, next, visible, outstanding>> PROVE FeedReaches'
  BY <1>s DEF FeedReaches
<1>p. ASSUME UNCHANGED <<ledger, publishing, raised, waiters, visible, owner>>,
             restarts' = restarts \/ restarts' = restarts + 1,
             \A x \in Writers : phase'[x] = "awaiting" =>
               phase[x] = "awaiting" /\ target'[x] = target[x]
      PROVE  ParkedForMore'
  BY <1>n, <1>p DEF ParkedForMore
<1>f. ASSUME NEW r \in outstanding, NEW n \in Nat \ {0}, NEW v \in Nat,
             Finish(r, n, v), UNCHANGED <<waiters, runVars>>, Serving,
             \A x \in Writers : phase'[x] = "awaiting" =>
               phase[x] = "awaiting" /\ target'[x] = target[x]
      PROVE  FeedReaches' /\ ParkedForMore'
  <2>1. ledger' = "running" /\ publishing' /\ ledger = "running" /\ ~publishing
        /\ owner' = owner /\ restarts' = restarts
    BY <1>f DEF Finish, Serving, runVars
  <2>2. FeedReaches'
    BY <1>f, <2>1, FinishReaches DEF FeedReaches
  <2>3. raised' = (visible' > visible)
    BY <1>f, Zenon DEF Finish
  <2>4. visible' \in Nat
    <3>1. Watermark(outstanding \ {r}, n) \in Nat
      BY <1>n, WatermarkType
    <3> QED
      BY <1>f, <1>n, <3>1 DEF Finish, Larger
  <2>5. ASSUME NEW x \in Writers, phase'[x] = "awaiting"
        PROVE  x \in waiters' /\ (target'[x] <= visible' => raised' \/ restarts' > 0)
    <3>1. phase[x] = "awaiting" /\ target'[x] = target[x]
      BY <1>f, <2>5
    <3>2. x \in waiters /\ (target[x] <= visible => restarts > 0)
      BY <2>1, <3>1 DEF ParkedForMore
    <3>3. ~(target[x] <= visible) /\ target[x] <= visible' => visible' > visible
      BY <1>n, <2>4
    <3> QED
      BY <1>f, <2>1, <2>3, <3>1, <3>2, <3>3
  <2>6. ParkedForMore'
    BY <2>1, <2>5 DEF ParkedForMore
  <2> QED
    BY <2>2, <2>6
<1>t. ASSUME NEW r \in outstanding, NEW u \in Nat PROVE TakeBack(r, u) \in Nat \ {0}
  BY <1>n DEF TakeBack, Reservation, Larger
<1>d. ASSUME NEW D, NEW E, NEW L, Die(D, L), outstanding' = Orphaned(E),
             UNCHANGED <<ledger, next, visible, publishing, raised>>,
             (owner' = owner /\ restarts' = restarts) \/ restarts' = restarts + 1
      PROVE  FeedReaches' /\ ParkedForMore'
  <2>1. FeedReaches'
    <3>1. CASE \E r \in outstanding : r.first <= visible + 1
      <4>0. PICK r \in outstanding : r.first <= visible + 1
        BY <3>1
      <4>n. visible + 1 \in Int
        BY <1>n
      <4>1. \E q \in outstanding' : q.first <= visible + 1
        BY <1>d, <1>n, <4>0, <4>n, OrphanedKeeps
      <4> QED
        BY <1>d, <4>1 DEF FeedReaches
    <3>2. CASE ~\E r \in outstanding : r.first <= visible + 1
      BY <1>d, <3>2 DEF FeedReaches
    <3> QED
      BY <3>1, <3>2
  <2>2. \A x \in Writers : phase'[x] = "awaiting" =>
          x \notin D /\ phase[x] = "awaiting" /\ target'[x] = target[x]
    BY <1>d DEF Die
  <2>3. waiters' = waiters \ D
    BY <1>d DEF Die
  <2>4. restarts > 0 => restarts' > 0
    BY <1>d, <1>n
  <2>5. ledger' = "running" /\ owner' = "down" => restarts' > 0
    BY <1>d, <1>n DEF ParkedForMore
  <2>6. ParkedForMore'
    BY <1>d, <2>2, <2>3, <2>4, <2>5 DEF ParkedForMore
  <2> QED
    BY <2>1, <2>6
<1>1. CASE Initialize
  <2>1. /\ UNCHANGED <<publishing, outstanding, phase, target, waiters, restarts>>
        /\ ledger' = "running" /\ next' = Larger(next, storedP + 1) /\ ~publishing
        /\ owner = "down" /\ owner' = "up"
        /\ visible' = IF ledger = "down" THEN storedP ELSE Larger(visible, storedP)
    BY <1>1 DEF Initialize, Opening, writerVars
  <2>2. ParkedForMore'
    BY <2>1 DEF ParkedForMore
  <2>3. CASE ledger = "down"
    BY <1>n, <2>1, <2>2, <2>3 DEF FeedReaches, Larger
  <2>4. CASE ledger = "running"
    <3>1. CASE next <= visible + 1
      BY <1>n, <2>1, <2>2, <2>4, <3>1 DEF FeedReaches, Larger
    <3>2. CASE \E r \in outstanding : r.first <= visible + 1
      <4>1. PICK r \in outstanding : r.first <= visible + 1
        BY <3>2
      <4>2. visible <= visible' /\ visible' \in Nat
        BY <1>n, <2>1, <2>4 DEF Larger
      <4>3. r.first <= visible' + 1
        BY <1>n, <1>m, <4>1, <4>2
      <4> QED
        BY <2>1, <2>2, <4>3 DEF FeedReaches
    <3> QED
      BY <2>4, <3>1, <3>2 DEF FeedReaches
  <2> QED
    BY <2>3, <2>4 DEF LedgerInv, TypeOK
<1>2. CASE InitializeFails
  BY <1>2, <1>s, <1>p DEF InitializeFails, ledgerVars, writerVars
<1>3. ASSUME NEW w \in Writers, NEW count \in 1..MaxCount,
             Reserve(w, count) \/ ReserveLate(w, count)
      PROVE  FeedReaches' /\ ParkedForMore'
  <2>1. PICK new : new.first = next /\ outstanding' = outstanding \cup {new}
    BY <1>3 DEF Reserve, ReserveLate
  <2>2. /\ UNCHANGED <<ledger, visible, publishing, raised, target, waiters, runVars>>
        /\ \A x \in Writers : phase'[x] = "awaiting" => phase[x] = "awaiting"
        /\ ledger = "running"
    BY <1>3, <1>n DEF Reserve, ReserveLate, writerVars, Serving
  <2>3. FeedReaches'
    BY <2>1, <2>2 DEF FeedReaches
  <2>4. ParkedForMore'
    BY <1>p, <2>2 DEF runVars
  <2> QED
    BY <2>3, <2>4
<1>4. ASSUME NEW count \in 1..MaxCount, ReserveUnpersisted(count)
      PROVE  FeedReaches' /\ ParkedForMore'
  BY <1>4, <1>s, <1>p DEF ReserveUnpersisted, ledgerVars, writerVars, runVars
<1>5. ASSUME NEW w \in Writers, CompleteCommitted(w)
      PROVE  FeedReaches' /\ ParkedForMore'
  <2>1. PICK r \in Held(w) : Finish(r, TakeBack(r, used[w]), version + 1)
    BY <1>5 DEF CompleteCommitted
  <2>2. r \in outstanding /\ TakeBack(r, used[w]) \in Nat \ {0} /\ version + 1 \in Nat
    BY <1>n, <1>t DEF Held
  <2>3. /\ Serving /\ waiters' = waiters
        /\ \A x \in Writers : phase'[x] = "awaiting" =>
             phase[x] = "awaiting" /\ target'[x] = target[x]
        /\ UNCHANGED runVars
    BY <1>5, <1>n DEF CompleteCommitted
  <2> QED
    BY <2>1, <2>2, <2>3, <1>f
<1>6. ASSUME NEW w \in Writers, CompleteAborted(w)
      PROVE  FeedReaches' /\ ParkedForMore'
  <2>1. PICK r \in Held(w) : Finish(r, TakeBack(r, 0), version)
    BY <1>6 DEF CompleteAborted
  <2>2. r \in outstanding /\ TakeBack(r, 0) \in Nat \ {0}
    BY <1>n, <1>t DEF Held
  <2>3. /\ Serving /\ waiters' = waiters
        /\ \A x \in Writers : phase'[x] = "awaiting" =>
             phase[x] = "awaiting" /\ target'[x] = target[x]
        /\ UNCHANGED runVars
    BY <1>6, <1>n DEF CompleteAborted
  <2> QED
    BY <1>n, <2>1, <2>2, <2>3, <1>f
<1>7. CASE HolderDown
  <2>1. PICK r \in outstanding : Finish(r, next, version)
    BY <1>7 DEF HolderDown
  <2>2. Serving /\ UNCHANGED <<waiters, phase, target, runVars>>
    BY <1>7 DEF HolderDown, writerVars
  <2> QED
    BY <1>n, <2>1, <2>2, <1>f
<1>8. CASE FinishPublish
  <2> DEFINE woken == {x \in waiters : raised /\ target[x] <= visible}
  <2>1. /\ UNCHANGED <<ledger, next, visible, outstanding, runVars>>
        /\ ledger = "running" /\ publishing
        /\ waiters' = waiters \ woken
    BY <1>8, <1>n DEF FinishPublish
  <2>p. /\ phase' = [x \in Writers |-> IF x \in woken THEN "idle" ELSE phase[x]]
        /\ target' = [x \in Writers |-> IF x \in woken THEN 0 ELSE target[x]]
    BY <1>8 DEF FinishPublish
  <2>w. \A x \in waiters : x \notin woken => ~(raised /\ target[x] <= visible)
    OBVIOUS
  <2> HIDE DEF woken
  <2>2. ASSUME NEW x \in Writers, phase'[x] = "awaiting"
        PROVE  x \in waiters' /\ (target'[x] <= visible => restarts > 0)
    <3>1. x \notin woken /\ phase[x] = "awaiting" /\ target'[x] = target[x]
      BY <2>p, <2>2
    <3>2. x \in waiters /\ (target[x] <= visible => raised \/ restarts > 0)
      BY <2>1, <3>1 DEF ParkedForMore
    <3> QED
      BY <2>1, <2>w, <3>1, <3>2
  <2>3. ParkedForMore'
    BY <2>1, <2>2 DEF ParkedForMore, runVars
  <2> QED
    BY <1>s, <2>1, <2>3
<1>9. ASSUME NEW w \in Writers,
             Take(w) \/ IssueCommit(w) \/ Rollback(w) \/ CommitLands(w) \/ FlushFails(w)
      PROVE  FeedReaches' /\ ParkedForMore'
  <2>1. /\ UNCHANGED <<ledger, publishing, raised, outstanding, waiters, next, visible,
                       target, runVars>>
        /\ \A x \in Writers : phase'[x] = "awaiting" => phase[x] = "awaiting"
    BY <1>9, <1>n DEF Take, IssueCommit, Rollback, CommitLands, FlushFails, WriterStep,
       ledgerVars
  <2>2. FeedReaches'
    BY <1>s, <2>1
  <2>3. ParkedForMore'
    BY <1>p, <2>1 DEF runVars
  <2> QED
    BY <2>2, <2>3
<1>10. CASE OrphanLands
  BY <1>10, <1>s, <1>p DEF OrphanLands, ledgerVars, writerVars, runVars
<1>11. ASSUME NEW w \in Writers, Await(w) \/ AwaitDeadline(w)
       PROVE  FeedReaches' /\ ParkedForMore'
  <2>1. /\ UNCHANGED <<ledger, publishing, raised, outstanding, next, visible, runVars>>
        /\ waiters \ {w} \subseteq waiters'
        /\ \A x \in Writers : x # w => phase'[x] = phase[x] /\ target'[x] = target[x]
    BY <1>11, <1>n DEF Await, AwaitDeadline, Answer, ledgerVars
  <2>2. ASSUME phase'[w] = "awaiting"
        PROVE  /\ w \in waiters' /\ Serving /\ target'[w] = target[w]
               /\ target[w] > visible
    BY <1>11, <1>n, <2>2 DEF Await, AwaitDeadline, Answer
  <2>3. ASSUME NEW x \in Writers, phase'[x] = "awaiting"
        PROVE  /\ x \in waiters' /\ ledger' = "running"
               /\ target'[x] <= visible' => (publishing' /\ raised') \/ restarts' > 0
    <3>1. CASE x = w
      BY <1>n, <2>1, <2>2, <2>3, <3>1 DEF Serving
    <3>2. CASE x # w
      BY <2>1, <2>3, <3>2 DEF ParkedForMore, runVars
    <3> QED
      BY <3>1, <3>2
  <2>4. ParkedForMore'
    BY <2>1, <2>3 DEF ParkedForMore, runVars
  <2> QED
    BY <1>s, <2>1, <2>4
<1>12. ASSUME NEW w \in Writers, KillWriter(w) PROVE FeedReaches' /\ ParkedForMore'
  <2>1. PICK L : Die({w} \cap Writing, L)
    BY <1>12 DEF KillWriter
  <2>2. /\ outstanding' = Orphaned({w})
        /\ UNCHANGED <<ledger, next, visible, publishing, raised, owner, restarts>>
    BY <1>12 DEF KillWriter, runVars
  <2> QED
    BY <2>1, <2>2, <1>d
<1>k. ASSUME NEW w \in Writers, KillCaller(w) PROVE FeedReaches' /\ ParkedForMore'
  <2>1. /\ Die({w}, {}) /\ UNCHANGED <<ledger, next, visible, publishing, raised,
                                       owner, restarts, outstanding>>
    BY <1>k DEF KillCaller, ledgerVars, runVars
  <2>2. outstanding' = Orphaned({})
    BY <2>1 DEF Orphaned
  <2> QED
    BY <2>1, <2>2, <1>d
<1>13. CASE OwnerCrash
  <2>1. PICK L : Die(Writing, L)
    BY <1>13 DEF OwnerCrash
  <2>2. /\ outstanding' = Orphaned(Writers)
        /\ UNCHANGED <<ledger, next, visible, publishing, raised>>
        /\ restarts' = restarts + 1
    BY <1>13 DEF OwnerCrash
  <2> QED
    BY <2>1, <2>2, <1>d
<1>14. CASE LedgerCrash
  <2>1. PICK L \in SUBSET Writing : Die(Writing \cup waiters, L)
    BY <1>14 DEF LedgerCrash
  <2>2. phase' = [x \in Writers |-> IF x \in Writing \cup waiters THEN "idle" ELSE phase[x]]
    BY <2>1 DEF Die
  <2>3. \A x \in Writers : phase'[x] # "awaiting"
    BY <2>2 DEF ParkedForMore
  <2>4. ledger' = "down" /\ next' = 1
    BY <1>14 DEF LedgerCrash
  <2> QED
    BY <2>3, <2>4 DEF FeedReaches, ParkedForMore
<1>15. CASE UNCHANGED vars
  BY <1>15, <1>s, <1>p DEF vars, ledgerVars, writerVars, runVars
<1> QED
  BY <1>1, <1>2, <1>3, <1>4, <1>5, <1>6, <1>7, <1>8, <1>9, <1>10, <1>11, <1>12,
     <1>13, <1>14, <1>15, <1>k DEF Next

(* No stored row and no waiting caller is forgotten for nothing: while the *)
(* ledger runs, a row above W lies at or beyond an open range, or its      *)
(* number was given back; a parked caller waits for such a row, or is      *)
(* about to be answered, or has lived through a restart; and an open range *)
(* is held by a transaction that has yet to complete it, or marked for its *)
(* monitor, or was asked for by a call that was given up.  These are all   *)
(* the ways W can stay where it is, over numbers taken back, deaths and    *)
(* restarts of the owner and of the ledger.                                *)
THEOREM NothingWaitsForNothing == Spec => []HeldBackByRange
<1>1. Init => FeedReaches /\ ParkedForMore
  BY HeldInit
<1>2. LedgerInv /\ (FeedReaches /\ ParkedForMore) /\ [Next]_vars
        => (FeedReaches /\ ParkedForMore)'
  BY HeldStep
<1>3. LedgerInv /\ (FeedReaches /\ ParkedForMore) => HeldBackByRange
  <2> SUFFICES ASSUME LedgerInv, FeedReaches, ParkedForMore PROVE HeldBackByRange
    OBVIOUS
  <2>n. visible \in Nat /\ rows \subseteq Nat /\ target \in [Writers -> Nat]
    BY DEF LedgerInv, TypeOK
  <2>1. ASSUME ledger = "running", NEW s \in rows PROVE s <= visible \/ HeldBack(s)
    <3>1. s <= visible \/ s > visible
      BY <2>n
    <3> QED
      BY <2>1, <3>1, BeyondIsHeld
  <2>2. ASSUME NEW w \in Writers, phase[w] = "awaiting"
        PROVE  /\ w \in waiters /\ ledger = "running"
               /\ \/ target[w] > visible /\ HeldBack(target[w])
                  \/ target[w] <= visible /\ ((publishing /\ raised) \/ restarts > 0)
    <3>1. w \in waiters /\ ledger = "running"
      BY <2>2 DEF ParkedForMore
    <3>2. CASE target[w] > visible
      <4>1. target[w] \in rows \cup {0}
        BY DEF LedgerInv, AnswersOK
      <4> QED
        BY <3>1, <3>2, <4>1, BeyondIsHeld
    <3>3. CASE target[w] <= visible
      BY <2>2, <3>1, <3>3 DEF ParkedForMore
    <3> QED
      BY <2>n, <3>2, <3>3
  <2>3. \A r \in outstanding : r.dead \/ r.lost \/ phase[r.holder] \in InTransaction
    BY DEF LedgerInv, HoldersOK
  <2> QED
    BY <2>1, <2>2, <2>3 DEF HeldBackByRange
<1> QED
  BY <1>1, <1>2, <1>3, InvAlways, PTL DEF Spec
=============================================================================
