-------------------------- MODULE WriterPoolProofs --------------------------
(***************************************************************************)
(* Theorems about the writer pool, for any slots, writes, documents, limits *)
(* and serial callers: the type invariant; that writes that run at the     *)
(* same time share no document; that writes to one document run in the     *)
(* order they came; that an answered write is over; that the barrier stops *)
(* every writer; that no write uses cached facts a fenced serial command   *)
(* has changed; and that nothing is left waiting for what cannot come.     *)
(***************************************************************************)
EXTENDS WriterPool, FiniteSetTheorems, TLAPS

-----------------------------------------------------------------------------
(* Places in a set of positions.                                           *)

LessThan == {p \in Nat \X Nat : p[1] < p[2]}

LEMMA LessThanWellFounded == IsWellFoundedOn(LessThan, Nat)
<1>1. IsWellFoundedOn(OpToRel(<, Nat), Nat)
  BY NatLessThanWellFounded
<1>2. LessThan \cap (Nat \X Nat) \subseteq OpToRel(<, Nat)
  BY DEF OpToRel, LessThan
<1> QED
  BY <1>1, <1>2, IsWellFoundedOnSubrelation

(* A set of natural numbers has a least member.                            *)
LEMMA LeastMember ==
  ASSUME NEW S \in SUBSET Nat, S # {}
  PROVE  \E n \in S : \A m \in S : n <= m
<1>1. PICK n \in S : \A m \in S : ~ (<<m, n>> \in LessThan)
  BY LessThanWellFounded, WFMin
<1>2. ASSUME NEW m \in S PROVE n <= m
  <2>1. m < n => <<m, n>> \in LessThan
    BY DEF LessThan
  <2> QED
    BY <1>1, <2>1
<1> QED
  BY <1>2

(* Positions up to one of them make a finite set, counted by its place.    *)
LEMMA PlaceType ==
  ASSUME NEW n \in Nat, NEW S \in SUBSET (1..n)
  PROVE  /\ IsFiniteSet(S) /\ Cardinality(S) \in Nat
         /\ \A i \in Int : /\ IsFiniteSet({j \in S : j <= i})
                           /\ Place(i, S) \in Nat
                           /\ Place(i, S) <= Cardinality(S)
<1>1. IsFiniteSet(S)
  <2>1. IsFiniteSet(1..n)
    BY FS_Interval
  <2> QED
    BY <2>1, FS_Subset
<1>2. Cardinality(S) \in Nat
  BY <1>1, FS_CardinalityType
<1>3. ASSUME NEW i \in Int
      PROVE  /\ IsFiniteSet({j \in S : j <= i}) /\ Place(i, S) \in Nat
             /\ Place(i, S) <= Cardinality(S)
  <2>1. {j \in S : j <= i} \in SUBSET S
    OBVIOUS
  <2>2. /\ IsFiniteSet({j \in S : j <= i})
        /\ Cardinality({j \in S : j <= i}) <= Cardinality(S)
    BY <1>1, <2>1, FS_Subset
  <2> QED
    BY <2>2, FS_CardinalityType DEF Place
<1> QED
  BY <1>1, <1>2, <1>3

(* A later position of the set has a later place.                          *)
LEMMA PlaceRises ==
  ASSUME NEW n \in Nat, NEW S \in SUBSET (1..n), NEW i \in Int, NEW k \in S, i < k
  PROVE  Place(i, S) < Place(k, S)
<1> DEFINE A == {j \in S : j <= i}
           B == {j \in S : j <= k}
<1>0. \A j \in S : j \in Int /\ k \in Int /\ (j <= i => j <= k)
  OBVIOUS
<1>1. A \in SUBSET B /\ k \in B /\ k \notin A
  <2>1. A \in SUBSET B
    BY <1>0
  <2>2. k \in Int /\ ~(k <= i) /\ k <= k
    BY <1>0
  <2> QED
    BY <2>1, <2>2
<1>2. IsFiniteSet(B) /\ Cardinality(A) \in Nat /\ Cardinality(B) \in Nat
  BY PlaceType DEF Place
<1>3. Cardinality(A) <= Cardinality(B) /\ (Cardinality(B) = Cardinality(A) => B = A)
  BY <1>1, <1>2, FS_Subset
<1>4. Cardinality(A) < Cardinality(B)
  <2> HIDE DEF A, B
  <2> QED
    BY <1>1, <1>2, <1>3
<1> QED
  BY <1>4 DEF Place

(* The places of a set's members are 1, 2 and so on to its size.           *)
LEMMA PlaceOfMember ==
  ASSUME NEW n \in Nat, NEW S \in SUBSET (1..n), NEW k \in S
  PROVE  Place(k, S) \in 1..Cardinality(S)
<1>0. \A j \in S : j \in Int /\ ~(j <= 0)
  OBVIOUS
<1>1. {j \in S : j <= 0} = {}
  BY <1>0
<1>2. Place(0, S) = 0
  BY <1>1, FS_EmptySet DEF Place
<1>3. k \in Int /\ 0 < k
  BY <1>0
<1>4. Place(0, S) < Place(k, S)
  BY <1>3, PlaceRises
<1>5. /\ Place(k, S) \in Nat /\ Place(k, S) <= Cardinality(S)
      /\ Cardinality(S) \in Nat
  BY <1>3, PlaceType
<1> QED
  BY <1>2, <1>4, <1>5

LEMMA PlaceReached ==
  ASSUME NEW n \in Nat, NEW S \in SUBSET (1..n), NEW m \in 1..Cardinality(S)
  PROVE  \E k \in S : Place(k, S) = m
<1> DEFINE enough == {i \in Nat : Place(i, S) >= m}
<1>0. Cardinality(S) \in Nat
  BY PlaceType
<1>a. \A j \in S : j \in Int /\ j <= n /\ ~(j <= 0)
  OBVIOUS
<1>1. {j \in S : j <= n} = S
  BY <1>a
<1>2. n \in enough
  BY <1>0, <1>1 DEF Place
<1>3. PICK k \in enough : \A i \in enough : k <= i
  BY <1>2, LeastMember
<1>4. Place(0, S) = 0
  <2>1. {j \in S : j <= 0} = {}
    BY <1>a
  <2> QED
    BY <2>1, FS_EmptySet DEF Place
<1>5. k \in Nat \ {0} /\ k - 1 \in Nat /\ k - 1 \notin enough
  BY <1>3, <1>4
<1>b. k \in Int /\ k - 1 \in Int /\ m \in Nat /\ Place(k, S) >= m
  BY <1>0, <1>5
<1>c. Place(k - 1, S) \in Nat /\ Place(k, S) \in Nat
  <2> HIDE DEF enough
  <2> QED
    BY <1>b, PlaceType
<1>6. Place(k - 1, S) < m
  BY <1>b, <1>c, <1>5
<1> DEFINE A == {j \in S : j <= k - 1}
<1>7. {j \in S : j <= k} = IF k \in S THEN A \cup {k} ELSE A
  <2>1. \A j \in S : j <= k <=> j <= k - 1 \/ j = k
    BY <1>a, <1>b
  <2>2. \A j : j \in {i \in S : i <= k} <=> j \in (IF k \in S THEN A \cup {k} ELSE A)
    BY <2>1
  <2> QED
    BY <2>2
<1>8. k \in S /\ Place(k, S) = Place(k - 1, S) + 1
  <2>1. IsFiniteSet(A) /\ k \notin A
    <3>1. IsFiniteSet(A)
      BY <1>b, PlaceType
    <3>2. k \notin A
      BY <1>b
    <3> QED
      BY <3>1, <3>2
  <2>2. Place(k - 1, S) = Cardinality(A)
    BY DEF Place
  <2>3. CASE k \in S
    <3>1. Place(k, S) = Cardinality(A \cup {k})
      BY <1>7, <2>3 DEF Place
    <3>2. Cardinality(A \cup {k}) = Cardinality(A) + 1
      BY <2>1, FS_AddElement
    <3> QED
      BY <2>2, <2>3, <3>1, <3>2
  <2>4. CASE k \notin S
    <3>1. Place(k, S) = Place(k - 1, S)
      BY <1>7, <2>4 DEF Place
    <3> QED
      BY <1>b, <1>c, <1>6, <3>1
  <2> QED
    BY <2>3, <2>4
<1> QED
  BY <1>b, <1>c, <1>6, <1>8

-----------------------------------------------------------------------------
(* The pool's queues.                                                      *)

NoRepeats(q) == \A i, j \in DOMAIN q : q[i] = q[j] => i = j

(* q holds some members of p, in p's order.                                *)
PartOf(q, p) ==
  \A a, b \in DOMAIN q : a < b =>
    \E i, j \in DOMAIN p : i < j /\ p[i] = q[a] /\ p[j] = q[b]

(* What stays in a queue when a set of members leaves.                     *)
LEMMA WithoutFacts ==
  ASSUME NEW T, NEW q \in Seq(T), NEW S
  PROVE  /\ Without(q, S) \in Seq(T)
         /\ RangeOf(Without(q, S)) = RangeOf(q) \ S
         /\ NoRepeats(q) => NoRepeats(Without(q, S))
         /\ PartOf(Without(q, S), q)
<1> DEFINE kept == {i \in DOMAIN q : q[i] \notin S}
           at(m) == CHOOSE i \in kept : Place(i, kept) = m
           w == [m \in 1..Cardinality(kept) |-> q[at(m)]]
<1>1. Without(q, S) = w
  BY DEF Without
<1>2. Len(q) \in Nat /\ kept \in SUBSET (1..Len(q)) /\ DOMAIN q = 1..Len(q)
  OBVIOUS
<1>3. Cardinality(kept) \in Nat
  BY <1>2, PlaceType
<1>4. ASSUME NEW m \in 1..Cardinality(kept)
      PROVE  at(m) \in kept /\ Place(at(m), kept) = m
  <2> HIDE DEF kept
  <2> QED
    BY <1>2, PlaceReached
<1>5. ASSUME NEW i \in kept PROVE Place(i, kept) \in 1..Cardinality(kept)
  <2> HIDE DEF kept
  <2> QED
    BY <1>2, PlaceOfMember
<1>6. ASSUME NEW i \in kept, NEW k \in kept, Place(i, kept) <= Place(k, kept)
      PROVE  i <= k
  <2> HIDE DEF kept
  <2>1. i \in Int /\ k \in Int
    BY <1>2
  <2>2. k < i => Place(k, kept) < Place(i, kept)
    BY <1>2, <2>1, PlaceRises
  <2>3. Place(i, kept) \in Nat /\ Place(k, kept) \in Nat
    BY <1>2, <2>1, PlaceType
  <2> QED
    BY <1>6, <2>1, <2>2, <2>3
<1>7. \A m \in 1..Cardinality(kept) : at(m) \in DOMAIN q /\ q[at(m)] \notin S /\ q[at(m)] \in T
  <2> HIDE DEF at
  <2> QED
    BY <1>4
<1>8. w \in Seq(T) /\ DOMAIN w = 1..Cardinality(kept)
  <2> HIDE DEF kept, at
  <2> QED
    BY <1>3, <1>7
<1>9. RangeOf(w) = RangeOf(q) \ S
  <2>1. ASSUME NEW m \in DOMAIN w PROVE w[m] \in RangeOf(q) \ S
    BY <1>7, <1>8, <2>1 DEF RangeOf
  <2>2. ASSUME NEW i \in DOMAIN q, q[i] \notin S PROVE \E m \in DOMAIN w : w[m] = q[i]
    <3>1. i \in kept /\ Place(i, kept) \in DOMAIN w
      BY <1>5, <1>8, <2>2
    <3> DEFINE m == Place(i, kept)
    <3>2. at(m) \in kept /\ Place(at(m), kept) = m
      BY <1>4, <1>8, <3>1
    <3>3. at(m) <= i /\ i <= at(m)
      <4> HIDE DEF kept, at
      <4>1. m <= m
        BY <1>8, <1>3, <3>1
      <4> QED
        BY <1>6, <3>1, <3>2, <4>1
    <3>4. at(m) = i
      BY <1>2, <3>1, <3>2, <3>3
    <3> QED
      BY <1>8, <3>1, <3>4
  <2> HIDE DEF w
  <2> QED
    BY <2>1, <2>2 DEF RangeOf
<1>10. ASSUME NEW a \in DOMAIN w, NEW b \in DOMAIN w, a < b
       PROVE  at(a) < at(b) /\ at(a) \in DOMAIN q /\ at(b) \in DOMAIN q
  <2>1. /\ at(a) \in kept /\ Place(at(a), kept) = a
        /\ at(b) \in kept /\ Place(at(b), kept) = b
    BY <1>4, <1>8
  <2>2. at(a) <= at(b) /\ at(a) # at(b)
    <3> HIDE DEF kept, at
    <3>1. a <= b /\ a # b
      BY <1>3, <1>8, <1>10
    <3> QED
      BY <1>6, <2>1, <3>1
  <2> QED
    BY <1>2, <2>1, <2>2
<1>11. NoRepeats(q) => NoRepeats(w)
  <2> SUFFICES ASSUME NoRepeats(q), NEW a \in DOMAIN w, NEW b \in DOMAIN w, w[a] = w[b], a # b
               PROVE  FALSE
    BY DEF NoRepeats
  <2>1. a < b \/ b < a
    BY <1>3, <1>8
  <2>2. q[at(a)] = q[at(b)]
    BY <1>8
  <2> HIDE DEF w, at, kept
  <2>3. at(a) # at(b) /\ at(a) \in DOMAIN q /\ at(b) \in DOMAIN q
    BY <1>2, <1>10, <2>1
  <2> QED
    BY <2>2, <2>3 DEF NoRepeats
<1>12. PartOf(w, q)
  <2> SUFFICES ASSUME NEW a \in DOMAIN w, NEW b \in DOMAIN w, a < b
               PROVE  \E i, j \in DOMAIN q : i < j /\ q[i] = w[a] /\ q[j] = w[b]
    BY DEF PartOf
  <2>1. w[a] = q[at(a)] /\ w[b] = q[at(b)]
    BY <1>8
  <2> HIDE DEF w, at, kept
  <2> QED
    BY <1>10, <2>1
<1> QED
  BY <1>1, <1>8, <1>9, <1>11, <1>12

(* A new member at the end.                                                *)
LEMMA AppendFacts ==
  ASSUME NEW T, NEW q \in Seq(T), NEW e \in T
  PROVE  /\ Append(q, e) \in Seq(T)
         /\ RangeOf(Append(q, e)) = RangeOf(q) \cup {e}
         /\ NoRepeats(q) /\ e \notin RangeOf(q) => NoRepeats(Append(q, e))
<1>1. /\ Append(q, e) \in Seq(T) /\ Len(Append(q, e)) = Len(q) + 1
      /\ \A i \in 1..Len(q) : Append(q, e)[i] = q[i]
      /\ Append(q, e)[Len(q) + 1] = e
  OBVIOUS
<1>2. RangeOf(Append(q, e)) = RangeOf(q) \cup {e}
  BY <1>1 DEF RangeOf
<1>3. NoRepeats(q) /\ e \notin RangeOf(q) => NoRepeats(Append(q, e))
  BY <1>1 DEF RangeOf, NoRepeats
<1> QED
  BY <1>1, <1>2, <1>3

LEMMA MemberFacts ==
  ASSUME NEW T, NEW q \in Seq(T)
  PROVE  RangeOf(q) \subseteq T
  BY DEF RangeOf

LEMMA EmptyFacts ==
  RangeOf(<<>>) = {} /\ NoRepeats(<<>>) /\ \A T : <<>> \in Seq(T)
  BY DEF RangeOf, NoRepeats

(* A queue without its first n members.                                    *)
LEMMA RestFacts ==
  ASSUME NEW T, NEW q \in Seq(T), NEW n \in Nat
  PROVE  LET rest == SubSeq(q, n + 1, Len(q))
         IN  /\ rest \in Seq(T)
             /\ \A k \in DOMAIN rest : k + n \in DOMAIN q /\ rest[k] = q[k + n]
<1> DEFINE rest == SubSeq(q, n + 1, Len(q))
<1>1. rest \in Seq(T)
  OBVIOUS
<1>2. /\ Len(rest) = IF n + 1 <= Len(q) THEN Len(q) - n ELSE 0
      /\ \A k \in 1..Len(rest) : rest[k] = q[n + 1 + k - 1]
  OBVIOUS
<1>3. DOMAIN rest = 1..Len(rest) /\ DOMAIN q = 1..Len(q) /\ Len(q) \in Nat
  BY <1>1
<1>4. ASSUME NEW k \in DOMAIN rest PROVE k + n \in DOMAIN q /\ rest[k] = q[k + n]
  <2> HIDE DEF rest
  <2>0. Len(rest) \in Nat /\ k \in 1..Len(rest)
    BY <1>1, <1>3
  <2>1. k \in 1..Len(rest) /\ k \in Nat /\ Len(rest) \in Nat /\ 1 <= k /\ k <= Len(rest)
    BY <2>0
  <2>2. n + 1 <= Len(q) /\ k <= Len(q) - n
    <3>1. CASE n + 1 <= Len(q)
      BY <1>2, <1>3, <2>1, <3>1
    <3>2. CASE ~(n + 1 <= Len(q))
      BY <1>2, <1>3, <2>1, <3>2
    <3> QED
      BY <3>1, <3>2
  <2>3. k + n \in 1..Len(q)
    BY <1>3, <2>1, <2>2
  <2>4. n + 1 + k - 1 = k + n
    BY <2>1
  <2> QED
    BY <1>2, <1>3, <2>1, <2>3, <2>4
<1> QED
  BY <1>1, <1>4

-----------------------------------------------------------------------------
(* The invariant.                                                          *)

Meet(q, r) == DocumentsOf[q] \cap DocumentsOf[r] # {}

(* The pool's own account: nothing is in two places, running writes are    *)
(* apart from each other, and their documents are held.                    *)
PoolOK(slots, ws, jobs, docs) ==
  /\ slots \in Seq(Slots) /\ NoRepeats(slots)
  /\ ws \in Seq(Requests) /\ NoRepeats(ws)
  /\ jobs \in [Slots -> Requests \cup {NoRequest}]
  /\ docs \subseteq Documents
  /\ \A s \in RangeOf(slots) : jobs[s] = NoRequest
  /\ \A s \in Slots : jobs[s] # NoRequest =>
       jobs[s] \notin RangeOf(ws) /\ DocumentsOf[jobs[s]] \subseteq docs
  /\ \A s, t \in Slots : s # t /\ jobs[s] # NoRequest /\ jobs[t] # NoRequest =>
       jobs[s] # jobs[t] /\ ~Meet(jobs[s], jobs[t])

(* Writes wait in the order they came, and none has been overtaken by one  *)
(* that shares a document with it.                                         *)
Ordered(came, ws, jobs) ==
  /\ \A a, b \in DOMAIN ws, i, j \in DOMAIN came :
       a < b /\ came[i] = ws[a] /\ came[j] = ws[b] => i < j
  /\ \A s \in Slots, i, j \in DOMAIN came :
       came[j] = jobs[s] /\ i < j /\ Meet(came[i], came[j]) =>
         came[i] \notin RangeOf(ws) /\ \A t \in Slots : jobs[t] # came[i]

(* A granted write came from the queue and went to an idle slot.           *)
Moved(slots, ws, jobs, stopped) ==
  /\ RangeOf(idle') \subseteq RangeOf(slots)
  /\ RangeOf(waiters') \subseteq RangeOf(ws)
  /\ \A s \in Slots :
       \/ busy'[s] = jobs[s]
       \/ ~stopped /\ s \in RangeOf(slots) /\ busy'[s] \in RangeOf(ws)

JobsOf(jobs) == {jobs[s] : s \in Slots} \ {NoRequest}
Open == RangeOf(waiters) \cup JobsOf(busy)

(* What a write was answered with is final: it is not open any more.       *)
CallsOK ==
  \A r \in Requests :
    /\ r \in Open => r \in RangeOf(accepted)
    /\ call[r] = "new" => r \notin RangeOf(accepted)
    /\ call[r] = "answered" => r \notin Open

(* A slot at work lives and has the job the pool gave it; one that replies *)
(* has a job the pool has done with; one that is not born has nothing.     *)
SlotsOK ==
  \A s \in Slots :
    /\ step[s] \in {"writing", "reporting"} => busy[s] # NoRequest /\ doing[s] = busy[s]
    /\ step[s] = "writing" => life[s] = "alive"
    /\ step[s] = "replying" =>
         doing[s] \in Requests /\ doing[s] \in RangeOf(accepted) /\ doing[s] \notin Open
    /\ life[s] = "unborn" =>
         s \notin RangeOf(idle) /\ busy[s] = NoRequest /\ step[s] = "free" /\ loaded[s] = 0

Stopped == tokens # {} /\ Running(busy) = {}

(* Whoever was told that the barrier holds has it, and nothing runs.       *)
BarrierOK ==
  \A c \in Serials :
    /\ phase[c] \in {"quiescing", "holding", "submitted"} => c \in tokens
    /\ phase[c] \in {"holding", "submitted"} => Stopped

(* A command at the owner keeps its barrier up. Caches that count as fresh *)
(* are fresh, unless the barrier that makes them stale has not ended yet.  *)
CachesOK ==
  /\ \A s \in Slots : seen[s] <= epoch
  /\ ~escaped =>
       /\ \A c \in Serials : AtOwner(c) => c \in tokens /\ Stopped
       /\ \A s \in Slots : seen[s] = epoch /\ loaded[s] # 0 =>
            loaded[s] = generation \/ Stopped
       /\ \A s \in Writing : loaded[s] = generation

WriterPoolInv ==
  /\ TypeOK
  /\ PoolOK(idle, waiters, busy, held)
  /\ NoRepeats(accepted) /\ Ordered(accepted, waiters, busy)
  /\ CallsOK /\ SlotsOK /\ BarrierOK /\ CachesOK

-----------------------------------------------------------------------------
(* The grant loop keeps all of it.                                         *)

LEMMA GrantKeeps ==
  ASSUME NEW slots, NEW ws, NEW jobs, NEW docs, NEW stopped,
         NEW came \in Seq(Requests), NoRepeats(came),
         PoolOK(slots, ws, jobs, docs), Ordered(came, ws, jobs),
         GrantLoop(slots, ws, jobs, docs, stopped)
  PROVE  /\ PoolOK(idle', waiters', busy', held')
         /\ Ordered(came, waiters', busy')
         /\ Moved(slots, ws, jobs, stopped)
<1> DEFINE ready == Ready(ws, docs)
           chosen == IF stopped THEN {}
                     ELSE {i \in ready : Place(i, ready) <= Len(slots)}
           started == {ws[i] : i \in chosen}
           to(i) == slots[Place(i, ready)]
<1>1. /\ idle' = SubSeq(slots, Cardinality(chosen) + 1, Len(slots))
      /\ waiters' = Without(ws, started)
      /\ held' = docs \cup DocumentsIn(started)
      /\ busy' = [s \in Slots |->
           IF \E i \in chosen : to(i) = s
             THEN ws[CHOOSE i \in chosen : to(i) = s]
             ELSE jobs[s]]
  BY DEF GrantLoop
<1>2. /\ Len(ws) \in Nat /\ DOMAIN ws = 1..Len(ws)
      /\ Len(slots) \in Nat /\ DOMAIN slots = 1..Len(slots)
      /\ \A i \in DOMAIN ws : ws[i] \in Requests
      /\ \A n \in DOMAIN slots : slots[n] \in Slots
  BY DEF PoolOK
<1>3. /\ ready \in SUBSET (1..Len(ws)) /\ chosen \in SUBSET ready
      /\ chosen \in SUBSET (1..Len(ws))
      /\ \A i \in chosen : Place(i, ready) <= Len(slots) /\ ~stopped
      /\ stopped \/ \A i \in ready : Place(i, ready) <= Len(slots) => i \in chosen
  <2>1. ready \in SUBSET (1..Len(ws))
    BY <1>2 DEF Ready
  <2> HIDE DEF ready
  <2> QED
    BY <2>1
<1>4. ASSUME NEW i \in ready
      PROVE  /\ DocumentsOf[ws[i]] \cap docs = {}
             /\ \A j \in 1..(i - 1) : ~Meet(ws[j], ws[i])
  <2>1. DocumentsOf[ws[i]] \cap Blocked(ws, docs, i) = {}
    BY DEF Ready
  <2> QED
    BY <2>1 DEF Blocked, DocumentsIn, Meet
<1>5. /\ IsFiniteSet(chosen) /\ Cardinality(chosen) \in Nat
  <2> HIDE DEF chosen
  <2> QED
    BY <1>2, <1>3, PlaceType
<1>6. ASSUME NEW i \in chosen
      PROVE  /\ Place(i, ready) \in 1..Len(slots)
             /\ Place(i, ready) <= Cardinality(chosen)
             /\ to(i) \in RangeOf(slots) /\ to(i) \in Slots
  <2> HIDE DEF chosen, ready
  <2>1. Place(i, ready) \in 1..Cardinality(ready) /\ Cardinality(ready) \in Nat
    BY <1>2, <1>3, PlaceOfMember, PlaceType
  <2>2. Place(i, ready) \in 1..Len(slots)
    BY <1>2, <1>3, <2>1
  <2> DEFINE A == {j \in ready : j <= i}
  <2>3. ASSUME NEW j \in A PROVE j \in chosen
    <3>1. /\ j \in Int /\ i \in Int /\ j \in ready /\ i \in ready
          /\ j = i \/ j < i
      BY <1>3
    <3>2. j = i \/ Place(j, ready) < Place(i, ready)
      <4>1. CASE j < i
        BY <1>2, <1>3, <3>1, <4>1, PlaceRises
      <4> QED
        BY <3>1, <4>1
    <3>3. Place(j, ready) \in Nat
      BY <1>2, <1>3, <3>1, PlaceType
    <3>4. Place(j, ready) <= Len(slots)
      BY <1>2, <2>2, <3>2, <3>3
    <3> QED
      BY <1>3, <3>1, <3>4
  <2>4. A \in SUBSET chosen
    BY <2>3
  <2>5. Cardinality(A) <= Cardinality(chosen)
    BY <1>5, <2>4, FS_Subset
  <2>6. Place(i, ready) <= Cardinality(chosen)
    BY <2>5 DEF Place
  <2> QED
    BY <1>2, <2>2, <2>6 DEF RangeOf
<1>7. ASSUME NEW s \in Slots
      PROVE  \/ /\ busy'[s] = jobs[s] /\ \A i \in chosen : to(i) # s
             \/ \E i \in chosen : to(i) = s /\ busy'[s] = ws[i]
  <2> HIDE DEF chosen, to
  <2>1. CASE \E i \in chosen : to(i) = s
    <3> DEFINE i == CHOOSE i \in chosen : to(i) = s
    <3>1. i \in chosen /\ to(i) = s
      BY <2>1
    <3>2. busy'[s] = ws[i]
      BY <1>1, <2>1
    <3> HIDE DEF i
    <3> QED
      BY <3>1, <3>2
  <2>2. CASE ~\E i \in chosen : to(i) = s
    BY <1>1, <2>2
  <2> QED
    BY <2>1, <2>2
<1> HIDE DEF to, chosen, ready
<1>8. /\ idle' \in Seq(Slots)
      /\ \A k \in DOMAIN idle' : /\ k + Cardinality(chosen) \in DOMAIN slots
                                /\ idle'[k] = slots[k + Cardinality(chosen)]
  BY <1>1, <1>5, RestFacts DEF PoolOK
<1>9. NoRepeats(idle') /\ RangeOf(idle') \subseteq RangeOf(slots)
  <2>1. DOMAIN idle' \subseteq Nat
    BY <1>8
  <2>2. ASSUME NEW k \in DOMAIN idle', NEW m \in DOMAIN idle', idle'[k] = idle'[m]
        PROVE  k = m
    <3>1. k + Cardinality(chosen) = m + Cardinality(chosen)
      BY <1>8, <2>2 DEF PoolOK, NoRepeats
    <3> QED
      BY <1>5, <2>1, <3>1
  <2> QED
    BY <1>8, <2>2 DEF NoRepeats, RangeOf
<1>10. ASSUME NEW k \in DOMAIN idle' PROVE busy'[idle'[k]] = NoRequest
  <2> DEFINE n == k + Cardinality(chosen)
  <2>1. n \in DOMAIN slots /\ idle'[k] = slots[n] /\ slots[n] \in Slots /\ k \in Nat \ {0}
    BY <1>2, <1>8
  <2>2. ASSUME NEW i \in chosen PROVE to(i) # slots[n]
    <3>1. Place(i, ready) \in DOMAIN slots /\ Place(i, ready) # n
      BY <1>2, <1>5, <1>6, <2>1
    <3> QED
      BY <2>1, <3>1 DEF to, PoolOK, NoRepeats
  <2>3. busy'[slots[n]] = jobs[slots[n]]
    BY <1>7, <2>1, <2>2
  <2>4. jobs[slots[n]] = NoRequest
    BY <2>1 DEF PoolOK, RangeOf
  <2> QED
    BY <2>1, <2>3, <2>4
<1>11. /\ waiters' \in Seq(Requests) /\ NoRepeats(waiters')
       /\ RangeOf(waiters') = RangeOf(ws) \ started
       /\ PartOf(waiters', ws)
  BY <1>1, WithoutFacts DEF PoolOK
<1>12. ASSUME NEW i \in chosen
       PROVE  /\ i \in DOMAIN ws /\ i \in Nat /\ i \in ready /\ ws[i] \in Requests
              /\ ws[i] \in started /\ ws[i] \in RangeOf(ws)
              /\ DocumentsOf[ws[i]] \subseteq held' /\ ~stopped
              /\ \A s \in Slots : jobs[s] # ws[i]
  <2>1. i \in DOMAIN ws /\ i \in Nat /\ i \in ready /\ ws[i] \in Requests /\ ~stopped
    BY <1>2, <1>3
  <2>2. ws[i] \in started /\ ws[i] \in RangeOf(ws)
    BY <2>1 DEF RangeOf
  <2>3. DocumentsOf[ws[i]] \subseteq held'
    BY <1>1, <2>2 DEF DocumentsIn
  <2>4. \A s \in Slots : jobs[s] # ws[i]
    BY <2>1, <2>2, NoneAssumption DEF PoolOK
  <2> QED
    BY <2>1, <2>2, <2>3, <2>4
<1> HIDE DEF started
<1>13. busy' \in [Slots -> Requests \cup {NoRequest}]
  <2>1. \A s \in Slots : busy'[s] \in Requests \cup {NoRequest}
    BY <1>7, <1>12 DEF PoolOK
  <2>2. DOMAIN busy' = Slots /\ busy' = [s \in DOMAIN busy' |-> busy'[s]]
    BY <1>1
  <2> QED
    BY <2>1, <2>2
<1>14. held' \subseteq Documents
  <2>1. \A r \in Requests : DocumentsOf[r] \subseteq Documents
    BY DocumentsAssumption
  <2>2. started \subseteq Requests
    BY <1>12 DEF started
  <2> QED
    BY <1>1, <2>1, <2>2 DEF DocumentsIn, PoolOK
<1>15. ASSUME NEW s \in Slots, busy'[s] # NoRequest
       PROVE  busy'[s] \notin RangeOf(waiters') /\ DocumentsOf[busy'[s]] \subseteq held'
  <2>1. CASE busy'[s] = jobs[s]
    BY <1>1, <1>11, <1>15, <2>1 DEF PoolOK
  <2>2. CASE \E i \in chosen : busy'[s] = ws[i]
    BY <1>11, <1>12, <2>2
  <2> QED
    BY <1>7, <2>1, <2>2
<1>16. ASSUME NEW i \in chosen, NEW k \in chosen, i # k
       PROVE  ws[i] # ws[k] /\ ~Meet(ws[i], ws[k])
  <2>1. /\ i \in Nat \ {0} /\ k \in Nat \ {0} /\ i \in ready /\ k \in ready
        /\ i \in DOMAIN ws /\ k \in DOMAIN ws
    BY <1>2, <1>12
  <2>2. ws[i] # ws[k]
    BY <1>16, <2>1 DEF PoolOK, NoRepeats
  <2>3. CASE i < k
    <3>1. i \in 1..(k - 1)
      BY <2>1, <2>3
    <3> QED
      BY <1>4, <2>1, <2>2, <3>1
  <2>4. CASE k < i
    <3>1. k \in 1..(i - 1)
      BY <2>1, <2>4
    <3>2. ~Meet(ws[k], ws[i])
      BY <1>4, <2>1, <3>1
    <3> QED
      BY <2>2, <3>2 DEF Meet
  <2> QED
    BY <1>16, <2>1, <2>3, <2>4
<1>17. ASSUME NEW s \in Slots, NEW i \in chosen, jobs[s] # NoRequest
       PROVE  jobs[s] # ws[i] /\ ~Meet(jobs[s], ws[i])
  <2>1. DocumentsOf[ws[i]] \cap docs = {}
    BY <1>4, <1>12
  <2>2. DocumentsOf[jobs[s]] \subseteq docs
    BY <1>17 DEF PoolOK
  <2> QED
    BY <1>12, <2>1, <2>2 DEF Meet
<1>18. ASSUME NEW s \in Slots, NEW t \in Slots, s # t,
              busy'[s] # NoRequest, busy'[t] # NoRequest
       PROVE  busy'[s] # busy'[t] /\ ~Meet(busy'[s], busy'[t])
  <2>1. CASE busy'[s] = jobs[s] /\ busy'[t] = jobs[t]
    BY <1>18, <2>1 DEF PoolOK
  <2>2. ASSUME busy'[s] = jobs[s], NEW i \in chosen, busy'[t] = ws[i]
        PROVE  busy'[s] # busy'[t] /\ ~Meet(busy'[s], busy'[t])
    BY <1>17, <1>18, <2>2
  <2>3. ASSUME busy'[t] = jobs[t], NEW i \in chosen, busy'[s] = ws[i]
        PROVE  busy'[s] # busy'[t] /\ ~Meet(busy'[s], busy'[t])
    BY <1>17, <1>18, <2>3 DEF Meet
  <2>4. ASSUME NEW i \in chosen, to(i) = s, busy'[s] = ws[i],
               NEW k \in chosen, to(k) = t, busy'[t] = ws[k]
        PROVE  busy'[s] # busy'[t] /\ ~Meet(busy'[s], busy'[t])
    BY <1>16, <1>18, <2>4
  <2> QED
    BY <1>7, <2>1, <2>2, <2>3, <2>4
<1>19. PoolOK(idle', waiters', busy', held')
  <2>1. \A s \in RangeOf(idle') : busy'[s] = NoRequest
    BY <1>10 DEF RangeOf
  <2> QED
    BY <1>8, <1>9, <1>11, <1>13, <1>14, <1>15, <1>18, <2>1 DEF PoolOK
<1>20. Moved(slots, ws, jobs, stopped)
  BY <1>6, <1>7, <1>9, <1>11, <1>12 DEF Moved
<1>21. ASSUME NEW a \in DOMAIN waiters', NEW b \in DOMAIN waiters',
              NEW i \in DOMAIN came, NEW j \in DOMAIN came,
              a < b, came[i] = waiters'[a], came[j] = waiters'[b]
       PROVE  i < j
  <2>1. PICK c, d \in DOMAIN ws : c < d /\ ws[c] = waiters'[a] /\ ws[d] = waiters'[b]
    BY <1>11, <1>21 DEF PartOf
  <2> QED
    BY <1>21, <2>1 DEF Ordered
<1>22. ASSUME NEW s \in Slots, NEW i \in DOMAIN came, NEW j \in DOMAIN came,
              came[j] = busy'[s], i < j, Meet(came[i], came[j])
       PROVE  came[i] \notin RangeOf(waiters') /\ \A t \in Slots : busy'[t] # came[i]
  <2>0. came[i] \in Requests /\ came[j] \in Requests /\ i \in Nat /\ j \in Nat
    OBVIOUS
  <2>1. CASE busy'[s] = jobs[s]
    <3>1. came[i] \notin RangeOf(ws) /\ \A t \in Slots : jobs[t] # came[i]
      BY <1>22, <2>1 DEF Ordered
    <3> QED
      BY <1>7, <1>11, <1>12, <3>1
  <2>2. ASSUME NEW k \in chosen, busy'[s] = ws[k]
        PROVE  came[i] \notin RangeOf(waiters') /\ \A t \in Slots : busy'[t] # came[i]
    <3>0. k \in DOMAIN ws /\ k \in Nat /\ DOMAIN ws \subseteq Nat \ {0}
      BY <1>2, <1>12
    <3>1. ASSUME NEW m \in DOMAIN ws, ws[m] = came[i] PROVE FALSE
      <4>1. CASE m < k
        <5>1. m \in 1..(k - 1)
          BY <3>0, <4>1
        <5> QED
          BY <1>4, <1>12, <1>22, <2>2, <3>1, <5>1
      <4>2. CASE m = k
        <5>1. came[i] = came[j]
          BY <1>22, <2>2, <3>1, <4>2
        <5> QED
          BY <1>22, <2>0, <5>1 DEF NoRepeats
      <4>3. CASE k < m
        <5>1. j < i
          BY <1>22, <2>2, <3>0, <3>1, <4>3 DEF Ordered
        <5> QED
          BY <1>22, <2>0, <5>1
      <4> QED
        BY <3>0, <4>1, <4>2, <4>3
    <3>2. came[i] \notin RangeOf(ws)
      BY <3>1 DEF RangeOf
    <3>3. \A t \in Slots : jobs[t] # came[i]
      <4> SUFFICES ASSUME NEW t \in Slots, jobs[t] = came[i] PROVE FALSE
        OBVIOUS
      <4>1. jobs[t] # NoRequest
        BY <2>0, NoneAssumption
      <4> QED
        BY <1>17, <1>22, <2>2, <4>1
    <3> QED
      BY <1>7, <1>11, <1>12, <3>2, <3>3
  <2> QED
    BY <1>7, <2>1, <2>2
<1>23. Ordered(came, waiters', busy')
  BY <1>21, <1>22 DEF Ordered
<1> QED
  BY <1>19, <1>20, <1>23

LEMMA PartOfItself ==
  ASSUME NEW q
  PROVE  PartOf(q, q)
  BY DEF PartOf

(* Writes that leave the queue, and jobs that end, overtake nothing.       *)
LEMMA OrderKeeps ==
  ASSUME WriterPoolInv, NEW ws, NEW jobs, ws \in Seq(Requests),
         RangeOf(ws) \subseteq RangeOf(waiters), PartOf(ws, waiters),
         \A s \in Slots : jobs[s] \in {busy[s], NoRequest}
  PROVE  Ordered(accepted, ws, jobs)
<1>0. \A i \in DOMAIN accepted : accepted[i] \in Requests
  BY DEF WriterPoolInv, TypeOK
<1>1. ASSUME NEW a \in DOMAIN ws, NEW b \in DOMAIN ws,
             NEW i \in DOMAIN accepted, NEW j \in DOMAIN accepted,
             a < b, accepted[i] = ws[a], accepted[j] = ws[b]
      PROVE  i < j
  <2>1. PICK c, d \in DOMAIN waiters : c < d /\ waiters[c] = ws[a] /\ waiters[d] = ws[b]
    BY <1>1 DEF PartOf
  <2> QED
    BY <1>1, <2>1 DEF Ordered, WriterPoolInv
<1>2. ASSUME NEW s \in Slots, NEW i \in DOMAIN accepted, NEW j \in DOMAIN accepted,
             accepted[j] = jobs[s], i < j, Meet(accepted[i], accepted[j])
      PROVE  accepted[i] \notin RangeOf(ws) /\ \A t \in Slots : jobs[t] # accepted[i]
  <2>1. jobs[s] = busy[s]
    BY <1>0, <1>2, NoneAssumption
  <2>2. accepted[i] \notin RangeOf(waiters) /\ \A t \in Slots : busy[t] # accepted[i]
    BY <1>2, <2>1 DEF Ordered, WriterPoolInv
  <2> QED
    BY <1>0, <2>2, NoneAssumption
<1> QED
  BY <1>1, <1>2 DEF Ordered

(* A handler that ends with the grant loop, after it took nothing up: the  *)
(* queues and the jobs it starts from are what is left of the pool's.      *)
LEMMA GrantStep ==
  ASSUME WriterPoolInv, NEW slots, NEW ws, NEW jobs, NEW docs, NEW stopped,
         slots \in Seq(Slots), NoRepeats(slots),
         \A s \in RangeOf(slots) : jobs[s] = NoRequest,
         ws \in Seq(Requests), NoRepeats(ws),
         RangeOf(ws) \subseteq RangeOf(waiters), PartOf(ws, waiters),
         jobs \in [Slots -> Requests \cup {NoRequest}],
         \A s \in Slots : jobs[s] \in {busy[s], NoRequest},
         docs \subseteq Documents,
         \A s \in Slots : jobs[s] # NoRequest => DocumentsOf[jobs[s]] \subseteq docs,
         GrantLoop(slots, ws, jobs, docs, stopped)
  PROVE  /\ PoolOK(idle', waiters', busy', held')
         /\ Ordered(accepted, waiters', busy')
         /\ RangeOf(idle') \subseteq RangeOf(slots)
         /\ \A s \in Slots : busy'[s] = jobs[s] \/ (~stopped /\ s \in RangeOf(slots))
         /\ Open' \subseteq RangeOf(ws) \cup JobsOf(jobs)
<1>1. PoolOK(slots, ws, jobs, docs)
  BY DEF PoolOK, WriterPoolInv
<1>2. Ordered(accepted, ws, jobs)
  BY OrderKeeps
<1>3. /\ PoolOK(idle', waiters', busy', held')
      /\ Ordered(accepted, waiters', busy')
      /\ Moved(slots, ws, jobs, stopped)
  <2>1. accepted \in Seq(Requests) /\ NoRepeats(accepted)
    BY DEF WriterPoolInv, TypeOK
  <2> QED
    BY <1>1, <1>2, <2>1, GrantKeeps
<1>4. Open' \subseteq RangeOf(ws) \cup JobsOf(jobs)
  <2>1. \A s \in Slots : busy'[s] # NoRequest =>
          busy'[s] \in RangeOf(ws) \cup JobsOf(jobs)
    BY <1>3 DEF Moved, JobsOf
  <2> QED
    BY <1>3, <2>1 DEF Moved, Open, JobsOf
<1> QED
  BY <1>3, <1>4 DEF Moved

(* Calls, when no write is queued anew.                                    *)
LEMMA CallsKept ==
  ASSUME WriterPoolInv, accepted' = accepted, Open' \subseteq Open,
         \A r \in Requests : /\ call'[r] = "new" => call[r] = "new"
                             /\ call'[r] = "answered" => call[r] = "answered" \/ r \notin Open'
  PROVE  CallsOK'
  BY DEF CallsOK, WriterPoolInv

(* The barrier and the caches, when no barrier begins or ends, no command  *)
(* reaches the owner or ends there, and no job begins.                     *)
LEMMA BarrierKept ==
  ASSUME WriterPoolInv, tokens' = tokens, epoch' = epoch, generation' = generation,
         escaped' = escaped,
         \A s \in Slots : busy'[s] # NoRequest => busy[s] # NoRequest \/ tokens = {},
         \A c \in Serials :
           \/ phase'[c] = phase[c]
           \/ phase'[c] \in {"routed", "direct", "resuming", "done", "dead"}
           \/ phase'[c] = "holding" /\ c \in tokens /\ Running(busy') = {},
         \A c \in Serials : AtOwner(c)' => AtOwner(c),
         \A s \in Slots :
           \/ seen'[s] = seen[s] /\ loaded'[s] = loaded[s]
           \/ seen'[s] <= epoch /\ loaded'[s] = 0 /\ s \notin Writing',
         Writing' \subseteq Writing
  PROVE  BarrierOK' /\ CachesOK'
<1>1. Stopped => Stopped'
  BY DEF Stopped, Running
<1>2. BarrierOK'
  <2> SUFFICES ASSUME NEW c \in Serials
               PROVE  /\ phase'[c] \in {"quiescing", "holding", "submitted"} => c \in tokens
                      /\ phase'[c] \in {"holding", "submitted"} => Stopped'
    BY DEF BarrierOK
  <2>1. CASE phase'[c] = phase[c]
    BY <1>1, <2>1 DEF BarrierOK, WriterPoolInv
  <2>2. CASE phase'[c] = "holding" /\ c \in tokens /\ Running(busy') = {}
    BY <2>2 DEF Stopped
  <2> QED
    BY <2>1, <2>2
<1>3. CachesOK'
  <2>1. \A s \in Slots : seen'[s] <= epoch'
    BY DEF CachesOK, WriterPoolInv
  <2>2. ASSUME ~escaped
        PROVE  /\ \A c \in Serials : AtOwner(c)' => c \in tokens' /\ Stopped'
               /\ \A s \in Slots : seen'[s] = epoch' /\ loaded'[s] # 0 =>
                    loaded'[s] = generation' \/ Stopped'
               /\ \A s \in Writing' : loaded'[s] = generation'
    <3>1. \A c \in Serials : AtOwner(c)' => c \in tokens' /\ Stopped'
      BY <1>1, <2>2 DEF CachesOK, WriterPoolInv
    <3>2. \A s \in Slots : seen'[s] = epoch' /\ loaded'[s] # 0 =>
            loaded'[s] = generation' \/ Stopped'
      BY <1>1, <2>2 DEF CachesOK, WriterPoolInv
    <3>3. \A s \in Writing' : loaded'[s] = generation'
      <4> SUFFICES ASSUME NEW s \in Writing' PROVE loaded'[s] = generation'
        OBVIOUS
      <4>1. s \in Writing /\ s \in Slots
        BY DEF Writing
      <4> QED
        BY <2>2, <4>1 DEF CachesOK, WriterPoolInv
    <3> QED
      BY <3>1, <3>2, <3>3
  <2> QED
    BY <2>1, <2>2 DEF CachesOK
<1> QED
  BY <1>2, <1>3

(* What the pool knows of its queues and jobs, when it has not moved them. *)
LEMMA QueuesKept ==
  ASSUME WriterPoolInv, UNCHANGED <<idle, waiters, busy, held, accepted>>
  PROVE  /\ PoolOK(idle', waiters', busy', held')
         /\ NoRepeats(accepted') /\ Ordered(accepted', waiters', busy')
         /\ Open' = Open
  BY DEF WriterPoolInv, Open

(* Slots, when only their own state has changed.                           *)
LEMMA SlotsKept ==
  ASSUME WriterPoolInv, accepted' = accepted, Open' \subseteq Open,
         \A s \in Slots :
           /\ step'[s] \in {"writing", "reporting"} => busy'[s] # NoRequest /\ doing'[s] = busy'[s]
           /\ step'[s] = "replying" => step[s] = "replying" /\ doing'[s] = doing[s]
           /\ step'[s] = "writing" => life'[s] = "alive"
           /\ life'[s] = "unborn" =>
                /\ life[s] = "unborn" /\ loaded'[s] = loaded[s] /\ step'[s] = step[s]
                /\ s \notin RangeOf(idle') /\ busy'[s] = NoRequest
  PROVE  SlotsOK'
  BY DEF SlotsOK, WriterPoolInv

-----------------------------------------------------------------------------
(* Slots.                                                                  *)

LEMMA SlotStartsKeeps ==
  ASSUME WriterPoolInv, NEW s \in Slots, SlotStarts(s)
  PROVE  WriterPoolInv'
<1> USE DEF WriterPoolInv, SlotStarts, callerVars, serialVars, closeVars
<1>1. /\ Append(idle, s) \in Seq(Slots) /\ NoRepeats(Append(idle, s))
      /\ RangeOf(Append(idle, s)) = RangeOf(idle) \cup {s}
  <2>1. s \notin RangeOf(idle)
    BY DEF SlotsOK
  <2> QED
    BY <2>1, AppendFacts DEF PoolOK
<1>2. /\ PoolOK(idle', waiters', busy', held') /\ Ordered(accepted, waiters', busy')
      /\ RangeOf(idle') \subseteq RangeOf(idle) \cup {s}
      /\ \A t \in Slots : busy'[t] = busy[t] \/ (~Paused /\ t \in RangeOf(idle) \cup {s})
      /\ Open' \subseteq Open
  <2>1. \A t \in RangeOf(Append(idle, s)) : busy[t] = NoRequest
    BY <1>1 DEF PoolOK, SlotsOK
  <2>2. GrantLoop(Append(idle, s), waiters, busy, held, Paused)
    OBVIOUS
  <2>3. PoolOK(idle, waiters, busy, held)
    OBVIOUS
  <2> HIDE DEF WriterPoolInv, SlotStarts
  <2>5. /\ waiters \in Seq(Requests) /\ NoRepeats(waiters) /\ PartOf(waiters, waiters)
        /\ busy \in [Slots -> Requests \cup {NoRequest}] /\ held \subseteq Documents
        /\ \A t \in Slots : busy[t] # NoRequest => DocumentsOf[busy[t]] \subseteq held
        /\ \A t \in Slots : busy[t] \in {busy[t], NoRequest}
    BY <2>3, PartOfItself DEF PoolOK
  <2>6. /\ PoolOK(idle', waiters', busy', held')
        /\ Ordered(accepted, waiters', busy')
        /\ RangeOf(idle') \subseteq RangeOf(Append(idle, s))
        /\ \A t \in Slots : busy'[t] = busy[t] \/ (~Paused /\ t \in RangeOf(Append(idle, s)))
        /\ Open' \subseteq RangeOf(waiters) \cup JobsOf(busy)
    BY <1>1, <2>1, <2>2, <2>5, GrantStep
  <2>7. Open' \subseteq Open
    BY <2>6 DEF Open
  <2>8. RangeOf(idle') \subseteq RangeOf(idle) \cup {s}
    BY <1>1, <2>6
  <2>9. \A t \in Slots : busy'[t] = busy[t] \/ (~Paused /\ t \in RangeOf(idle) \cup {s})
    BY <1>1, <2>6
  <2> QED
    BY <2>6, <2>7, <2>8, <2>9
<1>3. TypeOK'
  BY <1>2 DEF TypeOK, PoolOK
<1>4. CallsOK'
  BY <1>2, CallsKept
<1>5. SlotsOK'
  <2>1. ASSUME NEW t \in Slots
        PROVE  /\ step'[t] \in {"writing", "reporting"} =>
                    busy'[t] # NoRequest /\ doing'[t] = busy'[t]
               /\ step'[t] = "replying" => step[t] = "replying" /\ doing'[t] = doing[t]
               /\ step'[t] = "writing" => life'[t] = "alive"
               /\ life'[t] = "unborn" =>
                    /\ life[t] = "unborn" /\ loaded'[t] = loaded[t] /\ step'[t] = step[t]
                    /\ t \notin RangeOf(idle') /\ busy'[t] = NoRequest
    <3>1. step'[t] = step[t] /\ doing'[t] = doing[t] /\ loaded'[t] = loaded[t]
      OBVIOUS
    <3>2. life'[t] = IF t = s THEN "alive" ELSE life[t]
      BY DEF TypeOK
    <3>3. busy[t] # NoRequest => busy'[t] = busy[t]
      BY <1>2 DEF PoolOK, SlotsOK
    <3>4. t # s /\ life[t] = "unborn" => t \notin RangeOf(idle') /\ busy'[t] = NoRequest
      BY <1>2 DEF SlotsOK
    <3> QED
      BY <3>1, <3>2, <3>3, <3>4 DEF SlotsOK
  <2> QED
    BY <1>2, <2>1, SlotsKept
<1>6. BarrierOK' /\ CachesOK'
  <2>1. \A t \in Slots : busy'[t] # NoRequest => busy[t] # NoRequest \/ tokens = {}
    BY <1>2 DEF Paused
  <2>2. \A t \in Slots :
          \/ seen'[t] = seen[t] /\ loaded'[t] = loaded[t]
          \/ seen'[t] <= epoch /\ loaded'[t] = 0 /\ t \notin Writing'
    <3>1. loaded[s] = 0 /\ step[s] = "free" /\ epoch <= epoch
      BY DEF SlotsOK, TypeOK
    <3>2. \A t \in Slots : seen'[t] = IF t = s THEN epoch ELSE seen[t]
      BY DEF TypeOK
    <3>3. seen'[s] <= epoch /\ loaded'[s] = 0 /\ s \notin Writing'
      BY <3>1, <3>2 DEF Writing
    <3>4. \A t \in Slots : t # s => seen'[t] = seen[t] /\ loaded'[t] = loaded[t]
      BY <3>2
    <3> QED
      BY <3>3, <3>4
  <2>3. Writing' = Writing
    BY DEF Writing
  <2>4. \A c \in Serials : AtOwner(c)' <=> AtOwner(c)
    BY DEF AtOwner
  <2> QED
    BY <2>1, <2>2, <2>3, <2>4, BarrierKept
<1> QED
  BY <1>2, <1>3, <1>4, <1>5, <1>6

LEMMA SlotBeginsKeeps ==
  ASSUME WriterPoolInv, NEW s \in Slots, SlotBegins(s)
  PROVE  WriterPoolInv'
<1> USE DEF WriterPoolInv, SlotBegins, poolVars, callerVars, serialVars, closeVars
<1>1. /\ PoolOK(idle', waiters', busy', held')
      /\ NoRepeats(accepted') /\ Ordered(accepted', waiters', busy')
      /\ Open' = Open
  BY QueuesKept
<1>2. TypeOK'
  <2>1. /\ doing' \in [Slots -> Requests \cup {NoRequest}]
        /\ step' \in [Slots -> {"free", "writing", "reporting", "replying"}]
        /\ seen' \in [Slots -> Nat]
    BY DEF TypeOK
  <2>2. loaded' \in [Slots -> Nat]
    <3>1. /\ (IF seen[s] = epoch THEN loaded[s] ELSE 0) \in Nat
          /\ generation \in Nat /\ loaded \in [Slots -> Nat]
      BY DEF TypeOK
    <3> QED
      BY <3>1
  <2> QED
    BY <2>1, <2>2 DEF TypeOK
<1>3. CallsOK'
  BY <1>1, CallsKept
<1>4. SlotsOK'
  <2>1. ASSUME NEW t \in Slots
        PROVE  /\ step'[t] \in {"writing", "reporting"} =>
                    busy'[t] # NoRequest /\ doing'[t] = busy'[t]
               /\ step'[t] = "replying" => step[t] = "replying" /\ doing'[t] = doing[t]
               /\ step'[t] = "writing" => life'[t] = "alive"
               /\ life'[t] = "unborn" =>
                    /\ life[t] = "unborn" /\ loaded'[t] = loaded[t] /\ step'[t] = step[t]
                    /\ t \notin RangeOf(idle') /\ busy'[t] = NoRequest
    <3>1. CASE t = s
      BY <3>1 DEF TypeOK, SlotsOK
    <3>2. CASE t # s
      BY <3>2 DEF TypeOK, SlotsOK
    <3> QED
      BY <3>1, <3>2
  <2> QED
    BY <1>1, <2>1, SlotsKept
<1>5. ~Stopped /\ ~Stopped'
  BY DEF Stopped, Running
<1>6. BarrierOK'
  BY <1>5 DEF BarrierOK
<1>7. CachesOK'
  <2> DEFINE kept == IF seen[s] = epoch THEN loaded[s] ELSE 0
  <2>1. ASSUME ~escaped, s \in connected
        PROVE  (IF kept = 0 THEN generation ELSE kept) = generation
    BY <1>5, <2>1 DEF CachesOK
  <2>2. /\ \A t \in Slots : t # s => /\ step'[t] = step[t] /\ seen'[t] = seen[t]
                                  /\ loaded'[t] = loaded[t]
        /\ s \in connected => /\ seen'[s] = epoch /\ step'[s] = "writing"
                              /\ loaded'[s] = IF kept = 0 THEN generation ELSE kept
        /\ s \notin connected => /\ seen'[s] = seen[s] /\ step'[s] = "reporting"
                                 /\ loaded'[s] = loaded[s]
    BY DEF TypeOK
  <2> HIDE DEF kept
  <2>3. ASSUME NEW t \in Slots PROVE seen'[t] <= epoch'
    <3>1. epoch' = epoch /\ epoch <= epoch /\ seen[t] <= epoch /\ seen[s] <= epoch
      BY DEF CachesOK, TypeOK
    <3> QED
      BY <2>2, <3>1
  <2>4. ASSUME ~escaped, NEW c \in Serials, AtOwner(c) PROVE FALSE
    BY <1>5, <2>4 DEF CachesOK
  <2>5. \A c \in Serials : AtOwner(c)' <=> AtOwner(c)
    BY DEF AtOwner
  <2>6. ASSUME ~escaped, NEW t \in Slots, seen'[t] = epoch', loaded'[t] # 0
        PROVE  loaded'[t] = generation'
    BY <1>5, <2>1, <2>2, <2>6 DEF CachesOK
  <2>7. ASSUME ~escaped, NEW t \in Writing' PROVE loaded'[t] = generation'
    <3>1. CASE t = s
      BY <2>1, <2>2, <2>7, <3>1 DEF Writing
    <3>2. CASE t # s
      BY <2>2, <2>7, <3>2 DEF Writing, CachesOK
    <3> QED
      BY <3>1, <3>2
  <2> QED
    BY <2>3, <2>4, <2>5, <2>6, <2>7 DEF CachesOK
<1> QED
  BY <1>1, <1>2, <1>3, <1>4, <1>6, <1>7
LEMMA SlotFinishesKeeps ==
  ASSUME WriterPoolInv, NEW s \in Slots, SlotFinishes(s)
  PROVE  WriterPoolInv'
<1> USE DEF WriterPoolInv, SlotFinishes, poolVars, callerVars, serialVars, closeVars
<1>1. /\ PoolOK(idle', waiters', busy', held')
      /\ NoRepeats(accepted') /\ Ordered(accepted', waiters', busy')
      /\ Open' = Open
  BY QueuesKept
<1>2. TypeOK'
  BY DEF TypeOK
<1>3. CallsOK'
  BY <1>1, CallsKept
<1>4. \A t \in Slots : step'[t] = IF t = s THEN "reporting" ELSE step[t]
  BY DEF TypeOK
<1>5. SlotsOK'
  <2>1. ASSUME NEW t \in Slots
        PROVE  /\ step'[t] \in {"writing", "reporting"} =>
                    busy'[t] # NoRequest /\ doing'[t] = busy'[t]
               /\ step'[t] = "replying" => step[t] = "replying" /\ doing'[t] = doing[t]
               /\ step'[t] = "writing" => life'[t] = "alive"
               /\ life'[t] = "unborn" =>
                    /\ life[t] = "unborn" /\ loaded'[t] = loaded[t] /\ step'[t] = step[t]
                    /\ t \notin RangeOf(idle') /\ busy'[t] = NoRequest
    BY <1>4 DEF SlotsOK
  <2> QED
    BY <1>1, <2>1, SlotsKept
<1>6. BarrierOK' /\ CachesOK'
  <2>1. Writing' \subseteq Writing
    BY <1>4 DEF Writing
  <2>2. \A c \in Serials : AtOwner(c)' <=> AtOwner(c)
    BY DEF AtOwner
  <2> QED
    BY <2>1, <2>2, BarrierKept
<1> QED
  BY <1>1, <1>2, <1>3, <1>5, <1>6

LEMMA SlotRepliesKeeps ==
  ASSUME WriterPoolInv, NEW s \in Slots, SlotReplies(s)
  PROVE  WriterPoolInv'
<1> USE DEF WriterPoolInv, SlotReplies, poolVars, serialVars, closeVars
<1>1. /\ PoolOK(idle', waiters', busy', held')
      /\ NoRepeats(accepted') /\ Ordered(accepted', waiters', busy')
      /\ Open' = Open
  BY QueuesKept
<1>2. TypeOK'
  BY DEF TypeOK, Answered
<1>3. CallsOK'
  <2>1. doing[s] \notin Open
    BY DEF SlotsOK
  <2>2. \A r \in Requests :
          /\ call'[r] = "new" => call[r] = "new"
          /\ call'[r] = "answered" => call[r] = "answered" \/ r = doing[s]
    BY DEF Answered, TypeOK
  <2> QED
    BY <1>1, <2>1, <2>2, CallsKept
<1>4. \A t \in Slots : /\ step'[t] = IF t = s THEN "free" ELSE step[t]
                       /\ t # s => doing'[t] = doing[t]
  BY DEF TypeOK
<1>5. SlotsOK'
  <2>1. ASSUME NEW t \in Slots
        PROVE  /\ step'[t] \in {"writing", "reporting"} =>
                    busy'[t] # NoRequest /\ doing'[t] = busy'[t]
               /\ step'[t] = "replying" => step[t] = "replying" /\ doing'[t] = doing[t]
               /\ step'[t] = "writing" => life'[t] = "alive"
               /\ life'[t] = "unborn" =>
                    /\ life[t] = "unborn" /\ loaded'[t] = loaded[t] /\ step'[t] = step[t]
                    /\ t \notin RangeOf(idle') /\ busy'[t] = NoRequest
    BY <1>4 DEF SlotsOK
  <2> QED
    BY <1>1, <2>1, SlotsKept
<1>6. BarrierOK' /\ CachesOK'
  <2>1. Writing' \subseteq Writing
    BY <1>4 DEF Writing
  <2>2. \A c \in Serials : AtOwner(c)' <=> AtOwner(c)
    BY DEF AtOwner
  <2> QED
    BY <2>1, <2>2, BarrierKept
<1> QED
  BY <1>1, <1>2, <1>3, <1>5, <1>6

LEMMA SlotDiesKeeps ==
  ASSUME WriterPoolInv, NEW s \in Slots, SlotDies(s)
  PROVE  WriterPoolInv'
<1> USE DEF WriterPoolInv, SlotDies, poolVars, callerVars, serialVars, closeVars
<1>1. /\ PoolOK(idle', waiters', busy', held')
      /\ NoRepeats(accepted') /\ Ordered(accepted', waiters', busy')
      /\ Open' = Open
  BY QueuesKept
<1>2. TypeOK'
  BY DEF TypeOK
<1>3. CallsOK'
  BY <1>1, CallsKept
<1>4. /\ \A t \in Slots : t # s =>
           /\ step'[t] = step[t] /\ doing'[t] = doing[t] /\ life'[t] = life[t]
           /\ seen'[t] = seen[t] /\ loaded'[t] = loaded[t]
      /\ life'[s] = "dead" /\ seen'[s] = 0 /\ loaded'[s] = 0
      /\ step'[s] = "free" \/ (step'[s] = "reporting" /\ step[s] = "reporting" /\ doing'[s] = doing[s])
  BY DEF TypeOK
<1>5. SlotsOK'
  <2>1. ASSUME NEW t \in Slots
        PROVE  /\ step'[t] \in {"writing", "reporting"} =>
                    busy'[t] # NoRequest /\ doing'[t] = busy'[t]
               /\ step'[t] = "replying" => step[t] = "replying" /\ doing'[t] = doing[t]
               /\ step'[t] = "writing" => life'[t] = "alive"
               /\ life'[t] = "unborn" =>
                    /\ life[t] = "unborn" /\ loaded'[t] = loaded[t] /\ step'[t] = step[t]
                    /\ t \notin RangeOf(idle') /\ busy'[t] = NoRequest
    <3>1. CASE t = s
      BY <1>4, <3>1 DEF SlotsOK
    <3>2. CASE t # s
      BY <1>4, <3>2 DEF SlotsOK
    <3> QED
      BY <3>1, <3>2
  <2> QED
    BY <1>1, <2>1, SlotsKept
<1>6. BarrierOK' /\ CachesOK'
  <2>1. Writing' \subseteq Writing
    BY <1>4 DEF Writing
  <2>2. \A c \in Serials : AtOwner(c)' <=> AtOwner(c)
    BY DEF AtOwner
  <2>3. seen'[s] <= epoch /\ loaded'[s] = 0 /\ s \notin Writing'
    BY <1>4 DEF Writing, TypeOK
  <2>4. \A t \in Slots : t # s => seen'[t] = seen[t] /\ loaded'[t] = loaded[t]
    BY <1>4
  <2> QED
    BY <2>1, <2>2, <2>3, <2>4, BarrierKept
<1> QED
  BY <1>1, <1>2, <1>3, <1>5, <1>6

-----------------------------------------------------------------------------
(* Callers of concurrent writes.                                           *)

(* When only the callers have moved, only what is said of them can break.  *)
LEMMA CallersMove ==
  ASSUME WriterPoolInv, UNCHANGED <<poolVars, slotVars, accepted, serialVars>>
  PROVE  /\ PoolOK(idle', waiters', busy', held')
         /\ NoRepeats(accepted') /\ Ordered(accepted', waiters', busy')
         /\ Open' = Open /\ SlotsOK' /\ BarrierOK' /\ CachesOK'
<1> USE DEF poolVars, slotVars, serialVars
<1>1. /\ PoolOK(idle', waiters', busy', held')
      /\ NoRepeats(accepted') /\ Ordered(accepted', waiters', busy')
      /\ Open' = Open
  BY QueuesKept
<1>2. SlotsOK'
  BY <1>1 DEF SlotsOK, WriterPoolInv
<1>3. BarrierOK' /\ CachesOK'
  <2>1. Stopped' <=> Stopped
    BY DEF Stopped, Running
  <2>2. \A c \in Serials : AtOwner(c)' <=> AtOwner(c)
    BY DEF AtOwner
  <2>3. Writing' = Writing
    BY DEF Writing
  <2> QED
    BY <2>1, <2>2, <2>3 DEF BarrierOK, CachesOK, WriterPoolInv
<1> QED
  BY <1>1, <1>2, <1>3

LEMMA ExecuteRefusedKeeps ==
  ASSUME WriterPoolInv, NEW r \in Requests, ExecuteRefused(r)
  PROVE  WriterPoolInv'
<1>1. /\ PoolOK(idle', waiters', busy', held')
      /\ NoRepeats(accepted') /\ Ordered(accepted', waiters', busy')
      /\ Open' = Open /\ SlotsOK' /\ BarrierOK' /\ CachesOK'
  BY CallersMove DEF ExecuteRefused
<1> USE DEF WriterPoolInv, ExecuteRefused, poolVars, slotVars, serialVars, closeVars
<1>2. TypeOK'
  BY DEF TypeOK
<1>3. CallsOK'
  <2>1. r \notin Open
    BY DEF CallsOK, Routed
  <2>2. \A q \in Requests : call'[q] = IF q = r THEN "answered" ELSE call[q]
    BY DEF TypeOK
  <2> QED
    BY <1>1, <2>1, <2>2, CallsKept
<1> QED
  BY <1>1, <1>2, <1>3

LEMMA CallerExpiresKeeps ==
  ASSUME WriterPoolInv, NEW r \in Requests, CallerExpires(r)
  PROVE  WriterPoolInv'
<1>1. /\ PoolOK(idle', waiters', busy', held')
      /\ NoRepeats(accepted') /\ Ordered(accepted', waiters', busy')
      /\ Open' = Open /\ SlotsOK' /\ BarrierOK' /\ CachesOK'
  BY CallersMove DEF CallerExpires
<1> USE DEF WriterPoolInv, CallerExpires, poolVars, slotVars, serialVars, closeVars
<1>2. TypeOK'
  BY DEF TypeOK
<1>3. CallsOK'
  <2>1. \A q \in Requests : call'[q] = IF q = r THEN "expired" ELSE call[q]
    BY DEF TypeOK
  <2> QED
    BY <1>1, <2>1, CallsKept
<1> QED
  BY <1>1, <1>2, <1>3

LEMMA CallerDiesKeeps ==
  ASSUME WriterPoolInv, NEW r \in Requests, CallerDies(r)
  PROVE  WriterPoolInv'
<1>1. /\ PoolOK(idle', waiters', busy', held')
      /\ NoRepeats(accepted') /\ Ordered(accepted', waiters', busy')
      /\ Open' = Open /\ SlotsOK' /\ BarrierOK' /\ CachesOK'
  BY CallersMove DEF CallerDies
<1> USE DEF WriterPoolInv, CallerDies, poolVars, slotVars, serialVars, closeVars
<1>2. TypeOK'
  BY DEF TypeOK
<1>3. CallsOK'
  <2>1. \A q \in Requests : call'[q] = IF q = r THEN "dead" ELSE call[q]
    BY DEF TypeOK
  <2> QED
    BY <1>1, <2>1, CallsKept
<1> QED
  BY <1>1, <1>2, <1>3

-----------------------------------------------------------------------------
(* Callers of serial commands, the owner, and the close.                   *)

(* When only those have moved, what is said of queues, calls and slots     *)
(* stays.                                                                  *)
LEMMA SerialsMove ==
  ASSUME WriterPoolInv, UNCHANGED <<idle, busy, held, waiters, callerVars,
                                    life, doing, step, loaded>>
  PROVE  /\ PoolOK(idle', waiters', busy', held')
         /\ NoRepeats(accepted') /\ Ordered(accepted', waiters', busy')
         /\ CallsOK' /\ SlotsOK'
<1> USE DEF callerVars
<1>1. /\ PoolOK(idle', waiters', busy', held')
      /\ NoRepeats(accepted') /\ Ordered(accepted', waiters', busy')
      /\ Open' = Open
  BY QueuesKept
<1>2. SlotsOK'
  BY <1>1 DEF SlotsOK, WriterPoolInv
<1>3. CallsOK'
  BY <1>1, CallsKept
<1> QED
  BY <1>1, <1>2, <1>3

LEMMA RouteSerialKeeps ==
  ASSUME WriterPoolInv, NEW c \in Serials, RouteSerial(c)
  PROVE  WriterPoolInv'
<1> USE DEF WriterPoolInv, RouteSerial, poolVars, slotVars, callerVars, closeVars
<1>1. /\ PoolOK(idle', waiters', busy', held')
      /\ NoRepeats(accepted') /\ Ordered(accepted', waiters', busy')
      /\ CallsOK' /\ SlotsOK'
  BY SerialsMove
<1>2. TypeOK'
  BY DEF TypeOK
<1>3. /\ \A d \in Serials : phase'[d] = phase[d] \/ phase'[d] \in {"routed", "direct"}
      /\ Stopped' <=> Stopped
      /\ Writing' = Writing
  BY DEF TypeOK, Stopped, Running, Writing
<1>4. BarrierOK'
  BY <1>3 DEF BarrierOK
<1>5. CachesOK'
  <2>1. CASE enabled
    <3>1. \A d \in Serials : AtOwner(d)' <=> AtOwner(d)
      BY <2>1 DEF AtOwner
    <3> QED
      BY <1>3, <2>1, <3>1 DEF CachesOK
  <2>2. CASE ~enabled
    BY <2>2 DEF CachesOK
  <2> QED
    BY <2>1, <2>2
<1> QED
  BY <1>1, <1>2, <1>4, <1>5

LEMMA QuiesceKeeps ==
  ASSUME WriterPoolInv, NEW c \in Serials, Quiesce(c)
  PROVE  WriterPoolInv'
<1> USE DEF WriterPoolInv, Quiesce, slotVars, callerVars, closeVars
<1>1. /\ PoolOK(idle', waiters', busy', held')
      /\ NoRepeats(accepted') /\ Ordered(accepted', waiters', busy')
      /\ CallsOK' /\ SlotsOK'
  BY SerialsMove
<1>2. TypeOK'
  BY DEF TypeOK
<1>3. /\ \A d \in Serials : d # c => phase'[d] = phase[d]
      /\ phase'[c] = "quiescing" \/ (phase'[c] = "holding" /\ Running(busy) = {})
      /\ Stopped => Stopped'
      /\ Running(busy) = {} => Stopped'
      /\ Writing' = Writing
  BY DEF TypeOK, Stopped, Running, Writing
<1>4. BarrierOK'
  <2> SUFFICES ASSUME NEW d \in Serials
               PROVE  /\ phase'[d] \in {"quiescing", "holding", "submitted"} => d \in tokens'
                      /\ phase'[d] \in {"holding", "submitted"} => Stopped'
    BY DEF BarrierOK
  <2>1. CASE d = c
    BY <1>3, <2>1
  <2>2. CASE d # c
    BY <1>3, <2>2 DEF BarrierOK
  <2> QED
    BY <2>1, <2>2
<1>5. CachesOK'
  <2>1. \A d \in Serials : AtOwner(d)' <=> AtOwner(d)
    BY DEF AtOwner
  <2> QED
    BY <1>3, <2>1 DEF CachesOK
<1> QED
  BY <1>1, <1>2, <1>4, <1>5

LEMMA SubmitSerialKeeps ==
  ASSUME WriterPoolInv, NEW c \in Serials, SubmitSerial(c)
  PROVE  WriterPoolInv'
<1> USE DEF WriterPoolInv, SubmitSerial, poolVars, slotVars, callerVars, closeVars
<1>1. /\ PoolOK(idle', waiters', busy', held')
      /\ NoRepeats(accepted') /\ Ordered(accepted', waiters', busy')
      /\ CallsOK' /\ SlotsOK'
  BY SerialsMove
<1>2. TypeOK'
  BY DEF TypeOK
<1>3. /\ \A d \in Serials : d # c => phase'[d] = phase[d] /\ (AtOwner(d)' <=> AtOwner(d))
      /\ Stopped' <=> Stopped
      /\ Writing' = Writing
      /\ c \in tokens /\ Stopped
  BY DEF TypeOK, Stopped, Running, Writing, AtOwner, BarrierOK
<1>4. BarrierOK'
  BY <1>3 DEF BarrierOK
<1>5. CachesOK'
  BY <1>3 DEF CachesOK
<1> QED
  BY <1>1, <1>2, <1>4, <1>5

LEMMA OwnerBeginsKeeps ==
  ASSUME WriterPoolInv, NEW c \in Serials, OwnerBegins(c)
  PROVE  WriterPoolInv'
<1> USE DEF WriterPoolInv, OwnerBegins, poolVars, slotVars, callerVars, closeVars
<1>1. /\ PoolOK(idle', waiters', busy', held')
      /\ NoRepeats(accepted') /\ Ordered(accepted', waiters', busy')
      /\ CallsOK' /\ SlotsOK'
  BY SerialsMove
<1>2. TypeOK'
  BY DEF TypeOK
<1>3. BarrierOK' /\ CachesOK'
  <2>1. \A d \in Serials : AtOwner(d)' => AtOwner(d)
    BY DEF AtOwner, TypeOK
  <2>2. Writing' = Writing
    BY DEF Writing
  <2> QED
    BY <2>1, <2>2, BarrierKept
<1> QED
  BY <1>1, <1>2, <1>3

(* A command that ends inside its barrier ends while nothing runs.         *)
LEMMA OwnerEndsKeeps ==
  ASSUME WriterPoolInv, NEW c \in Serials, OwnerEnds(c)
  PROVE  WriterPoolInv'
<1> USE DEF WriterPoolInv, OwnerEnds, poolVars, slotVars, callerVars, closeVars
<1>1. /\ PoolOK(idle', waiters', busy', held')
      /\ NoRepeats(accepted') /\ Ordered(accepted', waiters', busy')
      /\ CallsOK' /\ SlotsOK'
  BY SerialsMove
<1>2. /\ Leaving(c) \in {"new", "routed", "resuming", "done", "dead"}
      /\ \A d \in Serials : phase'[d] = IF d = c THEN Leaving(c) ELSE phase[d]
      /\ \A d \in Serials : command'[d] = IF d = c THEN "over" ELSE command[d]
  BY DEF Leaving, TypeOK
<1>3. TypeOK'
  <2>1. phase' \in [Serials -> {"new", "routed", "quiescing", "holding",
                                "submitted", "direct", "resuming", "done", "dead"}]
    BY <1>2 DEF TypeOK
  <2> QED
    BY <2>1 DEF TypeOK
<1>4. /\ Stopped' <=> Stopped
      /\ Writing' = Writing
      /\ Stopped => Writing = {}
      /\ \A d \in Serials : AtOwner(d)' => AtOwner(d)
      /\ AtOwner(c)
  BY <1>2 DEF Stopped, Running, Writing, SlotsOK, AtOwner
<1>5. BarrierOK'
  BY <1>2, <1>4 DEF BarrierOK
<1>6. CachesOK'
  BY <1>4 DEF CachesOK
<1> QED
  BY <1>1, <1>3, <1>5, <1>6

LEMMA SerialGivesUpKeeps ==
  ASSUME WriterPoolInv, NEW c \in Serials, SerialGivesUp(c)
  PROVE  WriterPoolInv'
<1> USE DEF WriterPoolInv, SerialGivesUp, poolVars, slotVars, callerVars, closeVars
<1>1. /\ PoolOK(idle', waiters', busy', held')
      /\ NoRepeats(accepted') /\ Ordered(accepted', waiters', busy')
      /\ CallsOK' /\ SlotsOK'
  BY SerialsMove
<1>2. /\ Leaving(c) \in {"resuming", "done"}
      /\ \A d \in Serials : phase'[d] = IF d = c THEN Leaving(c) ELSE phase[d]
  BY DEF Leaving, TypeOK
<1>3. TypeOK'
  <2>1. phase' \in [Serials -> {"new", "routed", "quiescing", "holding",
                                "submitted", "direct", "resuming", "done", "dead"}]
    BY <1>2 DEF TypeOK
  <2> QED
    BY <2>1 DEF TypeOK
<1>4. BarrierOK' /\ CachesOK'
  <2>1. \A d \in Serials : AtOwner(d)' => AtOwner(d)
    BY DEF AtOwner, TypeOK
  <2>2. Writing' = Writing
    BY DEF Writing
  <2> QED
    BY <1>2, <2>1, <2>2, BarrierKept
<1> QED
  BY <1>1, <1>3, <1>4

LEMMA SerialDiesKeeps ==
  ASSUME WriterPoolInv, NEW c \in Serials, SerialDies(c)
  PROVE  WriterPoolInv'
<1> USE DEF WriterPoolInv, SerialDies, poolVars, slotVars, callerVars, closeVars
<1>1. /\ PoolOK(idle', waiters', busy', held')
      /\ NoRepeats(accepted') /\ Ordered(accepted', waiters', busy')
      /\ CallsOK' /\ SlotsOK'
  BY SerialsMove
<1>2. TypeOK'
  BY DEF TypeOK
<1>3. BarrierOK' /\ CachesOK'
  <2>1. \A d \in Serials : AtOwner(d)' <=> AtOwner(d)
    BY DEF AtOwner
  <2>2. Writing' = Writing
    BY DEF Writing
  <2>3. \A d \in Serials : phase'[d] = IF d = c THEN "dead" ELSE phase[d]
    BY DEF TypeOK
  <2> QED
    BY <2>1, <2>2, <2>3, BarrierKept
<1> QED
  BY <1>1, <1>2, <1>3

LEMMA CloseWritersKeeps ==
  ASSUME WriterPoolInv, CloseWriters
  PROVE  WriterPoolInv'
<1> USE DEF WriterPoolInv, CloseWriters, poolVars, callerVars, serialVars, closeVars
<1>1. /\ PoolOK(idle', waiters', busy', held')
      /\ NoRepeats(accepted') /\ Ordered(accepted', waiters', busy')
      /\ CallsOK' /\ SlotsOK'
  BY SerialsMove
<1>2. TypeOK'
  BY DEF TypeOK
<1>3. BarrierOK' /\ CachesOK'
  <2>1. \A d \in Serials : AtOwner(d)' <=> AtOwner(d)
    BY DEF AtOwner
  <2>2. Writing' = Writing
    BY DEF Writing
  <2> QED
    BY <2>1, <2>2, BarrierKept
<1> QED
  BY <1>1, <1>2, <1>3
-----------------------------------------------------------------------------
(* Handlers that end with the grant loop.                                  *)

(* A job ends, and its slot may be idle again.                             *)
LEMMA JobEnds ==
  ASSUME WriterPoolInv, NEW s \in Slots, NEW slots, NEW jobs, NEW docs,
         slots \in Seq(Slots), NoRepeats(slots),
         RangeOf(slots) \subseteq RangeOf(idle) \cup {s},
         jobs \in [Slots -> Requests \cup {NoRequest}],
         \A t \in Slots : jobs[t] = IF t = s THEN NoRequest ELSE busy[t],
         docs \subseteq held,
         \A d \in held \ docs : busy[s] # NoRequest /\ d \in DocumentsOf[busy[s]],
         GrantLoop(slots, waiters, jobs, docs, Paused)
  PROVE  /\ PoolOK(idle', waiters', busy', held')
         /\ Ordered(accepted, waiters', busy')
         /\ RangeOf(idle') \subseteq RangeOf(slots)
         /\ \A t \in Slots : t # s /\ busy[t] # NoRequest => busy'[t] = busy[t]
         /\ \A t \in Slots : busy'[t] = jobs[t] \/ (~Paused /\ t \in RangeOf(slots))
         /\ Open' \subseteq Open
         /\ busy[s] # NoRequest => busy[s] \notin Open'
<1>1. \A t \in Slots : jobs[t] \in {busy[t], NoRequest}
  OBVIOUS
<1>2. \A t \in RangeOf(slots) : jobs[t] = NoRequest
  <2>1. RangeOf(slots) \subseteq Slots
    BY MemberFacts
  <2>2. \A t \in RangeOf(idle) : busy[t] = NoRequest
    BY DEF WriterPoolInv, PoolOK
  <2> QED
    BY <1>1, <2>1, <2>2
<1>3. /\ waiters \in Seq(Requests) /\ NoRepeats(waiters) /\ PartOf(waiters, waiters)
      /\ docs \subseteq Documents
  BY PartOfItself DEF WriterPoolInv, PoolOK
<1>4. \A t \in Slots : jobs[t] # NoRequest => DocumentsOf[jobs[t]] \subseteq docs
  <2> SUFFICES ASSUME NEW t \in Slots, jobs[t] # NoRequest
               PROVE  DocumentsOf[jobs[t]] \subseteq docs
    OBVIOUS
  <2>1. t # s /\ jobs[t] = busy[t] /\ DocumentsOf[busy[t]] \subseteq held
    BY <1>1 DEF WriterPoolInv, PoolOK
  <2>2. busy[s] # NoRequest => DocumentsOf[busy[s]] \cap DocumentsOf[busy[t]] = {}
    BY <2>1 DEF WriterPoolInv, PoolOK, Meet
  <2> QED
    BY <2>1, <2>2
<1>5. /\ PoolOK(idle', waiters', busy', held')
      /\ Ordered(accepted, waiters', busy')
      /\ RangeOf(idle') \subseteq RangeOf(slots)
      /\ \A t \in Slots : busy'[t] = jobs[t] \/ (~Paused /\ t \in RangeOf(slots))
      /\ Open' \subseteq RangeOf(waiters) \cup JobsOf(jobs)
  BY <1>1, <1>2, <1>3, <1>4, GrantStep
<1>6. \A t \in Slots : t # s /\ busy[t] # NoRequest => busy'[t] = busy[t]
  BY <1>1, <1>2, <1>5
<1>7. Open' \subseteq Open
  <2>1. JobsOf(jobs) \subseteq JobsOf(busy)
    BY <1>1 DEF JobsOf
  <2> QED
    BY <1>5, <2>1 DEF Open
<1>8. ASSUME busy[s] # NoRequest PROVE busy[s] \notin Open'
  <2>1. busy[s] \notin RangeOf(waiters)
    BY <1>8 DEF WriterPoolInv, PoolOK
  <2>2. \A t \in Slots : t # s /\ busy[t] # NoRequest => busy[t] # busy[s]
    BY <1>8 DEF WriterPoolInv, PoolOK
  <2>3. busy[s] \notin JobsOf(jobs)
    BY <1>1, <1>8, <2>2 DEF JobsOf
  <2> QED
    BY <1>5, <2>1, <2>3
<1> QED
  BY <1>5, <1>6, <1>7, <1>8

(* Those who are told that nothing runs hold the barrier, and since they   *)
(* do, nothing was granted afterwards.                                     *)
LEMMA DrainTold ==
  ASSUME WriterPoolInv, NEW jobs, FinishDrain(jobs),
         \A t \in Slots : busy'[t] = jobs[t] \/ ~Paused
  PROVE  /\ parked' \subseteq parked /\ closer' \in {"none", "draining", "drained"}
         /\ phase' \in [Serials -> {"new", "routed", "quiescing", "holding",
                           "submitted", "direct", "resuming", "done", "dead"}]
         /\ \A c \in Serials :
              \/ phase'[c] = phase[c]
              \/ phase'[c] = "holding" /\ c \in tokens /\ Running(busy') = {}
<1>1. CASE Running(jobs) # {}
  BY <1>1 DEF FinishDrain, WriterPoolInv, TypeOK
<1>2. CASE Running(jobs) = {}
  <2>1. /\ parked' = {}
        /\ phase' = [c \in Serials |->
             IF c \in parked /\ phase[c] = "quiescing" THEN "holding" ELSE phase[c]]
        /\ closer' = IF closer = "draining" THEN "drained" ELSE closer
    BY <1>2 DEF FinishDrain
  <2>2. ASSUME NEW c \in parked PROVE c \in tokens /\ Running(busy') = {}
    <3>1. c \in tokens /\ Paused
      BY DEF Paused, WriterPoolInv, TypeOK
    <3>2. \A t \in Slots : busy'[t] = NoRequest
      BY <1>2, <3>1 DEF Running
    <3> QED
      BY <3>1, <3>2 DEF Running
  <2>3. phase' \in [Serials -> {"new", "routed", "quiescing", "holding",
                       "submitted", "direct", "resuming", "done", "dead"}]
    BY <2>1 DEF WriterPoolInv, TypeOK
  <2>4. \A c \in Serials :
          \/ phase'[c] = phase[c]
          \/ phase'[c] = "holding" /\ c \in tokens /\ Running(busy') = {}
    BY <2>1, <2>2
  <2> QED
    BY <2>1, <2>3, <2>4 DEF WriterPoolInv, TypeOK
<1> QED
  BY <1>1, <1>2

LEMMA CompleteKeeps ==
  ASSUME WriterPoolInv, NEW s \in Slots, Complete(s)
  PROVE  WriterPoolInv'
<1> DEFINE jobs == [busy EXCEPT ![s] = NoRequest]
           free == IF life[s] = "alive" /\ s \notin RangeOf(idle)
                     THEN Append(idle, s) ELSE idle
           job  == busy[s]
<1>1. /\ FinishDrain(jobs)
      /\ GrantLoop(free, waiters, jobs, held \ DocumentsOf[job], Paused)
      /\ step[s] = "reporting"
      /\ cancelled' = cancelled \ {job}
      /\ \A t \in Slots : t # s => step'[t] = step[t] /\ doing'[t] = doing[t]
      /\ \/ step'[s] = "free"
         \/ step'[s] = "replying" /\ doing'[s] = doing[s]
      /\ step' \in [Slots -> {"free", "writing", "reporting", "replying"}]
      /\ doing' \in [Slots -> Requests \cup {NoRequest}]
      /\ UNCHANGED <<registered, enabled, closing, tokens, epoch, life, seen,
                     loaded, connected, call, accepted, command, generation,
                     escaped, closes>>
  BY DEF Complete, callerVars, WriterPoolInv, TypeOK
<1>2. job # NoRequest /\ job \in Requests /\ doing[s] = job /\ life[s] # "unborn"
  BY <1>1 DEF WriterPoolInv, SlotsOK, TypeOK
<1>3. free \in Seq(Slots) /\ NoRepeats(free) /\ RangeOf(free) \subseteq RangeOf(idle) \cup {s}
  BY AppendFacts DEF WriterPoolInv, PoolOK
<1> HIDE DEF free
<1>4. /\ \A t \in Slots : jobs[t] = IF t = s THEN NoRequest ELSE busy[t]
      /\ jobs \in [Slots -> Requests \cup {NoRequest}]
      /\ held \ DocumentsOf[job] \subseteq held
      /\ \A d \in held \ (held \ DocumentsOf[job]) : d \in DocumentsOf[job]
  BY DEF WriterPoolInv, TypeOK
<1> HIDE DEF jobs
<1>5. /\ PoolOK(idle', waiters', busy', held')
      /\ Ordered(accepted, waiters', busy')
      /\ RangeOf(idle') \subseteq RangeOf(free)
      /\ \A t \in Slots : t # s /\ busy[t] # NoRequest => busy'[t] = busy[t]
      /\ \A t \in Slots : busy'[t] = jobs[t] \/ (~Paused /\ t \in RangeOf(free))
      /\ Open' \subseteq Open
      /\ job \notin Open'
  BY <1>1, <1>2, <1>3, <1>4, JobEnds
<1> HIDE DEF job
<1>6. /\ parked' \subseteq parked /\ closer' \in {"none", "draining", "drained"}
      /\ phase' \in [Serials -> {"new", "routed", "quiescing", "holding",
                        "submitted", "direct", "resuming", "done", "dead"}]
      /\ \A c \in Serials :
           \/ phase'[c] = phase[c]
           \/ phase'[c] = "holding" /\ c \in tokens /\ Running(busy') = {}
  BY <1>1, <1>5, DrainTold
<1>7. TypeOK'
  BY <1>1, <1>5, <1>6 DEF WriterPoolInv, TypeOK, PoolOK
<1>8. CallsOK'
  BY <1>1, <1>5, CallsKept
<1>9. SlotsOK'
  <2> SUFFICES ASSUME NEW t \in Slots
               PROVE  /\ step'[t] \in {"writing", "reporting"} =>
                           busy'[t] # NoRequest /\ doing'[t] = busy'[t]
                      /\ step'[t] = "writing" => life'[t] = "alive"
                      /\ step'[t] = "replying" =>
                           /\ doing'[t] \in Requests /\ doing'[t] \in RangeOf(accepted')
                           /\ doing'[t] \notin Open'
                      /\ life'[t] = "unborn" =>
                           /\ t \notin RangeOf(idle') /\ busy'[t] = NoRequest
                           /\ step'[t] = "free" /\ loaded'[t] = 0
    BY DEF SlotsOK
  <2>1. CASE t = s
    <3>1. job \in Open
      BY <1>2 DEF job, Open, JobsOf
    <3>2. job \in RangeOf(accepted)
      BY <1>2, <3>1 DEF WriterPoolInv, CallsOK
    <3> QED
      BY <1>1, <1>2, <1>5, <2>1, <3>2
  <2>2. CASE t # s
    <3>1. life[t] = "unborn" => /\ t \notin RangeOf(idle) /\ busy[t] = NoRequest
                                /\ step[t] = "free" /\ loaded[t] = 0
      BY DEF WriterPoolInv, SlotsOK
    <3>2. life[t] = "unborn" => t \notin RangeOf(idle') /\ busy'[t] = NoRequest
      BY <1>3, <1>5, <1>4, <2>2, <3>1
    <3>3. step[t] \in {"writing", "reporting"} => busy[t] # NoRequest /\ doing[t] = busy[t]
      BY DEF WriterPoolInv, SlotsOK
    <3>4. /\ step[t] = "writing" => life[t] = "alive"
          /\ step[t] = "replying" =>
               doing[t] \in Requests /\ doing[t] \in RangeOf(accepted) /\ doing[t] \notin Open
      BY DEF WriterPoolInv, SlotsOK
    <3> QED
      BY <1>1, <1>5, <2>2, <3>1, <3>2, <3>3, <3>4
  <2> QED
    BY <2>1, <2>2
<1>10. BarrierOK' /\ CachesOK'
  <2>1. Writing' \subseteq Writing
    BY <1>1 DEF Writing
  <2>2. \A c \in Serials : AtOwner(c)' <=> AtOwner(c)
    BY <1>1 DEF AtOwner
  <2>3. \A t \in Slots : busy'[t] # NoRequest => busy[t] # NoRequest \/ tokens = {}
    BY <1>5, <1>4 DEF Paused
  <2> QED
    BY <1>1, <1>6, <2>1, <2>2, <2>3, BarrierKept
<1> QED
  BY <1>1, <1>5, <1>7, <1>8, <1>9, <1>10 DEF WriterPoolInv

LEMMA SlotDownKeeps ==
  ASSUME WriterPoolInv, NEW s \in Slots, SlotDown(s)
  PROVE  WriterPoolInv'
<1> DEFINE jobs == [busy EXCEPT ![s] = NoRequest]
           job  == busy[s]
           docs == IF job = NoRequest THEN held ELSE held \ DocumentsOf[job]
           left == Without(idle, {s})
<1>1. /\ FinishDrain(jobs)
      /\ GrantLoop(left, waiters, jobs, docs, Paused)
      /\ step[s] # "reporting" /\ life[s] = "dead"
      /\ registered' = registered \ {s}
      /\ enabled' = (registered' # {} /\ ~closing)
      /\ call' = Answered({job} \ cancelled)
      /\ cancelled' = cancelled \ {job}
      /\ UNCHANGED <<closing, tokens, epoch, life, doing, step, seen, loaded,
                     connected, accepted, command, generation, escaped, closes>>
  BY DEF SlotDown, slotVars
<1>2. left \in Seq(Slots) /\ NoRepeats(left) /\ RangeOf(left) \subseteq RangeOf(idle)
  BY WithoutFacts DEF WriterPoolInv, PoolOK
<1> HIDE DEF left
<1>3. /\ \A t \in Slots : jobs[t] = IF t = s THEN NoRequest ELSE busy[t]
      /\ jobs \in [Slots -> Requests \cup {NoRequest}]
      /\ docs \subseteq held
      /\ \A d \in held \ docs : job # NoRequest /\ d \in DocumentsOf[job]
  BY DEF WriterPoolInv, TypeOK
<1> HIDE DEF jobs, docs
<1>4. /\ PoolOK(idle', waiters', busy', held')
      /\ Ordered(accepted, waiters', busy')
      /\ RangeOf(idle') \subseteq RangeOf(left)
      /\ \A t \in Slots : t # s /\ busy[t] # NoRequest => busy'[t] = busy[t]
      /\ \A t \in Slots : busy'[t] = jobs[t] \/ (~Paused /\ t \in RangeOf(left))
      /\ Open' \subseteq Open
      /\ job # NoRequest => job \notin Open'
  <2>1. RangeOf(left) \subseteq RangeOf(idle) \cup {s}
    BY <1>2
  <2> QED
    BY <1>1, <1>2, <1>3, <2>1, JobEnds
<1> HIDE DEF job
<1>5. /\ parked' \subseteq parked /\ closer' \in {"none", "draining", "drained"}
      /\ phase' \in [Serials -> {"new", "routed", "quiescing", "holding",
                        "submitted", "direct", "resuming", "done", "dead"}]
      /\ \A c \in Serials :
           \/ phase'[c] = phase[c]
           \/ phase'[c] = "holding" /\ c \in tokens /\ Running(busy') = {}
  BY <1>1, <1>4, DrainTold
<1>6. TypeOK'
  <2>1. call' \in [Requests -> {"new", "waiting", "expired", "dead", "answered",
                                "withdrawn"}]
    BY <1>1 DEF Answered, WriterPoolInv, TypeOK
  <2>2. registered' \subseteq Slots /\ cancelled' \subseteq Requests /\ enabled' \in BOOLEAN
    BY <1>1 DEF WriterPoolInv, TypeOK
  <2> QED
    BY <1>1, <1>4, <1>5, <2>1, <2>2 DEF WriterPoolInv, TypeOK, PoolOK
<1>7. CallsOK'
  <2>1. \A r \in Requests :
          /\ call'[r] = "new" => call[r] = "new"
          /\ call'[r] = "answered" => call[r] = "answered" \/ r = job
    BY <1>1 DEF Answered
  <2>2. \A r \in Requests : r = job => r \notin Open'
    BY <1>4, NoneAssumption
  <2> QED
    BY <1>1, <1>4, <2>1, <2>2, CallsKept
<1>8. SlotsOK'
  <2>1. ASSUME NEW t \in Slots
        PROVE  /\ step'[t] \in {"writing", "reporting"} =>
                    busy'[t] # NoRequest /\ doing'[t] = busy'[t]
               /\ step'[t] = "replying" => step[t] = "replying" /\ doing'[t] = doing[t]
               /\ step'[t] = "writing" => life'[t] = "alive"
               /\ life'[t] = "unborn" =>
                    /\ life[t] = "unborn" /\ loaded'[t] = loaded[t] /\ step'[t] = step[t]
                    /\ t \notin RangeOf(idle') /\ busy'[t] = NoRequest
    <3>1. life[t] = "unborn" => /\ t \notin RangeOf(idle) /\ busy[t] = NoRequest
      BY DEF WriterPoolInv, SlotsOK
    <3>2. life[t] = "unborn" => t \notin RangeOf(idle') /\ busy'[t] = NoRequest
      BY <1>2, <1>4, <1>3, <3>1
    <3>3. step[t] = "writing" => life[t] = "alive"
      BY DEF WriterPoolInv, SlotsOK
    <3>4. step[t] \in {"writing", "reporting"} =>
            t # s /\ busy[t] # NoRequest /\ doing[t] = busy[t]
      BY <1>1, <3>3 DEF WriterPoolInv, SlotsOK
    <3> QED
      BY <1>1, <1>4, <3>2, <3>3, <3>4
  <2> QED
    BY <1>1, <1>4, <2>1, SlotsKept
<1>9. BarrierOK' /\ CachesOK'
  <2>1. Writing' \subseteq Writing
    BY <1>1 DEF Writing
  <2>2. \A c \in Serials : AtOwner(c)' <=> AtOwner(c)
    BY <1>1 DEF AtOwner
  <2>3. \A t \in Slots : busy'[t] # NoRequest => busy[t] # NoRequest \/ tokens = {}
    BY <1>4, <1>3 DEF Paused
  <2> QED
    BY <1>1, <1>5, <2>1, <2>2, <2>3, BarrierKept
<1> QED
  BY <1>1, <1>4, <1>6, <1>7, <1>8, <1>9 DEF WriterPoolInv

(* Nothing has ended; at most queued writes have left.                     *)
LEMMA Regrant ==
  ASSUME WriterPoolInv, NEW ws, NEW stopped,
         ws \in Seq(Requests), NoRepeats(ws),
         RangeOf(ws) \subseteq RangeOf(waiters), PartOf(ws, waiters),
         GrantLoop(idle, ws, busy, held, stopped)
  PROVE  /\ PoolOK(idle', waiters', busy', held')
         /\ Ordered(accepted, waiters', busy')
         /\ RangeOf(idle') \subseteq RangeOf(idle)
         /\ \A t \in Slots : busy[t] # NoRequest => busy'[t] = busy[t]
         /\ \A t \in Slots : busy'[t] = busy[t] \/ (~stopped /\ t \in RangeOf(idle))
         /\ Open' \subseteq Open
<1>1. /\ idle \in Seq(Slots) /\ NoRepeats(idle)
      /\ \A t \in RangeOf(idle) : busy[t] = NoRequest
      /\ busy \in [Slots -> Requests \cup {NoRequest}] /\ held \subseteq Documents
      /\ \A t \in Slots : busy[t] # NoRequest => DocumentsOf[busy[t]] \subseteq held
      /\ \A t \in Slots : busy[t] \in {busy[t], NoRequest}
  BY DEF WriterPoolInv, PoolOK
<1>2. /\ PoolOK(idle', waiters', busy', held')
      /\ Ordered(accepted, waiters', busy')
      /\ RangeOf(idle') \subseteq RangeOf(idle)
      /\ \A t \in Slots : busy'[t] = busy[t] \/ (~stopped /\ t \in RangeOf(idle))
      /\ Open' \subseteq RangeOf(ws) \cup JobsOf(busy)
  BY <1>1, GrantStep
<1>3. Open' \subseteq Open
  BY <1>2 DEF Open
<1> QED
  BY <1>1, <1>2, <1>3

(* Slots keep what they do, when the pool only grants.                     *)
LEMMA SlotsWork ==
  ASSUME WriterPoolInv, UNCHANGED <<life, doing, step, loaded, accepted>>,
         RangeOf(idle') \subseteq RangeOf(idle),
         \A t \in Slots : busy[t] # NoRequest => busy'[t] = busy[t],
         \A t \in Slots : busy'[t] = busy[t] \/ t \in RangeOf(idle),
         Open' \subseteq Open
  PROVE  SlotsOK'
<1>1. ASSUME NEW t \in Slots
      PROVE  /\ step'[t] \in {"writing", "reporting"} =>
                  busy'[t] # NoRequest /\ doing'[t] = busy'[t]
             /\ step'[t] = "replying" => step[t] = "replying" /\ doing'[t] = doing[t]
             /\ step'[t] = "writing" => life'[t] = "alive"
             /\ life'[t] = "unborn" =>
                  /\ life[t] = "unborn" /\ loaded'[t] = loaded[t] /\ step'[t] = step[t]
                  /\ t \notin RangeOf(idle') /\ busy'[t] = NoRequest
  BY DEF WriterPoolInv, SlotsOK
<1> QED
  BY <1>1, SlotsKept

LEMMA CancelKeeps ==
  ASSUME WriterPoolInv, NEW r \in Requests, Cancel(r)
  PROVE  WriterPoolInv'
<1>1. /\ call' = [call EXCEPT ![r] = "withdrawn"]
      /\ cancelled' \subseteq cancelled \cup {r}
      /\ UNCHANGED <<registered, enabled, closing, tokens, parked, epoch, life,
                     doing, step, seen, loaded, connected, accepted, phase,
                     command, generation, escaped, closer, closes>>
  BY DEF Cancel, slotVars, serialVars, closeVars
<1>2. /\ PoolOK(idle', waiters', busy', held')
      /\ Ordered(accepted, waiters', busy')
      /\ RangeOf(idle') \subseteq RangeOf(idle)
      /\ \A t \in Slots : busy[t] # NoRequest => busy'[t] = busy[t]
      /\ \A t \in Slots : busy'[t] = busy[t] \/ (~Paused /\ t \in RangeOf(idle))
      /\ Open' \subseteq Open
  <2>1. CASE r \in RangeOf(waiters)
    <3>1. /\ Without(waiters, {r}) \in Seq(Requests) /\ NoRepeats(Without(waiters, {r}))
          /\ RangeOf(Without(waiters, {r})) \subseteq RangeOf(waiters)
          /\ PartOf(Without(waiters, {r}), waiters)
      BY WithoutFacts DEF WriterPoolInv, PoolOK
    <3>2. GrantLoop(idle, Without(waiters, {r}), busy, held, Paused)
      BY <2>1 DEF Cancel
    <3> QED
      BY <3>1, <3>2, Regrant
  <2>2. CASE r \notin RangeOf(waiters)
    <3>1. UNCHANGED <<idle, waiters, busy, held, accepted>>
      BY <1>1, <2>2 DEF Cancel
    <3> QED
      BY <3>1, QueuesKept
  <2> QED
    BY <2>1, <2>2
<1>3. TypeOK'
  BY <1>1, <1>2 DEF WriterPoolInv, TypeOK, PoolOK
<1>4. CallsOK'
  <2>1. \A q \in Requests : call'[q] = IF q = r THEN "withdrawn" ELSE call[q]
    BY <1>1 DEF WriterPoolInv, TypeOK
  <2> QED
    BY <1>1, <1>2, <2>1, CallsKept
<1>5. SlotsOK'
  BY <1>1, <1>2, SlotsWork
<1>6. BarrierOK' /\ CachesOK'
  <2>1. Writing' = Writing
    BY <1>1 DEF Writing
  <2>2. \A c \in Serials : AtOwner(c)' <=> AtOwner(c)
    BY <1>1 DEF AtOwner
  <2>3. \A t \in Slots : busy'[t] # NoRequest => busy[t] # NoRequest \/ tokens = {}
    BY <1>2 DEF Paused
  <2> QED
    BY <1>1, <2>1, <2>2, <2>3, BarrierKept
<1> QED
  BY <1>1, <1>2, <1>3, <1>4, <1>5, <1>6 DEF WriterPoolInv

(* Writes only leave the queue.                                            *)
LEMMA QueueShrinks ==
  ASSUME WriterPoolInv, UNCHANGED <<idle, busy, held, accepted>>,
         waiters' \in Seq(Requests), NoRepeats(waiters'),
         RangeOf(waiters') \subseteq RangeOf(waiters), PartOf(waiters', waiters)
  PROVE  /\ PoolOK(idle', waiters', busy', held')
         /\ Ordered(accepted', waiters', busy')
         /\ Open' \subseteq Open
<1>1. PoolOK(idle', waiters', busy', held')
  BY DEF WriterPoolInv, PoolOK
<1>2. Ordered(accepted, waiters', busy)
  BY OrderKeeps
<1>3. Open' \subseteq Open
  BY DEF Open
<1> QED
  BY <1>1, <1>2, <1>3

LEMMA CallerDownKeeps ==
  ASSUME WriterPoolInv, NEW r \in Requests, CallerDown(r)
  PROVE  WriterPoolInv'
<1>1. /\ waiters' = Without(waiters, {r})
      /\ UNCHANGED <<idle, busy, held, cancelled, registered, enabled, closing,
                     tokens, parked, epoch, life, doing, step, seen, loaded,
                     connected, call, accepted, phase, command, generation,
                     escaped, closer, closes>>
  BY DEF CallerDown, slotVars, callerVars, serialVars, closeVars
<1>2. /\ PoolOK(idle', waiters', busy', held')
      /\ Ordered(accepted', waiters', busy')
      /\ Open' \subseteq Open
  <2>1. /\ waiters' \in Seq(Requests) /\ NoRepeats(waiters')
        /\ RangeOf(waiters') \subseteq RangeOf(waiters) /\ PartOf(waiters', waiters)
    BY <1>1, WithoutFacts DEF WriterPoolInv, PoolOK
  <2> QED
    BY <1>1, <2>1, QueueShrinks
<1>3. TypeOK'
  BY <1>1, <1>2 DEF WriterPoolInv, TypeOK, PoolOK
<1>4. CallsOK'
  BY <1>1, <1>2, CallsKept
<1>5. SlotsOK'
  BY <1>1, <1>2, SlotsWork
<1>6. BarrierOK' /\ CachesOK'
  <2>1. Writing' = Writing
    BY <1>1 DEF Writing
  <2>2. \A c \in Serials : AtOwner(c)' <=> AtOwner(c)
    BY <1>1 DEF AtOwner
  <2> QED
    BY <1>1, <2>1, <2>2, BarrierKept
<1> QED
  BY <1>1, <1>2, <1>3, <1>4, <1>5, <1>6 DEF WriterPoolInv

LEMMA BeginCloseKeeps ==
  ASSUME WriterPoolInv, BeginClose
  PROVE  WriterPoolInv'
<1>1. /\ waiters' = <<>> /\ closing' = TRUE /\ enabled' = FALSE
      /\ call' = Answered(RangeOf(waiters))
      /\ closes' = closes + 1 /\ closer' \in {"drained", "draining"}
      /\ UNCHANGED <<idle, busy, held, cancelled, registered, tokens, parked,
                     epoch, life, doing, step, seen, loaded, connected, accepted,
                     phase, command, generation, escaped>>
  BY DEF BeginClose, slotVars, serialVars
<1>2. /\ PoolOK(idle', waiters', busy', held')
      /\ Ordered(accepted', waiters', busy')
      /\ Open' \subseteq Open
  <2>1. /\ waiters' \in Seq(Requests) /\ NoRepeats(waiters')
        /\ RangeOf(waiters') \subseteq RangeOf(waiters) /\ PartOf(waiters', waiters)
    BY <1>1, EmptyFacts DEF PartOf
  <2> QED
    BY <1>1, <2>1, QueueShrinks
<1>3. TypeOK'
  <2>1. call' \in [Requests -> {"new", "waiting", "expired", "dead", "answered",
                                "withdrawn"}]
    BY <1>1 DEF Answered, WriterPoolInv, TypeOK
  <2>2. /\ closes' \in Nat /\ closing' \in BOOLEAN /\ enabled' \in BOOLEAN
        /\ closer' \in {"none", "draining", "drained"}
    <3>1. closes' = closes + 1 /\ closes \in Nat
      BY <1>1 DEF WriterPoolInv, TypeOK
    <3>2. closing' \in BOOLEAN /\ enabled' \in BOOLEAN
      BY <1>1, Zenon
    <3>3. closer' \in {"none", "draining", "drained"}
      BY <1>1
    <3> QED
      BY <3>1, <3>2, <3>3
  <2>3. waiters' \in Seq(Requests)
    BY <1>2 DEF PoolOK
  <2>4. UNCHANGED <<idle, busy, held, cancelled, registered, tokens, parked,
                    epoch, life, doing, step, seen, loaded, connected, accepted,
                    phase, command, generation, escaped>>
    BY <1>1
  <2> QED
    BY <2>1, <2>2, <2>3, <2>4 DEF WriterPoolInv, TypeOK
<1>4. CallsOK'
  <2>1. \A q \in Requests :
          /\ call'[q] = "new" => call[q] = "new"
          /\ call'[q] = "answered" => call[q] = "answered" \/ q \in RangeOf(waiters)
    BY <1>1 DEF Answered
  <2>2. \A q \in RangeOf(waiters) : q \notin Open'
    BY <1>1, EmptyFacts DEF Open, JobsOf, WriterPoolInv, PoolOK
  <2> QED
    BY <1>1, <1>2, <2>1, <2>2, CallsKept
<1>5. SlotsOK'
  BY <1>1, <1>2, SlotsWork
<1>6. BarrierOK' /\ CachesOK'
  <2>1. Writing' = Writing
    BY <1>1 DEF Writing
  <2>2. \A c \in Serials : AtOwner(c)' <=> AtOwner(c)
    BY <1>1 DEF AtOwner
  <2> QED
    BY <1>1, <2>1, <2>2, BarrierKept
<1> QED
  BY <1>1, <1>2, <1>3, <1>4, <1>5, <1>6 DEF WriterPoolInv

LEMMA CancelCloseKeeps ==
  ASSUME WriterPoolInv, CancelClose
  PROVE  WriterPoolInv'
<1>1. /\ GrantLoop(idle, waiters, busy, held, tokens # {})
      /\ closer' = "none" /\ closing' = FALSE /\ enabled' = (registered # {})
      /\ UNCHANGED <<cancelled, registered, tokens, parked, epoch, life, doing,
                     step, seen, loaded, connected, call, accepted, phase,
                     command, generation, escaped, closes>>
  BY DEF CancelClose, slotVars, callerVars, serialVars
<1>2. /\ PoolOK(idle', waiters', busy', held')
      /\ Ordered(accepted, waiters', busy')
      /\ RangeOf(idle') \subseteq RangeOf(idle)
      /\ \A t \in Slots : busy[t] # NoRequest => busy'[t] = busy[t]
      /\ \A t \in Slots : busy'[t] = busy[t] \/ (~(tokens # {}) /\ t \in RangeOf(idle))
      /\ Open' \subseteq Open
  <2>1. waiters \in Seq(Requests) /\ NoRepeats(waiters) /\ PartOf(waiters, waiters)
    BY PartOfItself DEF WriterPoolInv, PoolOK
  <2> QED
    BY <1>1, <2>1, Regrant
<1>3. TypeOK'
  BY <1>1, <1>2 DEF WriterPoolInv, TypeOK, PoolOK
<1>4. CallsOK'
  BY <1>1, <1>2, CallsKept
<1>5. SlotsOK'
  BY <1>1, <1>2, SlotsWork
<1>6. BarrierOK' /\ CachesOK'
  <2>1. Writing' = Writing
    BY <1>1 DEF Writing
  <2>2. \A c \in Serials : AtOwner(c)' <=> AtOwner(c)
    BY <1>1 DEF AtOwner
  <2>3. \A t \in Slots : busy'[t] # NoRequest => busy[t] # NoRequest \/ tokens = {}
    BY <1>2
  <2> QED
    BY <1>1, <2>1, <2>2, <2>3, BarrierKept
<1> QED
  BY <1>1, <1>2, <1>3, <1>4, <1>5, <1>6 DEF WriterPoolInv

(* The end of a barrier: the epoch moves, so nobody's caches count as      *)
(* fresh, and what other barriers stop stays stopped.                      *)
LEMMA EndBarrierKeeps ==
  ASSUME WriterPoolInv, NEW c \in Serials, EndBarrier(c),
         phase'[c] \in {"done", "dead"},
         \A d \in Serials : d # c => phase'[d] = phase[d],
         phase' \in [Serials -> {"new", "routed", "quiescing", "holding",
                        "submitted", "direct", "resuming", "done", "dead"}],
         UNCHANGED <<slotVars, callerVars, command, generation, closeVars>>
  PROVE  WriterPoolInv'
<1>1. /\ GrantLoop(idle, waiters, busy, held, closing \/ tokens' # {})
      /\ escaped' = (escaped \/ AtOwner(c))
      /\ \/ tokens' = tokens \ {c} /\ parked' = parked \ {c} /\ epoch' = epoch + 1
         \/ UNCHANGED <<tokens, parked, epoch>> /\ c \notin tokens
      /\ UNCHANGED <<cancelled, registered, enabled, closing, life, doing, step,
                     seen, loaded, connected, call, accepted, command,
                     generation, closer, closes>>
  BY DEF EndBarrier, slotVars, callerVars, closeVars
<1>2. /\ PoolOK(idle', waiters', busy', held')
      /\ Ordered(accepted, waiters', busy')
      /\ RangeOf(idle') \subseteq RangeOf(idle)
      /\ \A t \in Slots : busy[t] # NoRequest => busy'[t] = busy[t]
      /\ \A t \in Slots : busy'[t] = busy[t] \/
                            (~(closing \/ tokens' # {}) /\ t \in RangeOf(idle))
      /\ Open' \subseteq Open
  <2>1. waiters \in Seq(Requests) /\ NoRepeats(waiters) /\ PartOf(waiters, waiters)
    BY PartOfItself DEF WriterPoolInv, PoolOK
  <2> QED
    BY <1>1, <2>1, Regrant
<1>3. TypeOK'
  <2>1. epoch' \in Nat /\ tokens' \subseteq Serials /\ parked' \subseteq tokens'
    BY <1>1 DEF WriterPoolInv, TypeOK
  <2>2. escaped' \in BOOLEAN
    BY <1>1 DEF WriterPoolInv, TypeOK
  <2> QED
    BY <1>1, <1>2, <2>1, <2>2 DEF WriterPoolInv, TypeOK, PoolOK
<1>4. CallsOK'
  BY <1>1, <1>2, CallsKept
<1>5. SlotsOK'
  BY <1>1, <1>2, SlotsWork
<1>6. ASSUME NEW d \in Serials, d # c, d \in tokens
      PROVE  d \in tokens' /\ (Stopped => Stopped')
  <2>1. d \in tokens'
    BY <1>1, <1>6
  <2>2. \A t \in Slots : busy'[t] = busy[t]
    BY <1>2, <2>1
  <2> QED
    BY <2>1, <2>2 DEF Stopped, Running
<1>7. BarrierOK'
  <2> SUFFICES ASSUME NEW d \in Serials
               PROVE  /\ phase'[d] \in {"quiescing", "holding", "submitted"} => d \in tokens'
                      /\ phase'[d] \in {"holding", "submitted"} => Stopped'
    BY DEF BarrierOK
  <2>1. CASE d = c
    BY <2>1
  <2>2. CASE d # c
    BY <1>6, <2>2 DEF WriterPoolInv, BarrierOK
  <2> QED
    BY <2>1, <2>2
<1>8. CachesOK'
  <2>1. \A s \in Slots : seen'[s] <= epoch'
    BY <1>1 DEF WriterPoolInv, CachesOK, TypeOK
  <2>2. ASSUME ~escaped'
        PROVE  /\ \A d \in Serials : AtOwner(d)' => d \in tokens' /\ Stopped'
               /\ \A s \in Slots : seen'[s] = epoch' /\ loaded'[s] # 0 =>
                    loaded'[s] = generation' \/ Stopped'
               /\ \A s \in Writing' : loaded'[s] = generation'
    <3>1. ~escaped /\ ~AtOwner(c)
      BY <1>1, <2>2
    <3>2. \A d \in Serials : AtOwner(d)' <=> AtOwner(d)
      BY <1>1 DEF AtOwner
    <3>3. \A d \in Serials : AtOwner(d) => d \in tokens /\ Stopped
      BY <3>1 DEF WriterPoolInv, CachesOK
    <3>4. \A d \in Serials : AtOwner(d)' => d \in tokens' /\ Stopped'
      BY <1>6, <3>1, <3>2, <3>3
    <3>5. ASSUME NEW s \in Slots, seen'[s] = epoch', loaded'[s] # 0
          PROVE  loaded'[s] = generation' \/ Stopped'
      <4>1. epoch' # epoch + 1
        <5>1. seen[s] <= epoch /\ seen[s] \in Nat /\ epoch \in Nat /\ seen'[s] = seen[s]
          BY <1>1 DEF WriterPoolInv, CachesOK, TypeOK
        <5> QED
          BY <3>5, <5>1
      <4>2. UNCHANGED <<tokens, epoch>> /\ c \notin tokens
        BY <1>1, <4>1
      <4>3. loaded[s] = generation \/ Stopped
        BY <1>1, <3>1, <3>5, <4>2 DEF WriterPoolInv, CachesOK
      <4>4. Stopped => Stopped'
        BY <1>2, <4>2 DEF Stopped, Running
      <4> QED
        BY <1>1, <4>3, <4>4
    <3>6. \A s \in Writing' : loaded'[s] = generation'
      BY <1>1, <3>1 DEF WriterPoolInv, CachesOK, Writing
    <3> QED
      BY <3>4, <3>5, <3>6
  <2> QED
    BY <2>1, <2>2 DEF CachesOK
<1> QED
  BY <1>1, <1>2, <1>3, <1>4, <1>5, <1>7, <1>8 DEF WriterPoolInv

LEMMA ResumeKeeps ==
  ASSUME WriterPoolInv, NEW c \in Serials, Resume(c)
  PROVE  WriterPoolInv'
<1>1. /\ EndBarrier(c)
      /\ UNCHANGED <<slotVars, callerVars, command, generation, closeVars>>
  BY DEF Resume
<1>2. /\ phase'[c] \in {"done", "dead"}
      /\ \A d \in Serials : d # c => phase'[d] = phase[d]
      /\ phase' \in [Serials -> {"new", "routed", "quiescing", "holding",
                        "submitted", "direct", "resuming", "done", "dead"}]
  BY DEF Resume, WriterPoolInv, TypeOK
<1> QED
  BY <1>1, <1>2, EndBarrierKeeps

LEMMA HolderDownKeeps ==
  ASSUME WriterPoolInv, NEW c \in Serials, HolderDown(c)
  PROVE  WriterPoolInv'
<1>1. /\ EndBarrier(c)
      /\ UNCHANGED <<slotVars, callerVars, command, generation, closeVars>>
  BY DEF HolderDown
<1>2. /\ phase'[c] \in {"done", "dead"}
      /\ \A d \in Serials : d # c => phase'[d] = phase[d]
      /\ phase' \in [Serials -> {"new", "routed", "quiescing", "holding",
                        "submitted", "direct", "resuming", "done", "dead"}]
  BY DEF HolderDown, WriterPoolInv, TypeOK
<1> QED
  BY <1>1, <1>2, EndBarrierKeeps
(* A new write is the last to come and the last in the queue.              *)
LEMMA NewestIsLast ==
  ASSUME WriterPoolInv, NEW r \in Requests, r \notin RangeOf(accepted)
  PROVE  /\ PoolOK(idle, Append(waiters, r), busy, held)
         /\ Append(accepted, r) \in Seq(Requests) /\ NoRepeats(Append(accepted, r))
         /\ RangeOf(Append(accepted, r)) = RangeOf(accepted) \cup {r}
         /\ RangeOf(Append(waiters, r)) = RangeOf(waiters) \cup {r}
         /\ Ordered(Append(accepted, r), Append(waiters, r), busy)
<1> DEFINE came == Append(accepted, r)
           ws == Append(waiters, r)
<1>1. /\ accepted \in Seq(Requests) /\ NoRepeats(accepted)
      /\ waiters \in Seq(Requests) /\ NoRepeats(waiters)
      /\ r \notin Open
  BY DEF WriterPoolInv, TypeOK, PoolOK, CallsOK
<1>2. r \notin RangeOf(waiters) /\ \A s \in Slots : busy[s] # r
  BY <1>1, NoneAssumption DEF Open, JobsOf
<1>3. /\ came \in Seq(Requests) /\ NoRepeats(came) /\ RangeOf(came) = RangeOf(accepted) \cup {r}
      /\ ws \in Seq(Requests) /\ NoRepeats(ws) /\ RangeOf(ws) = RangeOf(waiters) \cup {r}
  BY <1>1, <1>2, AppendFacts
<1>4. /\ Len(accepted) \in Nat /\ DOMAIN came = 1..(Len(accepted) + 1)
      /\ DOMAIN accepted = 1..Len(accepted) /\ came[Len(accepted) + 1] = r
      /\ \A i \in DOMAIN accepted : came[i] = accepted[i]
      /\ Len(waiters) \in Nat /\ DOMAIN ws = 1..(Len(waiters) + 1)
      /\ DOMAIN waiters = 1..Len(waiters) /\ ws[Len(waiters) + 1] = r
      /\ \A i \in DOMAIN waiters : ws[i] = waiters[i]
  BY <1>1
<1> HIDE DEF came, ws
<1>5. /\ \A i \in DOMAIN came : came[i] # r => i \in DOMAIN accepted /\ came[i] = accepted[i]
      /\ \A i \in DOMAIN came : came[i] = r => i = Len(accepted) + 1
  <2>1. \A i \in DOMAIN came : i \in DOMAIN accepted \/ i = Len(accepted) + 1
    BY <1>4
  <2>2. \A i \in DOMAIN accepted : accepted[i] # r
    BY DEF RangeOf
  <2> QED
    BY <1>4, <2>1, <2>2
<1>6. PoolOK(idle, ws, busy, held)
  <2>1. \A s \in Slots : busy[s] # NoRequest =>
          busy[s] \notin RangeOf(ws) /\ DocumentsOf[busy[s]] \subseteq held
    BY <1>2, <1>3 DEF WriterPoolInv, PoolOK
  <2> QED
    BY <1>3, <2>1 DEF WriterPoolInv, PoolOK
<1>7. ASSUME NEW a \in DOMAIN ws, NEW b \in DOMAIN ws, NEW i \in DOMAIN came,
             NEW j \in DOMAIN came, a < b, came[i] = ws[a], came[j] = ws[b]
      PROVE  i < j
  <2>1. a \in DOMAIN waiters /\ ws[a] = waiters[a] /\ waiters[a] # r
    <3>1. a \in DOMAIN waiters
      BY <1>4, <1>7
    <3> QED
      BY <1>2, <1>4, <3>1 DEF RangeOf
  <2>2. i \in DOMAIN accepted /\ accepted[i] = waiters[a]
    BY <1>5, <1>7, <2>1
  <2>3. CASE b = Len(waiters) + 1
    <3>1. j = Len(accepted) + 1
      BY <1>4, <1>5, <1>7, <2>3
    <3> QED
      BY <1>4, <2>2, <3>1
  <2>4. CASE b # Len(waiters) + 1
    <3>1. b \in DOMAIN waiters /\ ws[b] = waiters[b]
      BY <1>4, <2>4
    <3>2. waiters[b] # r
      BY <1>2, <3>1 DEF RangeOf
    <3>3. j \in DOMAIN accepted /\ accepted[j] = waiters[b]
      BY <1>5, <1>7, <3>1, <3>2
    <3> QED
      BY <1>7, <2>1, <2>2, <3>1, <3>3 DEF WriterPoolInv, Ordered
  <2> QED
    BY <2>3, <2>4
<1>8. ASSUME NEW s \in Slots, NEW i \in DOMAIN came, NEW j \in DOMAIN came,
             came[j] = busy[s], i < j, Meet(came[i], came[j])
      PROVE  came[i] \notin RangeOf(ws) /\ \A t \in Slots : busy[t] # came[i]
  <2>1. came[j] # r
    BY <1>2, <1>8
  <2>2. j \in DOMAIN accepted /\ came[j] = accepted[j]
    BY <1>5, <2>1
  <2>3. i \in DOMAIN accepted /\ came[i] = accepted[i]
    BY <1>4, <1>8, <2>2
  <2>4. came[i] # r
    BY <2>3 DEF RangeOf
  <2>5. accepted[i] \notin RangeOf(waiters) /\ \A t \in Slots : busy[t] # accepted[i]
    BY <1>8, <2>2, <2>3 DEF WriterPoolInv, Ordered
  <2> QED
    BY <1>3, <2>3, <2>4, <2>5
<1>9. Ordered(came, ws, busy)
  BY <1>7, <1>8 DEF Ordered
<1> QED
  BY <1>3, <1>6, <1>9 DEF came, ws

LEMMA ExecuteKeeps ==
  ASSUME WriterPoolInv, NEW r \in Requests, Execute(r)
  PROVE  WriterPoolInv'
<1>1. /\ GrantLoop(idle, Append(waiters, r), busy, held, Paused)
      /\ call' = [call EXCEPT ![r] = "waiting"]
      /\ accepted' = Append(accepted, r)
      /\ UNCHANGED <<cancelled, registered, enabled, closing, tokens, parked,
                     epoch, life, doing, step, seen, loaded, connected, phase,
                     command, generation, escaped, closer, closes>>
  BY DEF Execute, slotVars, serialVars, closeVars
<1>2. r \notin RangeOf(accepted)
  BY DEF Execute, Routed, WriterPoolInv, CallsOK
<1>3. /\ PoolOK(idle, Append(waiters, r), busy, held)
      /\ accepted' \in Seq(Requests) /\ NoRepeats(accepted')
      /\ RangeOf(accepted') = RangeOf(accepted) \cup {r}
      /\ RangeOf(Append(waiters, r)) = RangeOf(waiters) \cup {r}
      /\ Ordered(accepted', Append(waiters, r), busy)
  BY <1>1, <1>2, NewestIsLast
<1>4. /\ PoolOK(idle', waiters', busy', held')
      /\ Ordered(accepted', waiters', busy')
      /\ Moved(idle, Append(waiters, r), busy, Paused)
  BY <1>1, <1>3, GrantKeeps
<1>5. /\ RangeOf(idle') \subseteq RangeOf(idle)
      /\ \A t \in Slots : busy'[t] = busy[t] \/ (~Paused /\ t \in RangeOf(idle))
      /\ Open' \subseteq Open \cup {r}
      /\ \A t \in RangeOf(idle) : busy[t] = NoRequest
  <2>1. \A t \in Slots : busy'[t] = busy[t] \/ busy'[t] \in RangeOf(waiters) \cup {r}
    BY <1>3, <1>4 DEF Moved
  <2>2. RangeOf(waiters') \subseteq RangeOf(waiters) \cup {r}
    BY <1>3, <1>4 DEF Moved
  <2>3. Open' \subseteq Open \cup {r}
    BY <2>1, <2>2 DEF Open, JobsOf
  <2>4. \A t \in Slots : busy'[t] = busy[t] \/ (~Paused /\ t \in RangeOf(idle))
    BY <1>4 DEF Moved
  <2> QED
    BY <1>4, <2>3, <2>4 DEF Moved, WriterPoolInv, PoolOK
<1>6. TypeOK'
  <2>1. call' \in [Requests -> {"new", "waiting", "expired", "dead", "answered",
                                "withdrawn"}]
    BY <1>1 DEF WriterPoolInv, TypeOK
  <2>2. /\ idle' \in Seq(Slots) /\ waiters' \in Seq(Requests) /\ held' \subseteq Documents
        /\ busy' \in [Slots -> Requests \cup {NoRequest}]
    BY <1>4 DEF PoolOK
  <2> QED
    BY <1>1, <1>3, <2>1, <2>2 DEF WriterPoolInv, TypeOK
<1>7. CallsOK'
  <2> SUFFICES ASSUME NEW q \in Requests
               PROVE  /\ q \in Open' => q \in RangeOf(accepted')
                      /\ call'[q] = "new" => q \notin RangeOf(accepted')
                      /\ call'[q] = "answered" => q \notin Open'
    BY DEF CallsOK
  <2>1. call'[q] = IF q = r THEN "waiting" ELSE call[q]
    BY <1>1 DEF WriterPoolInv, TypeOK
  <2>2. /\ q \in Open => q \in RangeOf(accepted)
        /\ call[q] = "new" => q \notin RangeOf(accepted)
        /\ call[q] = "answered" => q \notin Open
    BY DEF WriterPoolInv, CallsOK
  <2>3. RangeOf(accepted') = RangeOf(accepted) \cup {r} /\ Open' \subseteq Open \cup {r}
    BY <1>3, <1>5
  <2> QED
    BY <2>1, <2>2, <2>3
<1>8. SlotsOK'
  <2> SUFFICES ASSUME NEW t \in Slots
               PROVE  /\ step'[t] \in {"writing", "reporting"} =>
                           busy'[t] # NoRequest /\ doing'[t] = busy'[t]
                      /\ step'[t] = "writing" => life'[t] = "alive"
                      /\ step'[t] = "replying" =>
                           /\ doing'[t] \in Requests /\ doing'[t] \in RangeOf(accepted')
                           /\ doing'[t] \notin Open'
                      /\ life'[t] = "unborn" =>
                           /\ t \notin RangeOf(idle') /\ busy'[t] = NoRequest
                           /\ step'[t] = "free" /\ loaded'[t] = 0
    BY DEF SlotsOK
  <2>1. busy[t] # NoRequest => busy'[t] = busy[t]
    BY <1>5
  <2>2. /\ step'[t] = step[t] /\ doing'[t] = doing[t] /\ life'[t] = life[t]
        /\ loaded'[t] = loaded[t]
    BY <1>1
  <2>3. step[t] = "replying" =>
          doing[t] \in Requests /\ doing[t] \in RangeOf(accepted) /\ doing[t] \notin Open
    BY DEF WriterPoolInv, SlotsOK
  <2>4. step[t] = "replying" => doing[t] \in RangeOf(accepted') /\ doing[t] \notin Open'
    BY <1>2, <1>3, <1>5, <2>3
  <2>5. life[t] = "unborn" => /\ t \notin RangeOf(idle) /\ busy[t] = NoRequest
                              /\ step[t] = "free" /\ loaded[t] = 0
    BY DEF WriterPoolInv, SlotsOK
  <2>6. life[t] = "unborn" => t \notin RangeOf(idle') /\ busy'[t] = NoRequest
    BY <1>5, <2>5
  <2>7. /\ step[t] \in {"writing", "reporting"} => busy[t] # NoRequest /\ doing[t] = busy[t]
        /\ step[t] = "writing" => life[t] = "alive"
    BY DEF WriterPoolInv, SlotsOK
  <2> QED
    BY <2>1, <2>2, <2>3, <2>4, <2>5, <2>6, <2>7
<1>9. BarrierOK' /\ CachesOK'
  <2>1. Writing' = Writing
    BY <1>1 DEF Writing
  <2>2. \A c \in Serials : AtOwner(c)' <=> AtOwner(c)
    BY <1>1 DEF AtOwner
  <2>3. \A t \in Slots : busy'[t] # NoRequest => busy[t] # NoRequest \/ tokens = {}
    BY <1>5 DEF Paused
  <2> QED
    BY <1>1, <2>1, <2>2, <2>3, BarrierKept
<1> QED
  BY <1>3, <1>4, <1>6, <1>7, <1>8, <1>9 DEF WriterPoolInv

-----------------------------------------------------------------------------
(* The invariant holds at the start and every step keeps it.               *)

LEMMA InitKeeps ==
  ASSUME Init
  PROVE  WriterPoolInv
<1>1. /\ RangeOf(idle) = {} /\ RangeOf(waiters) = {} /\ RangeOf(accepted) = {}
      /\ NoRepeats(idle) /\ NoRepeats(waiters) /\ NoRepeats(accepted)
      /\ idle \in Seq(Slots) /\ waiters \in Seq(Requests) /\ accepted \in Seq(Requests)
  BY EmptyFacts DEF Init
<1>2. \A s \in Slots : busy[s] = NoRequest
  BY DEF Init, Free
<1>3. JobsOf(busy) = {} /\ Open = {}
  BY <1>1, <1>2 DEF JobsOf, Open
<1>4. TypeOK
  <2>1. /\ busy \in [Slots -> Requests \cup {NoRequest}]
        /\ doing \in [Slots -> Requests \cup {NoRequest}]
        /\ life \in [Slots -> {"unborn", "alive", "dead"}]
        /\ step \in [Slots -> {"free", "writing", "reporting", "replying"}]
        /\ seen \in [Slots -> Nat] /\ loaded \in [Slots -> Nat]
    BY DEF Init, Free
  <2>2. /\ held \subseteq Documents /\ cancelled \subseteq Requests
        /\ registered \subseteq Slots /\ connected \subseteq Slots
        /\ tokens \subseteq Serials /\ parked \subseteq tokens
        /\ epoch \in Nat /\ generation \in Nat \ {0} /\ closes \in Nat
        /\ closer \in {"none", "draining", "drained"}
    BY DEF Init
  <2>3. enabled \in BOOLEAN /\ closing \in BOOLEAN /\ escaped \in BOOLEAN
    BY DEF Init
  <2>4. /\ call \in [Requests -> {"new", "waiting", "expired", "dead", "answered",
                                  "withdrawn"}]
        /\ phase \in [Serials -> {"new", "routed", "quiescing", "holding",
                                  "submitted", "direct", "resuming", "done", "dead"}]
        /\ command \in [Serials -> {"none", "queued", "running", "over"}]
    BY DEF Init
  <2> QED
    BY <1>1, <2>1, <2>2, <2>3, <2>4 DEF TypeOK
<1>5. PoolOK(idle, waiters, busy, held)
  BY <1>1, <1>2, <1>4 DEF PoolOK, TypeOK
<1>6. Ordered(accepted, waiters, busy)
  <2>1. DOMAIN waiters = {} /\ DOMAIN accepted = {}
    BY <1>1 DEF RangeOf
  <2> QED
    BY <2>1 DEF Ordered
<1>7. CallsOK
  BY <1>1, <1>3 DEF CallsOK
<1>8. SlotsOK
  BY <1>1, <1>2 DEF SlotsOK, Init
<1>9. BarrierOK
  BY DEF BarrierOK, Init
<1>10. CachesOK
  BY DEF CachesOK, Init, AtOwner, Writing
<1> QED
  BY <1>1, <1>4, <1>5, <1>6, <1>7, <1>8, <1>9, <1>10 DEF WriterPoolInv

LEMMA StutterKeeps ==
  ASSUME WriterPoolInv, UNCHANGED vars
  PROVE  WriterPoolInv'
<1> USE DEF vars, poolVars, slotVars, callerVars, serialVars, closeVars
<1>1. /\ PoolOK(idle', waiters', busy', held')
      /\ NoRepeats(accepted') /\ Ordered(accepted', waiters', busy')
      /\ Open' = Open /\ SlotsOK' /\ BarrierOK' /\ CachesOK'
  BY CallersMove
<1>2. CallsOK'
  BY <1>1, CallsKept
<1>3. TypeOK'
  BY DEF WriterPoolInv, TypeOK
<1> QED
  BY <1>1, <1>2, <1>3 DEF WriterPoolInv

LEMMA InvariantStep ==
  ASSUME WriterPoolInv, [Next]_vars
  PROVE  WriterPoolInv'
<1>1. ASSUME NEW s \in Slots, SlotStarts(s) PROVE WriterPoolInv'
  BY <1>1, SlotStartsKeeps
<1>2. ASSUME NEW s \in Slots, SlotBegins(s) PROVE WriterPoolInv'
  BY <1>2, SlotBeginsKeeps
<1>3. ASSUME NEW s \in Slots, SlotFinishes(s) PROVE WriterPoolInv'
  BY <1>3, SlotFinishesKeeps
<1>4. ASSUME NEW s \in Slots, Complete(s) PROVE WriterPoolInv'
  BY <1>4, CompleteKeeps
<1>5. ASSUME NEW s \in Slots, SlotReplies(s) PROVE WriterPoolInv'
  BY <1>5, SlotRepliesKeeps
<1>6. ASSUME NEW s \in Slots, SlotDies(s) PROVE WriterPoolInv'
  BY <1>6, SlotDiesKeeps
<1>7. ASSUME NEW s \in Slots, SlotDown(s) PROVE WriterPoolInv'
  BY <1>7, SlotDownKeeps
<1>8. ASSUME NEW r \in Requests, ExecuteRefused(r) PROVE WriterPoolInv'
  BY <1>8, ExecuteRefusedKeeps
<1>9. ASSUME NEW r \in Requests, Execute(r) PROVE WriterPoolInv'
  BY <1>9, ExecuteKeeps
<1>10. ASSUME NEW r \in Requests, CallerExpires(r) PROVE WriterPoolInv'
  BY <1>10, CallerExpiresKeeps
<1>11. ASSUME NEW r \in Requests, Cancel(r) PROVE WriterPoolInv'
  BY <1>11, CancelKeeps
<1>12. ASSUME NEW r \in Requests, CallerDies(r) PROVE WriterPoolInv'
  BY <1>12, CallerDiesKeeps
<1>13. ASSUME NEW r \in Requests, CallerDown(r) PROVE WriterPoolInv'
  BY <1>13, CallerDownKeeps
<1>14. ASSUME NEW c \in Serials, RouteSerial(c) PROVE WriterPoolInv'
  BY <1>14, RouteSerialKeeps
<1>15. ASSUME NEW c \in Serials, Quiesce(c) PROVE WriterPoolInv'
  BY <1>15, QuiesceKeeps
<1>16. ASSUME NEW c \in Serials, SubmitSerial(c) PROVE WriterPoolInv'
  BY <1>16, SubmitSerialKeeps
<1>17. ASSUME NEW c \in Serials, OwnerBegins(c) PROVE WriterPoolInv'
  BY <1>17, OwnerBeginsKeeps
<1>18. ASSUME NEW c \in Serials, OwnerEnds(c) PROVE WriterPoolInv'
  BY <1>18, OwnerEndsKeeps
<1>19. ASSUME NEW c \in Serials, SerialGivesUp(c) PROVE WriterPoolInv'
  BY <1>19, SerialGivesUpKeeps
<1>20. ASSUME NEW c \in Serials, Resume(c) PROVE WriterPoolInv'
  BY <1>20, ResumeKeeps
<1>21. ASSUME NEW c \in Serials, SerialDies(c) PROVE WriterPoolInv'
  BY <1>21, SerialDiesKeeps
<1>22. ASSUME NEW c \in Serials, HolderDown(c) PROVE WriterPoolInv'
  BY <1>22, HolderDownKeeps
<1>23. CASE BeginClose \/ CloseWriters \/ CancelClose
  BY <1>23, BeginCloseKeeps, CloseWritersKeeps, CancelCloseKeeps
<1>24. CASE UNCHANGED vars
  BY <1>24, StutterKeeps
<1> QED
  BY <1>1, <1>2, <1>3, <1>4, <1>5, <1>6, <1>7, <1>8, <1>9, <1>10, <1>11, <1>12,
     <1>13, <1>14, <1>15, <1>16, <1>17, <1>18, <1>19, <1>20, <1>21, <1>22,
     <1>23, <1>24 DEF Next

(* In every reachable state of the pool its slots, its callers, its        *)
(* barrier and its queues agree with each other.                           *)
THEOREM InductiveInvariant == Spec => []WriterPoolInv
<1>1. Init => WriterPoolInv
  BY InitKeeps
<1>2. WriterPoolInv /\ [Next]_vars => WriterPoolInv'
  BY InvariantStep
<1> QED
  BY <1>1, <1>2, PTL DEF Spec

(* Every variable stays within its type, for any limits and any number of  *)
(* slots, writes and serial callers.                                       *)
THEOREM TypeCorrect == Spec => []TypeOK
<1>1. WriterPoolInv => TypeOK
  BY DEF WriterPoolInv
<1> QED
  BY <1>1, InductiveInvariant, PTL

(* Two slots that write at the same time touch different documents, with   *)
(* slots that die, jobs that are cancelled and slots that are used again   *)
(* (execute, complete, the slot's exit and grant_loop of the writer pool). *)
THEOREM DocumentsExclusive == Spec => []DocumentExclusion
<1>1. ASSUME WriterPoolInv PROVE DocumentExclusion
  <2> SUFFICES ASSUME NEW s \in Writing, NEW t \in Writing, s # t
               PROVE  DocumentsOf[doing[s]] \cap DocumentsOf[doing[t]] = {}
    BY DEF DocumentExclusion
  <2>1. /\ s \in Slots /\ busy[s] # NoRequest /\ doing[s] = busy[s]
        /\ t \in Slots /\ busy[t] # NoRequest /\ doing[t] = busy[t]
    BY <1>1 DEF Writing, WriterPoolInv, SlotsOK
  <2> QED
    BY <1>1, <2>1 DEF WriterPoolInv, PoolOK, Meet
<1> QED
  BY <1>1, InductiveInvariant, PTL

(* Writes that share a document run in the order the pool accepted them:   *)
(* none starts while an earlier one is queued or given to a slot.          *)
THEOREM OrderKept == Spec => []WriteOrder
<1>1. ASSUME WriterPoolInv PROVE WriteOrder
  <2> SUFFICES ASSUME NEW s \in Writing, NEW i \in DOMAIN accepted,
                      NEW j \in DOMAIN accepted, accepted[j] = doing[s], i < j,
                      DocumentsOf[accepted[i]] \cap DocumentsOf[doing[s]] # {}
               PROVE  /\ accepted[i] \notin RangeOf(waiters)
                      /\ \A t \in Slots : busy[t] # accepted[i]
    BY DEF WriteOrder
  <2>1. s \in Slots /\ doing[s] = busy[s]
    BY <1>1 DEF Writing, WriterPoolInv, SlotsOK
  <2> QED
    BY <1>1, <2>1 DEF WriterPoolInv, Ordered, Meet
<1> QED
  BY <1>1, InductiveInvariant, PTL

(* A write whose caller was answered is neither queued nor given to a      *)
(* slot: the answer is about something that is over or never starts.       *)
THEOREM AnswersFinal == Spec => []AnsweredIsOver
<1>1. ASSUME WriterPoolInv PROVE AnsweredIsOver
  <2> SUFFICES ASSUME NEW r \in Requests, call[r] = "answered"
               PROVE  r \notin RangeOf(waiters) /\ \A s \in Slots : busy[s] # r
    BY DEF AnsweredIsOver
  <2>1. r \notin Open
    BY <1>1 DEF WriterPoolInv, CallsOK
  <2> QED
    BY <2>1, NoneAssumption DEF Open, JobsOf
<1> QED
  BY <1>1, InductiveInvariant, PTL

(* A serial caller that was told it holds the barrier has every writer     *)
(* stopped until it gives the barrier back, whatever else ends or dies.    *)
THEOREM BarrierStops == Spec => []BarrierHolds
<1>1. ASSUME WriterPoolInv PROVE BarrierHolds
  <2> SUFFICES ASSUME NEW c \in tokens, phase[c] \in {"holding", "submitted"},
                      NEW s \in Writing
               PROVE  FALSE
    BY DEF BarrierHolds
  <2>1. Running(busy) = {}
    BY <1>1 DEF WriterPoolInv, BarrierOK, Stopped, TypeOK
  <2>2. s \in Slots /\ busy[s] # NoRequest
    BY <1>1 DEF Writing, WriterPoolInv, SlotsOK
  <2> QED
    BY <2>1, <2>2 DEF Running
<1> QED
  BY <1>1, InductiveInvariant, PTL

(* No write uses cached facts older than the last serial change, as long   *)
(* as every serial command ran inside its barrier: the epoch that moves at *)
(* the end of a barrier reaches a slot before its next write.              *)
THEOREM CachesFenced == Spec => []FencedCachesFresh
<1>1. WriterPoolInv => FencedCachesFresh
  BY DEF WriterPoolInv, CachesOK, FencedCachesFresh
<1> QED
  BY <1>1, InductiveInvariant, PTL

-----------------------------------------------------------------------------
(* Nothing is left waiting for what cannot come.                           *)

(* A document is locked only while a write that touches it runs.           *)
HeldByRunning == held = DocumentsIn(JobsOf(busy))

(* A slot that lives is known to the pool, and idle or at work; the exit   *)
(* of one that has died with a job is awaited.                             *)
SlotsUsed ==
  \A s \in Slots :
    /\ life[s] = "alive" => s \in RangeOf(idle) \/ busy[s] # NoRequest
    /\ life[s] = "alive" \/ s \in RangeOf(idle) \/ busy[s] # NoRequest
         => s \in registered

(* Writes wait for a running one, for a slot, or for the pause to end.     *)
QueueServed == waiters # <<>> /\ ~Paused => Running(busy) # {} \/ idle = <<>>

(* A barrier or a close that waits, waits for a running write.             *)
DrainsEnd == parked # {} \/ closer = "draining" => Running(busy) # {}

(* A pause has a close under way or a serial caller that will end it, and  *)
(* such a caller has its command at the owner, or will send it.            *)
PausesEnd ==
  /\ closing => closer # "none"
  /\ \A c \in tokens :
       phase[c] \in {"quiescing", "holding", "submitted", "resuming", "dead"}
  /\ \A c \in Serials :
       /\ phase[c] = "quiescing" => c \in parked
       /\ phase[c] \in {"submitted", "direct"} => AtOwner(c)

NobodyIsLeft ==
  HeldByRunning /\ SlotsUsed /\ QueueServed /\ DrainsEnd /\ PausesEnd

(* Only the empty queue holds nothing.                                     *)
LEMMA NothingInIt ==
  ASSUME NEW T, NEW q \in Seq(T), RangeOf(q) = {}
  PROVE  q = <<>>
<1>1. \A i \in 1..Len(q) : q[i] \in RangeOf(q)
  BY DEF RangeOf
<1> QED
  BY <1>1

(* The grant loop locks what it starts, leaves no slot behind, and stops   *)
(* with nothing running only when nothing waits or no slot is idle.        *)
LEMMA GrantServes ==
  ASSUME NEW slots, NEW ws, NEW jobs, NEW docs, NEW stopped,
         PoolOK(slots, ws, jobs, docs), docs = DocumentsIn(JobsOf(jobs)),
         GrantLoop(slots, ws, jobs, docs, stopped)
  PROVE  /\ HeldByRunning'
         /\ \A s \in RangeOf(slots) : s \in RangeOf(idle') \/ busy'[s] # NoRequest
         /\ RangeOf(idle') \subseteq RangeOf(slots)
         /\ \A s \in Slots : busy'[s] # NoRequest => jobs[s] # NoRequest \/ s \in RangeOf(slots)
         /\ \A s \in Slots : jobs[s] # NoRequest => busy'[s] # NoRequest
         /\ ~stopped /\ waiters' # <<>> => Running(busy') # {} \/ idle' = <<>>
<1> DEFINE ready == Ready(ws, docs)
           chosen == IF stopped THEN {}
                     ELSE {i \in ready : Place(i, ready) <= Len(slots)}
           started == {ws[i] : i \in chosen}
           to(i) == slots[Place(i, ready)]
<1>1. /\ idle' = SubSeq(slots, Cardinality(chosen) + 1, Len(slots))
      /\ waiters' = Without(ws, started)
      /\ held' = docs \cup DocumentsIn(started)
      /\ busy' = [s \in Slots |->
           IF \E i \in chosen : to(i) = s
             THEN ws[CHOOSE i \in chosen : to(i) = s]
             ELSE jobs[s]]
  BY DEF GrantLoop
<1>2. /\ Len(ws) \in Nat /\ DOMAIN ws = 1..Len(ws)
      /\ Len(slots) \in Nat /\ DOMAIN slots = 1..Len(slots)
      /\ \A i \in DOMAIN ws : ws[i] \in Requests
      /\ \A n \in DOMAIN slots : slots[n] \in Slots
      /\ \A s \in RangeOf(slots) : s \in Slots /\ jobs[s] = NoRequest
  <2>1. \A s \in RangeOf(slots) : jobs[s] = NoRequest
    BY DEF PoolOK
  <2>2. \A n \in DOMAIN slots : slots[n] \in Slots
    BY DEF PoolOK
  <2> QED
    BY <2>1, <2>2 DEF PoolOK, RangeOf
<1>3. /\ ready \in SUBSET (1..Len(ws)) /\ chosen \in SUBSET ready
      /\ chosen \in SUBSET (1..Len(ws))
      /\ \A i \in chosen : Place(i, ready) <= Len(slots)
      /\ stopped \/ \A i \in ready : Place(i, ready) <= Len(slots) => i \in chosen
  <2>1. ready \in SUBSET (1..Len(ws))
    BY <1>2 DEF Ready
  <2> HIDE DEF ready
  <2> QED
    BY <2>1
<1>4. /\ Cardinality(chosen) \in Nat /\ Cardinality(ready) \in Nat
      /\ \A i \in ready : Place(i, ready) \in 1..Cardinality(ready)
  <2> HIDE DEF chosen, ready
  <2> QED
    BY <1>2, <1>3, PlaceType, PlaceOfMember
<1>5. \A i \in chosen : Place(i, ready) \in DOMAIN slots /\ to(i) \in RangeOf(slots)
  <2> HIDE DEF chosen, ready
  <2> QED
    BY <1>2, <1>3, <1>4 DEF RangeOf
<1>6. \A i, k \in chosen : to(i) = to(k) => i = k
  <2> HIDE DEF chosen, ready
  <2>1. ASSUME NEW i \in chosen, NEW k \in chosen, i < k
        PROVE  Place(i, ready) < Place(k, ready)
    <3>1. i \in Int /\ k \in ready
      BY <1>3
    <3> QED
      BY <1>2, <1>3, <2>1, <3>1, PlaceRises
  <2>2. \A i, k \in chosen : Place(i, ready) = Place(k, ready) => i = k
    <3>1. \A i \in chosen : i \in Int /\ Place(i, ready) \in Int
      BY <1>3, <1>4
    <3> QED
      BY <2>1, <3>1
  <2> QED
    BY <1>5, <2>2 DEF PoolOK, NoRepeats
<1>7. \A i \in chosen : busy'[to(i)] = ws[i] /\ ws[i] \in Requests /\ to(i) \in Slots
  <2> HIDE DEF chosen, to
  <2> SUFFICES ASSUME NEW i \in chosen
               PROVE  busy'[to(i)] = ws[i] /\ ws[i] \in Requests /\ to(i) \in Slots
    OBVIOUS
  <2>1. to(i) \in Slots /\ ws[i] \in Requests
    BY <1>2, <1>3, <1>5
  <2>2. (CHOOSE k \in chosen : to(k) = to(i)) = i
    BY <1>6
  <2> QED
    BY <1>1, <2>1, <2>2
<1>8. \A s \in Slots : (\A i \in chosen : to(i) # s) => busy'[s] = jobs[s]
  <2> HIDE DEF chosen, to
  <2> QED
    BY <1>1
<1>9. \A s \in Slots : jobs[s] # NoRequest => busy'[s] = jobs[s]
  BY <1>2, <1>5, <1>8
<1>10. JobsOf(busy') = JobsOf(jobs) \cup started
  <2> HIDE DEF chosen, to
  <2>1. ASSUME NEW s \in Slots, busy'[s] # NoRequest
        PROVE  busy'[s] \in JobsOf(jobs) \cup started
    <3>1. CASE \E i \in chosen : to(i) = s
      BY <1>7, <3>1
    <3>2. CASE \A i \in chosen : to(i) # s
      BY <1>8, <2>1, <3>2 DEF JobsOf
    <3> QED
      BY <3>1, <3>2
  <2>2. ASSUME NEW i \in chosen PROVE ws[i] \in JobsOf(busy')
    BY <1>7, NoneAssumption DEF JobsOf
  <2>3. ASSUME NEW s \in Slots, jobs[s] # NoRequest PROVE jobs[s] \in JobsOf(busy')
    BY <1>9, <2>3 DEF JobsOf
  <2> QED
    BY <2>1, <2>2, <2>3 DEF JobsOf
<1>11. HeldByRunning'
  <2>1. held' = DocumentsIn(JobsOf(jobs)) \cup DocumentsIn(started)
    BY <1>1
  <2> HIDE DEF started
  <2> QED
    BY <1>10, <2>1 DEF HeldByRunning, DocumentsIn
<1>12. ASSUME NEW n \in DOMAIN slots
       PROVE  slots[n] \in RangeOf(idle') \/ busy'[slots[n]] # NoRequest
  <2> HIDE DEF chosen, ready
  <2>1. CASE n <= Cardinality(chosen)
    <3>1. n \in 1..Cardinality(chosen)
      BY <1>2, <1>4, <2>1
    <3>2. PICK k \in chosen : Place(k, chosen) = n
      BY <1>2, <1>3, <3>1, PlaceReached
    <3>3. ASSUME NEW j \in ready, j <= k PROVE j \in chosen
      <4>1. j \in Int /\ k \in Int /\ k \in ready /\ ~stopped
        BY <1>3 DEF chosen
      <4>2. j = k \/ Place(j, ready) < Place(k, ready)
        <5>1. CASE j < k
          BY <1>2, <1>3, <4>1, <5>1, PlaceRises
        <5> QED
          BY <3>3, <4>1, <5>1
      <4>3. Place(j, ready) \in Int /\ Place(k, ready) \in Int /\ Place(k, ready) <= Len(slots)
        BY <1>3, <1>4, <4>1
      <4> QED
        BY <1>2, <1>3, <4>1, <4>2, <4>3
    <3>4. {j \in ready : j <= k} = {j \in chosen : j <= k}
      BY <1>3, <3>3
    <3>5. to(k) = slots[n]
      BY <3>2, <3>4 DEF Place
    <3> QED
      BY <1>7, <3>5, NoneAssumption
  <2>2. CASE n > Cardinality(chosen)
    <3> DEFINE m == n - Cardinality(chosen)
    <3>1. m \in DOMAIN idle' /\ idle'[m] = slots[n]
      BY <1>1, <1>2, <1>4, <2>2 DEF PoolOK
    <3> QED
      BY <3>1 DEF RangeOf
  <2> QED
    BY <1>2, <1>4, <2>1, <2>2
<1>13. RangeOf(idle') \subseteq RangeOf(slots)
  <2> HIDE DEF chosen
  <2>1. \A k \in DOMAIN idle' : /\ k + Cardinality(chosen) \in DOMAIN slots
                                /\ idle'[k] = slots[k + Cardinality(chosen)]
    BY <1>1, <1>4, RestFacts DEF PoolOK
  <2> QED
    BY <2>1 DEF RangeOf
<1>14. ASSUME ~stopped, Running(busy') = {}, idle' # <<>>
       PROVE  waiters' = <<>>
  <2>1. chosen = {}
    <3> HIDE DEF chosen, to
    <3> QED
      BY <1>7, <1>14, NoneAssumption DEF Running
  <2>2. JobsOf(busy') = {} /\ docs = {}
    <3>1. JobsOf(busy') = {}
      BY <1>14 DEF JobsOf, Running
    <3> HIDE DEF started
    <3>2. JobsOf(jobs) = {}
      BY <1>10, <3>1
    <3> QED
      BY <3>1, <3>2 DEF DocumentsIn
  <2>3. Len(slots) >= 1
    <3>1. RangeOf(idle') # {}
      <4>1. idle' \in Seq(Slots)
        BY <1>1, <1>2, <1>4, RestFacts DEF PoolOK
      <4> QED
        BY <1>14, <4>1, NothingInIt
    <3>2. PICK n \in DOMAIN slots : TRUE
      BY <1>13, <3>1 DEF RangeOf
    <3> QED
      BY <1>2, <3>2
  <2>4. ASSUME 1 \in DOMAIN ws PROVE FALSE
    <3>1. 1 \in ready
      BY <2>2, <2>4 DEF Ready, Blocked, DocumentsIn
    <3>2. Place(1, ready) <= 1
      <4> HIDE DEF ready
      <4>1. {j \in ready : j <= 1} = {1}
        <5>1. \A j \in ready : j <= 1 <=> j = 1
          BY <1>3
        <5> QED
          BY <3>1, <5>1
      <4> QED
        BY <4>1, FS_Singleton DEF Place
    <3> HIDE DEF ready
    <3>3. Place(1, ready) <= Len(slots)
      BY <1>2, <1>4, <2>3, <3>1, <3>2
    <3> QED
      BY <1>3, <1>14, <2>1, <3>1, <3>3
  <2>5. ws = <<>>
    BY <1>2, <2>4 DEF PoolOK
  <2> QED
    <3> HIDE DEF started
    <3>1. waiters' \in Seq(Requests) /\ RangeOf(waiters') = RangeOf(ws) \ started
      BY <1>1, WithoutFacts DEF PoolOK
    <3>2. RangeOf(waiters') = {}
      BY <2>5, <3>1, EmptyFacts
    <3> QED
      BY <3>1, <3>2, NothingInIt
<1> HIDE DEF chosen, to, ready, started
<1>15. \A s \in Slots : busy'[s] # NoRequest => jobs[s] # NoRequest \/ s \in RangeOf(slots)
  BY <1>5, <1>8
<1> QED
  BY <1>9, <1>11, <1>12, <1>13, <1>14, <1>15 DEF RangeOf

(* A handler that ends with the grant loop: what it hands to the loop      *)
(* accounts for every document and for every slot that lives.              *)
LEMMA GrantLeavesNobody ==
  ASSUME NEW slots, NEW ws, NEW jobs, NEW docs, NEW stopped,
         PoolOK(slots, ws, jobs, docs), docs = DocumentsIn(JobsOf(jobs)),
         \A s \in Slots :
           /\ life'[s] = "alive" => s \in RangeOf(slots) \/ jobs[s] # NoRequest
           /\ life'[s] = "alive" \/ s \in RangeOf(slots) \/ jobs[s] # NoRequest
                => s \in registered',
         ~Paused' => ~stopped,
         GrantLoop(slots, ws, jobs, docs, stopped)
  PROVE  /\ HeldByRunning' /\ SlotsUsed' /\ QueueServed'
         /\ Running(jobs) # {} => Running(busy') # {}
<1>1. /\ HeldByRunning'
      /\ \A s \in RangeOf(slots) : s \in RangeOf(idle') \/ busy'[s] # NoRequest
      /\ RangeOf(idle') \subseteq RangeOf(slots)
      /\ \A s \in Slots : busy'[s] # NoRequest => jobs[s] # NoRequest \/ s \in RangeOf(slots)
      /\ \A s \in Slots : jobs[s] # NoRequest => busy'[s] # NoRequest
      /\ ~stopped /\ waiters' # <<>> => Running(busy') # {} \/ idle' = <<>>
  BY GrantServes
<1>2. SlotsUsed'
  BY <1>1 DEF SlotsUsed
<1>3. QueueServed'
  BY <1>1 DEF QueueServed
<1> QED
  BY <1>1, <1>2, <1>3 DEF Running

(* The pool grants from what it has: its slots, its jobs, its queue less   *)
(* who left it.                                                            *)
LEMMA RegrantLeavesNobody ==
  ASSUME WriterPoolInv, NobodyIsLeft, NEW ws, NEW stopped,
         PoolOK(idle, ws, busy, held), ~Paused' => ~stopped,
         UNCHANGED <<life, registered>>,
         GrantLoop(idle, ws, busy, held, stopped)
  PROVE  /\ HeldByRunning' /\ SlotsUsed' /\ QueueServed'
         /\ Running(busy) # {} => Running(busy') # {}
<1>1. held = DocumentsIn(JobsOf(busy))
  BY DEF NobodyIsLeft, HeldByRunning
<1>2. \A s \in Slots :
        /\ life'[s] = "alive" => s \in RangeOf(idle) \/ busy[s] # NoRequest
        /\ life'[s] = "alive" \/ s \in RangeOf(idle) \/ busy[s] # NoRequest
             => s \in registered'
  BY DEF NobodyIsLeft, SlotsUsed
<1> QED
  BY <1>1, <1>2, GrantLeavesNobody

(* A job that ends frees its documents and no others: running writes are   *)
(* apart from each other.                                                  *)
LEMMA DocumentsFreed ==
  ASSUME WriterPoolInv, HeldByRunning, NEW s \in Slots, busy[s] # NoRequest
  PROVE  held \ DocumentsOf[busy[s]]
           = DocumentsIn(JobsOf([busy EXCEPT ![s] = NoRequest]))
<1> DEFINE jobs == [busy EXCEPT ![s] = NoRequest]
<1>1. \A t \in Slots : jobs[t] = IF t = s THEN NoRequest ELSE busy[t]
  BY DEF WriterPoolInv, TypeOK
<1> HIDE DEF jobs
<1>2. \A t \in Slots : t # s /\ busy[t] # NoRequest =>
        DocumentsOf[busy[t]] \cap DocumentsOf[busy[s]] = {}
  BY DEF WriterPoolInv, PoolOK, Meet
<1>3. \A d : d \in held <=> \E t \in Slots : busy[t] # NoRequest /\ d \in DocumentsOf[busy[t]]
  BY DEF HeldByRunning, DocumentsIn, JobsOf
<1>4. \A d : d \in DocumentsIn(JobsOf(jobs)) <=>
               \E t \in Slots : jobs[t] # NoRequest /\ d \in DocumentsOf[jobs[t]]
  BY DEF DocumentsIn, JobsOf
<1>5. \A d : d \in held \ DocumentsOf[busy[s]] <=> d \in DocumentsIn(JobsOf(jobs))
  <2> SUFFICES ASSUME NEW d
               PROVE  d \in held \ DocumentsOf[busy[s]] <=> d \in DocumentsIn(JobsOf(jobs))
    OBVIOUS
  <2>1. ASSUME d \in held, d \notin DocumentsOf[busy[s]]
        PROVE  d \in DocumentsIn(JobsOf(jobs))
    BY <1>1, <1>3, <1>4, <2>1
  <2>2. ASSUME d \in DocumentsIn(JobsOf(jobs))
        PROVE  d \in held /\ d \notin DocumentsOf[busy[s]]
    BY <1>1, <1>2, <1>3, <1>4, <2>2
  <2> QED
    BY <2>1, <2>2
<1> QED
  BY <1>5 DEF jobs

(* The pool's account after a job of s has ended or its slot has gone.     *)
LEMMA PoolWithoutJob ==
  ASSUME WriterPoolInv, HeldByRunning, NEW s \in Slots, NEW slots,
         slots \in Seq(Slots), NoRepeats(slots),
         RangeOf(slots) \subseteq RangeOf(idle) \cup {s}
  PROVE  LET jobs == [busy EXCEPT ![s] = NoRequest]
             docs == DocumentsIn(JobsOf(jobs))
         IN  PoolOK(slots, waiters, jobs, docs)
<1> DEFINE jobs == [busy EXCEPT ![s] = NoRequest]
           docs == DocumentsIn(JobsOf(jobs))
<1>1. /\ \A t \in Slots : jobs[t] = IF t = s THEN NoRequest ELSE busy[t]
      /\ jobs \in [Slots -> Requests \cup {NoRequest}]
  BY DEF WriterPoolInv, TypeOK
<1> HIDE DEF jobs
<1>2. JobsOf(jobs) \subseteq JobsOf(busy)
  BY <1>1 DEF JobsOf
<1>3. docs \subseteq held /\ held \subseteq Documents
  BY <1>2 DEF HeldByRunning, DocumentsIn, WriterPoolInv, TypeOK
<1>4. \A t \in Slots : jobs[t] # NoRequest => DocumentsOf[jobs[t]] \subseteq docs
  BY DEF JobsOf, DocumentsIn
<1>5. \A t \in RangeOf(slots) : jobs[t] = NoRequest
  <2>1. RangeOf(slots) \subseteq Slots
    BY MemberFacts
  <2> QED
    BY <1>1, <2>1 DEF WriterPoolInv, PoolOK
<1>6. /\ waiters \in Seq(Requests) /\ NoRepeats(waiters)
      /\ \A t \in Slots : jobs[t] # NoRequest => jobs[t] \notin RangeOf(waiters)
      /\ \A t, u \in Slots : t # u /\ jobs[t] # NoRequest /\ jobs[u] # NoRequest =>
           jobs[t] # jobs[u] /\ ~Meet(jobs[t], jobs[u])
  BY <1>1 DEF WriterPoolInv, PoolOK
<1> HIDE DEF docs
<1>7. PoolOK(slots, waiters, jobs, docs)
  BY <1>1, <1>3, <1>4, <1>5, <1>6 DEF PoolOK
<1> QED
  BY <1>7 DEF jobs, docs

(* finish_drain tells those who wait, or something still runs.             *)
LEMMA DrainLeavesNobody ==
  ASSUME NobodyIsLeft, WriterPoolInv, NEW jobs, FinishDrain(jobs),
         Running(jobs) # {} => Running(busy') # {},
         UNCHANGED <<closing, tokens, command>>
  PROVE  DrainsEnd' /\ PausesEnd'
<1>1. \A c \in Serials : AtOwner(c)' <=> AtOwner(c)
  BY DEF AtOwner
<1>2. CASE Running(jobs) # {}
  <2>1. UNCHANGED <<parked, phase, closer>> /\ Running(busy') # {}
    BY <1>2 DEF FinishDrain
  <2> QED
    BY <1>1, <2>1 DEF NobodyIsLeft, DrainsEnd, PausesEnd
<1>3. CASE Running(jobs) = {}
  <2>1. /\ parked' = {}
        /\ \A c \in Serials : phase'[c] =
             IF c \in parked /\ phase[c] = "quiescing" THEN "holding" ELSE phase[c]
        /\ closer' = IF closer = "draining" THEN "drained" ELSE closer
    BY <1>3 DEF FinishDrain
  <2>2. tokens \subseteq Serials
    BY DEF WriterPoolInv, TypeOK
  <2>3. PausesEnd'
    BY <1>1, <2>1, <2>2 DEF NobodyIsLeft, PausesEnd
  <2> QED
    BY <2>1, <2>3 DEF DrainsEnd
<1> QED
  BY <1>2, <1>3

(* Slots that come, finish a job or go.                                    *)
LEMMA SlotsLeaveNobody ==
  ASSUME WriterPoolInv, NobodyIsLeft, NEW s \in Slots,
         SlotStarts(s) \/ Complete(s) \/ SlotDown(s)
  PROVE  NobodyIsLeft'
<1>0. /\ HeldByRunning /\ SlotsUsed
      /\ life \in [Slots -> {"unborn", "alive", "dead"}]
      /\ registered \subseteq Slots
  BY DEF NobodyIsLeft, WriterPoolInv, TypeOK
<1>1. CASE SlotStarts(s)
  <2>1. /\ Append(idle, s) \in Seq(Slots) /\ NoRepeats(Append(idle, s))
        /\ RangeOf(Append(idle, s)) = RangeOf(idle) \cup {s}
        /\ busy[s] = NoRequest
    BY <1>1, AppendFacts DEF SlotStarts, WriterPoolInv, PoolOK, SlotsOK
  <2>2. PoolOK(Append(idle, s), waiters, busy, held)
    BY <2>1 DEF WriterPoolInv, PoolOK
  <2>3. /\ GrantLoop(Append(idle, s), waiters, busy, held, Paused)
        /\ life' = [life EXCEPT ![s] = "alive"] /\ registered' = registered \cup {s}
        /\ UNCHANGED <<closing, tokens, parked, phase, command, closer>>
    BY <1>1 DEF SlotStarts, serialVars, closeVars
  <2>4. \A t \in Slots :
          /\ life'[t] = "alive" => t \in RangeOf(Append(idle, s)) \/ busy[t] # NoRequest
          /\ life'[t] = "alive" \/ t \in RangeOf(Append(idle, s)) \/ busy[t] # NoRequest
               => t \in registered'
    BY <1>0, <2>1, <2>3 DEF SlotsUsed
  <2>5. /\ HeldByRunning' /\ SlotsUsed' /\ QueueServed'
        /\ Running(busy) # {} => Running(busy') # {}
    <3>1. Paused' = Paused
      BY <2>3 DEF Paused
    <3> QED
      BY <1>0, <2>2, <2>3, <2>4, <3>1, GrantLeavesNobody DEF HeldByRunning
  <2>6. \A c \in Serials : AtOwner(c)' <=> AtOwner(c)
    BY <2>3 DEF AtOwner
  <2>7. DrainsEnd' /\ PausesEnd'
    BY <2>3, <2>5, <2>6 DEF NobodyIsLeft, DrainsEnd, PausesEnd
  <2> QED
    BY <2>5, <2>7 DEF NobodyIsLeft
<1>2. CASE Complete(s) \/ SlotDown(s)
  <2> DEFINE jobs == [busy EXCEPT ![s] = NoRequest]
             docs == DocumentsIn(JobsOf(jobs))
             slots == IF SlotDown(s) THEN Without(idle, {s})
                      ELSE IF life[s] = "alive" /\ s \notin RangeOf(idle)
                             THEN Append(idle, s) ELSE idle
  <2>1. \A t \in Slots : jobs[t] = IF t = s THEN NoRequest ELSE busy[t]
    BY DEF WriterPoolInv, TypeOK
  <2>2. docs = IF busy[s] = NoRequest THEN held ELSE held \ DocumentsOf[busy[s]]
    <3>1. CASE busy[s] = NoRequest
      <4>1. JobsOf(jobs) = JobsOf(busy)
        <5> HIDE DEF jobs
        <5> QED
          BY <2>1, <3>1 DEF JobsOf
      <4> QED
        BY <1>0, <3>1, <4>1 DEF HeldByRunning
    <3>2. CASE busy[s] # NoRequest
      BY <1>0, <3>2, DocumentsFreed
    <3> QED
      BY <3>1, <3>2
  <2>3. Complete(s) /\ ~SlotDown(s) => busy[s] # NoRequest
    BY DEF Complete, WriterPoolInv, SlotsOK
  <2>4. /\ FinishDrain(jobs) /\ GrantLoop(slots, waiters, jobs, docs, Paused)
        /\ UNCHANGED <<closing, tokens, command, life>>
    <3>1. CASE SlotDown(s)
      <4>1. /\ FinishDrain(jobs)
            /\ GrantLoop(Without(idle, {s}), waiters, jobs,
                         IF busy[s] = NoRequest THEN held ELSE held \ DocumentsOf[busy[s]],
                         Paused)
            /\ UNCHANGED <<closing, tokens, command, life>>
        BY <3>1 DEF SlotDown, slotVars
      <4>2. slots = Without(idle, {s})
        BY <3>1
      <4> HIDE DEF jobs, docs, slots
      <4> QED
        BY <2>2, <4>1, <4>2
    <3>2. CASE Complete(s) /\ ~SlotDown(s)
      <4>1. /\ FinishDrain(jobs)
            /\ GrantLoop(IF life[s] = "alive" /\ s \notin RangeOf(idle)
                           THEN Append(idle, s) ELSE idle,
                         waiters, jobs, held \ DocumentsOf[busy[s]], Paused)
            /\ UNCHANGED <<closing, tokens, command, life>>
        BY <3>2 DEF Complete
      <4>2. slots = IF life[s] = "alive" /\ s \notin RangeOf(idle)
                      THEN Append(idle, s) ELSE idle
        BY <3>2
      <4> HIDE DEF jobs, docs, slots
      <4> QED
        BY <2>2, <2>3, <3>2, <4>1, <4>2
    <3> QED
      BY <1>2, <3>1, <3>2
  <2>5. /\ slots \in Seq(Slots) /\ NoRepeats(slots)
        /\ RangeOf(slots) = IF SlotDown(s) THEN RangeOf(idle) \ {s}
                            ELSE IF life[s] = "alive" THEN RangeOf(idle) \cup {s}
                            ELSE RangeOf(idle)
    <3>0. idle \in Seq(Slots) /\ NoRepeats(idle)
      BY DEF WriterPoolInv, PoolOK
    <3>1. CASE SlotDown(s)
      <4>1. slots = Without(idle, {s})
        BY <3>1
      <4> HIDE DEF slots
      <4> QED
        BY <3>0, <3>1, <4>1, WithoutFacts
    <3>2. CASE ~SlotDown(s) /\ life[s] = "alive" /\ s \notin RangeOf(idle)
      <4>1. slots = Append(idle, s)
        BY <3>2
      <4> HIDE DEF slots
      <4> QED
        BY <3>0, <3>2, <4>1, AppendFacts
    <3>3. CASE ~SlotDown(s) /\ ~(life[s] = "alive" /\ s \notin RangeOf(idle))
      <4>1. slots = idle /\ (life[s] = "alive" => s \in RangeOf(idle))
        BY <3>3
      <4> HIDE DEF slots
      <4> QED
        BY <3>0, <3>3, <4>1
    <3> QED
      BY <3>1, <3>2, <3>3
  <2>6. registered' = IF SlotDown(s) THEN registered \ {s} ELSE registered
    BY <1>2 DEF SlotDown, Complete
  <2>7. SlotDown(s) => life[s] = "dead"
    BY DEF SlotDown
  <2>8. PoolOK(slots, waiters, jobs, docs)
    <3>1. RangeOf(slots) \subseteq RangeOf(idle) \cup {s}
      BY <2>5
    <3> HIDE DEF slots
    <3> QED
      BY <1>0, <2>5, <3>1, PoolWithoutJob
  <2> HIDE DEF slots, jobs
  <2>9. \A t \in Slots :
          /\ life'[t] = "alive" => t \in RangeOf(slots) \/ jobs[t] # NoRequest
          /\ life'[t] = "alive" \/ t \in RangeOf(slots) \/ jobs[t] # NoRequest
               => t \in registered'
    BY <1>0, <2>1, <2>4, <2>5, <2>6, <2>7 DEF SlotsUsed
  <2>10. /\ HeldByRunning' /\ SlotsUsed' /\ QueueServed'
         /\ Running(jobs) # {} => Running(busy') # {}
    <3>1. Paused' = Paused
      BY <2>4 DEF Paused
    <3> QED
      BY <2>4, <2>8, <2>9, <3>1, GrantLeavesNobody
  <2>11. DrainsEnd' /\ PausesEnd'
    BY <2>4, <2>10, DrainLeavesNobody
  <2> QED
    BY <2>10, <2>11 DEF NobodyIsLeft
<1> QED
  BY <1>1, <1>2

(* Writes that come and go, and a close that is abandoned.                 *)
LEMMA WritesLeaveNobody ==
  ASSUME WriterPoolInv, NobodyIsLeft, NEW r \in Requests,
         Execute(r) \/ Cancel(r) \/ CallerDown(r)
  PROVE  NobodyIsLeft'
<1>1. UNCHANGED <<life, registered, closing, tokens, parked, phase, command, closer>>
  BY DEF Execute, Cancel, CallerDown, slotVars, serialVars, closeVars
<1>2. Paused' = Paused /\ \A c \in Serials : AtOwner(c)' <=> AtOwner(c)
  BY <1>1 DEF Paused, AtOwner
<1>3. PausesEnd'
  BY <1>1, <1>2 DEF NobodyIsLeft, PausesEnd
<1>4. ASSUME NEW ws, PoolOK(idle, ws, busy, held),
             GrantLoop(idle, ws, busy, held, Paused)
      PROVE  NobodyIsLeft'
  <2>1. /\ HeldByRunning' /\ SlotsUsed' /\ QueueServed'
        /\ Running(busy) # {} => Running(busy') # {}
    BY <1>1, <1>2, <1>4, RegrantLeavesNobody
  <2>2. DrainsEnd'
    BY <1>1, <2>1 DEF NobodyIsLeft, DrainsEnd
  <2> QED
    BY <1>3, <2>1, <2>2 DEF NobodyIsLeft
<1>5. CASE Execute(r)
  <2>1. r \notin RangeOf(accepted) /\ GrantLoop(idle, Append(waiters, r), busy, held, Paused)
    BY <1>5 DEF Execute, Routed, WriterPoolInv, CallsOK
  <2>2. PoolOK(idle, Append(waiters, r), busy, held)
    BY <2>1, NewestIsLast
  <2> QED
    BY <1>4, <2>1, <2>2
<1>6. Without(waiters, {r}) \in Seq(Requests) /\ NoRepeats(Without(waiters, {r}))
      /\ RangeOf(Without(waiters, {r})) \subseteq RangeOf(waiters)
  BY WithoutFacts DEF WriterPoolInv, PoolOK
<1>7. CASE Cancel(r) /\ r \in RangeOf(waiters)
  <2>1. GrantLoop(idle, Without(waiters, {r}), busy, held, Paused)
    BY <1>7 DEF Cancel
  <2>2. PoolOK(idle, Without(waiters, {r}), busy, held)
    BY <1>6 DEF WriterPoolInv, PoolOK
  <2> QED
    BY <1>4, <2>1, <2>2
<1>8. CASE CallerDown(r) \/ (Cancel(r) /\ r \notin RangeOf(waiters))
  <2>1. UNCHANGED <<idle, busy, held>> /\ waiters' \in {waiters, Without(waiters, {r})}
    BY <1>8 DEF Cancel, CallerDown
  <2>2. waiters = <<>> => waiters' = <<>>
    BY <1>6, <2>1, EmptyFacts, NothingInIt
  <2> QED
    BY <1>1, <1>2, <1>3, <2>1, <2>2
       DEF NobodyIsLeft, HeldByRunning, SlotsUsed, QueueServed, DrainsEnd
<1> QED
  BY <1>5, <1>7, <1>8

(* Barriers that begin and end.                                            *)
LEMMA BarriersLeaveNobody ==
  ASSUME WriterPoolInv, NobodyIsLeft, NEW c \in Serials,
         Quiesce(c) \/ Resume(c) \/ HolderDown(c)
  PROVE  NobodyIsLeft'
<1>0. /\ phase \in [Serials -> {"new", "routed", "quiescing", "holding",
                                "submitted", "direct", "resuming", "done", "dead"}]
      /\ tokens \subseteq Serials /\ PoolOK(idle, waiters, busy, held)
  BY DEF WriterPoolInv, TypeOK
<1>1. CASE Quiesce(c)
  <2>1. /\ UNCHANGED <<idle, busy, held, waiters, registered, closing, life, command, closer>>
        /\ tokens' = tokens \cup {c}
    BY <1>1 DEF Quiesce, slotVars, closeVars
  <2>2. \A d \in Serials : AtOwner(d)' <=> AtOwner(d)
    BY <2>1 DEF AtOwner
  <2>3. \/ Running(busy) = {} /\ phase' = [phase EXCEPT ![c] = "holding"] /\ parked' = parked
        \/ Running(busy) # {} /\ phase' = [phase EXCEPT ![c] = "quiescing"]
           /\ parked' = parked \cup {c}
    BY <1>1 DEF Quiesce
  <2>4. PausesEnd'
    BY <1>0, <2>1, <2>2, <2>3 DEF NobodyIsLeft, PausesEnd
  <2>5. DrainsEnd'
    BY <2>1, <2>3 DEF NobodyIsLeft, DrainsEnd
  <2>6. Paused'
    BY <2>1 DEF Paused
  <2> QED
    BY <2>1, <2>4, <2>5, <2>6
       DEF NobodyIsLeft, HeldByRunning, SlotsUsed, QueueServed
<1>2. CASE Resume(c) \/ HolderDown(c)
  <2>1. /\ EndBarrier(c) /\ UNCHANGED <<life, registered, closing, command, closer>>
        /\ phase'[c] \in {"done", "dead"}
        /\ \A d \in Serials : d # c => phase'[d] = phase[d]
    BY <1>0, <1>2 DEF Resume, HolderDown, EndBarrier, slotVars, closeVars
  <2>2. /\ GrantLoop(idle, waiters, busy, held, closing \/ tokens' # {})
        /\ tokens' = tokens \ {c} /\ parked' \subseteq parked
        /\ \A d \in Serials : d # c /\ d \in parked => d \in parked'
    BY <2>1 DEF EndBarrier
  <2>3. ~Paused' => ~(closing \/ tokens' # {})
    BY <2>1 DEF Paused
  <2>4. /\ HeldByRunning' /\ SlotsUsed' /\ QueueServed'
        /\ Running(busy) # {} => Running(busy') # {}
    BY <1>0, <2>1, <2>2, <2>3, RegrantLeavesNobody
  <2>5. DrainsEnd'
    BY <2>1, <2>2, <2>4 DEF NobodyIsLeft, DrainsEnd
  <2>6. \A d \in Serials : AtOwner(d)' <=> AtOwner(d)
    BY <2>1 DEF AtOwner
  <2>7. PausesEnd'
    BY <1>0, <2>1, <2>2, <2>6 DEF NobodyIsLeft, PausesEnd
  <2> QED
    BY <2>4, <2>5, <2>7 DEF NobodyIsLeft
<1> QED
  BY <1>1, <1>2

(* The close of the database.                                              *)
LEMMA ClosesLeaveNobody ==
  ASSUME WriterPoolInv, NobodyIsLeft, BeginClose \/ CancelClose
  PROVE  NobodyIsLeft'
<1>1. UNCHANGED <<life, registered, tokens, parked, phase, command>>
  BY DEF BeginClose, CancelClose, slotVars, serialVars
<1>2. \A c \in Serials : AtOwner(c)' <=> AtOwner(c)
  BY <1>1 DEF AtOwner
<1>3. CASE BeginClose
  <2>1. /\ UNCHANGED <<idle, busy, held>> /\ waiters' = <<>> /\ closing'
        /\ closer' = IF Running(busy) = {} THEN "drained" ELSE "draining"
    BY <1>3 DEF BeginClose
  <2> QED
    BY <1>1, <1>2, <2>1 DEF NobodyIsLeft, HeldByRunning, SlotsUsed, QueueServed,
                            DrainsEnd, PausesEnd
<1>4. CASE CancelClose
  <2>1. /\ GrantLoop(idle, waiters, busy, held, tokens # {})
        /\ closing' = FALSE /\ closer' = "none"
    BY <1>4 DEF CancelClose
  <2>2. PoolOK(idle, waiters, busy, held) /\ (~Paused' => ~(tokens # {}))
    BY <1>1, <2>1 DEF WriterPoolInv, Paused
  <2>3. /\ HeldByRunning' /\ SlotsUsed' /\ QueueServed'
        /\ Running(busy) # {} => Running(busy') # {}
    BY <1>1, <2>1, <2>2, RegrantLeavesNobody
  <2> QED
    BY <1>1, <1>2, <2>1, <2>3 DEF NobodyIsLeft, DrainsEnd, PausesEnd
<1> QED
  BY <1>3, <1>4

(* Steps outside the pool: slots at work, callers, the owner.              *)
LEMMA OthersLeaveNobody ==
  ASSUME WriterPoolInv, NobodyIsLeft,
         UNCHANGED <<idle, busy, held, waiters, registered, closing, tokens,
                     parked, closer>>,
         \A s \in Slots : life'[s] = "alive" => life[s] = "alive",
         \A c \in Serials :
           \/ /\ phase'[c] = phase[c]
              /\ phase[c] \in {"submitted", "direct"} /\ AtOwner(c) => AtOwner(c)'
           \/ /\ phase[c] \in {"new", "holding"} \/ phase'[c] \in {"resuming", "done", "dead"}
              /\ c \in tokens => phase'[c] \in {"submitted", "resuming", "dead"}
              /\ phase'[c] # "quiescing"
              /\ phase'[c] \in {"submitted", "direct"} => AtOwner(c)'
  PROVE  NobodyIsLeft'
<1>1. PausesEnd'
  <2>1. tokens \subseteq Serials
    BY DEF WriterPoolInv, TypeOK
  <2> QED
    BY <2>1 DEF NobodyIsLeft, PausesEnd
<1> QED
  BY <1>1 DEF NobodyIsLeft, HeldByRunning, SlotsUsed, QueueServed, DrainsEnd, Paused

(* Whatever waits in the writer pool waits for something that comes: a     *)
(* document for the write that holds it, a queued write for one that runs, *)
(* for a slot, or for the end of a barrier or a close that somebody is to  *)
(* end, a barrier and a close for a running write, and a job for a slot    *)
(* the pool knows of; through deaths of slots and callers, withdrawals,    *)
(* and closes that are abandoned (grant_loop, finish_drain, complete, the  *)
(* slot's exit, end_barrier).                                              *)
THEOREM NobodyIsForgotten == Spec => []NobodyIsLeft
<1>1. Init => NobodyIsLeft
  <2> SUFFICES ASSUME Init PROVE NobodyIsLeft
    OBVIOUS
  <2>1. JobsOf(busy) = {}
    BY DEF Init, Free, JobsOf
  <2>2. HeldByRunning
    BY <2>1 DEF Init, HeldByRunning, DocumentsIn
  <2>3. SlotsUsed
    BY EmptyFacts DEF Init, Free, SlotsUsed
  <2> QED
    BY <2>2, <2>3 DEF Init, NobodyIsLeft, QueueServed, DrainsEnd, PausesEnd
<1>2. ASSUME WriterPoolInv, NobodyIsLeft, [Next]_vars
      PROVE  NobodyIsLeft'
  <2>0. /\ life \in [Slots -> {"unborn", "alive", "dead"}]
        /\ phase \in [Serials -> {"new", "routed", "quiescing", "holding",
                                  "submitted", "direct", "resuming", "done", "dead"}]
        /\ command \in [Serials -> {"none", "queued", "running", "over"}]
        /\ \A c \in tokens :
             phase[c] \in {"quiescing", "holding", "submitted", "resuming", "dead"}
    BY <1>2 DEF WriterPoolInv, TypeOK, NobodyIsLeft, PausesEnd
  <2>1. ASSUME NEW s \in Slots, SlotStarts(s) \/ Complete(s) \/ SlotDown(s)
        PROVE  NobodyIsLeft'
    BY <1>2, <2>1, SlotsLeaveNobody
  <2>2. ASSUME NEW s \in Slots,
               SlotBegins(s) \/ SlotFinishes(s) \/ SlotReplies(s) \/ SlotDies(s)
        PROVE  NobodyIsLeft'
    <3>1. /\ UNCHANGED <<poolVars, phase, command, closer>>
          /\ life' \in {life, [life EXCEPT ![s] = "dead"]}
      BY <2>2 DEF SlotBegins, SlotFinishes, SlotReplies, SlotDies, serialVars, closeVars
    <3>2. \A c \in Serials : AtOwner(c)' <=> AtOwner(c)
      BY <3>1 DEF AtOwner
    <3>3. \A t \in Slots : life'[t] = "alive" => life[t] = "alive"
      BY <2>0, <3>1
    <3> QED
      BY <1>2, <3>1, <3>2, <3>3, OthersLeaveNobody DEF poolVars
  <2>3. ASSUME NEW r \in Requests, Execute(r) \/ Cancel(r) \/ CallerDown(r)
        PROVE  NobodyIsLeft'
    BY <1>2, <2>3, WritesLeaveNobody
  <2>4. ASSUME NEW r \in Requests, ExecuteRefused(r) \/ CallerExpires(r) \/ CallerDies(r)
        PROVE  NobodyIsLeft'
    <3>1. UNCHANGED <<poolVars, life, phase, command, closer>>
      BY <2>4 DEF ExecuteRefused, CallerExpires, CallerDies, slotVars, serialVars, closeVars
    <3>2. \A c \in Serials : AtOwner(c)' <=> AtOwner(c)
      BY <3>1 DEF AtOwner
    <3> QED
      BY <1>2, <3>1, <3>2, OthersLeaveNobody DEF poolVars
  <2>5. ASSUME NEW c \in Serials, Quiesce(c) \/ Resume(c) \/ HolderDown(c)
        PROVE  NobodyIsLeft'
    BY <1>2, <2>5, BarriersLeaveNobody
  <2>6. ASSUME NEW c \in Serials,
               \/ RouteSerial(c) \/ SubmitSerial(c) \/ OwnerBegins(c) \/ OwnerEnds(c)
               \/ SerialGivesUp(c) \/ SerialDies(c)
        PROVE  NobodyIsLeft'
    <3>1. UNCHANGED <<poolVars, life, closer>>
      BY <2>6 DEF RouteSerial, SubmitSerial, OwnerBegins, OwnerEnds, SerialGivesUp,
                  SerialDies, slotVars, closeVars
    <3>2. \A d \in Serials : d # c =>
            phase'[d] = phase[d] /\ (AtOwner(d) => AtOwner(d)')
      BY <2>0, <2>6 DEF RouteSerial, SubmitSerial, OwnerBegins, OwnerEnds, SerialGivesUp,
                        SerialDies, AtOwner
    <3>3. \/ /\ phase'[c] = phase[c]
             /\ phase[c] \in {"submitted", "direct"} /\ AtOwner(c) => AtOwner(c)'
          \/ /\ phase[c] \in {"new", "holding"} \/ phase'[c] \in {"resuming", "done", "dead"}
             /\ c \in tokens => phase'[c] \in {"submitted", "resuming", "dead"}
             /\ phase'[c] # "quiescing"
             /\ phase'[c] \in {"submitted", "direct"} => AtOwner(c)'
      <4>1. CASE RouteSerial(c) \/ SubmitSerial(c)
        BY <2>0, <4>1 DEF RouteSerial, SubmitSerial, AtOwner
      <4>2. CASE OwnerBegins(c) \/ SerialDies(c)
        BY <2>0, <4>2 DEF OwnerBegins, SerialDies, AtOwner
      <4>3. CASE OwnerEnds(c)
        <5>1. phase'[c] = Leaving(c) /\ ~AtOwner(c)'
          BY <2>0, <4>3 DEF OwnerEnds, AtOwner
        <5> QED
          BY <2>0, <5>1 DEF Leaving
      <4>4. CASE SerialGivesUp(c)
        BY <2>0, <4>4 DEF SerialGivesUp, Leaving
      <4> QED
        BY <2>6, <4>1, <4>2, <4>3, <4>4
    <3> QED
      BY <1>2, <3>1, <3>2, <3>3, OthersLeaveNobody DEF poolVars
  <2>7. CASE BeginClose \/ CancelClose
    BY <1>2, <2>7, ClosesLeaveNobody
  <2>8. CASE CloseWriters \/ UNCHANGED vars
    <3>1. UNCHANGED <<poolVars, life, phase, command, closer>>
      BY <2>8 DEF CloseWriters, vars, slotVars, serialVars, closeVars
    <3>2. \A c \in Serials : AtOwner(c)' <=> AtOwner(c)
      BY <3>1 DEF AtOwner
    <3> QED
      BY <1>2, <3>1, <3>2, OthersLeaveNobody DEF poolVars
  <2> QED
    BY <1>2, <2>1, <2>2, <2>3, <2>4, <2>5, <2>6, <2>7, <2>8 DEF Next
<1> QED
  BY <1>1, <1>2, InductiveInvariant, PTL DEF Spec
=============================================================================
