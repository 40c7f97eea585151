------------------------- MODULE AdmissionProofs --------------------------
(***************************************************************************)
(* Theorems about admission, for any clients, classes, weights, limits and *)
(* bounds: the type invariant; that no more than one admitted command is   *)
(* at the owner and waited for; that a command whose caller has been       *)
(* answered cannot start; that every class keeps its reserved places; that *)
(* a waiting class is passed over a bounded number of times; and that no   *)
(* waiter, permit or close is left with nobody to go on with it.           *)
(***************************************************************************)
EXTENDS Admission, FoldLemmas, SequenceTheorems, TLAPS

-----------------------------------------------------------------------------
(* Sequences as the queues and the mailbox use them.                       *)

(* No element occurs twice.                                                *)
NoRepeats(s) == \A i, j \in 1..Len(s) : s[i] = s[j] => i = j

(* The empty sequence holds nothing.                                       *)
LEMMA EmptyFacts ==
  ToSet(<<>>) = {} /\ NoRepeats(<<>>) /\ \A S : <<>> \in Seq(S)
  BY DEF ToSet, NoRepeats

(* What a sequence over S holds.                                           *)
LEMMA MemberFacts ==
  ASSUME NEW S, NEW s \in Seq(S)
  PROVE  ToSet(s) \subseteq S /\ (ToSet(s) = {} <=> s = <<>>)
<1>1. s = <<>> \/ 1 \in DOMAIN s
  OBVIOUS
<1> QED
  BY <1>1 DEF ToSet

(* A new element at the end.                                               *)
LEMMA AppendFacts ==
  ASSUME NEW S, NEW s \in Seq(S), NEW e \in S
  PROVE  /\ Append(s, e) \in Seq(S)
         /\ ToSet(Append(s, e)) = ToSet(s) \cup {e}
         /\ NoRepeats(s) /\ e \notin ToSet(s) => NoRepeats(Append(s, e))
<1>1. /\ Append(s, e) \in Seq(S) /\ Len(Append(s, e)) = Len(s) + 1
      /\ \A i \in 1..Len(s) : Append(s, e)[i] = s[i]
      /\ Append(s, e)[Len(s) + 1] = e
  OBVIOUS
<1>2. ToSet(Append(s, e)) = ToSet(s) \cup {e}
  BY <1>1 DEF ToSet
<1>3. NoRepeats(s) /\ e \notin ToSet(s) => NoRepeats(Append(s, e))
  BY <1>1 DEF ToSet, NoRepeats
<1> QED
  BY <1>1, <1>2, <1>3

(* Taking the first element.                                               *)
LEMMA TailFacts ==
  ASSUME NEW S, NEW s \in Seq(S), s # <<>>
  PROVE  /\ Tail(s) \in Seq(S) /\ Head(s) \in ToSet(s)
         /\ ToSet(Tail(s)) \subseteq ToSet(s)
         /\ ToSet(s) = ToSet(Tail(s)) \cup {Head(s)}
         /\ NoRepeats(s) => NoRepeats(Tail(s)) /\ Head(s) \notin ToSet(Tail(s))
<1>1. /\ Tail(s) \in Seq(S) /\ Len(Tail(s)) = Len(s) - 1 /\ Len(s) \in Nat \ {0}
      /\ \A i \in 1..Len(s) - 1 : Tail(s)[i] = s[i + 1]
      /\ Head(s) = s[1] /\ 1 \in DOMAIN s
  OBVIOUS
<1> DEFINE t == Tail(s)
<1>2. DOMAIN t = 1..Len(s) - 1
  BY <1>1
<1>3. ToSet(s) = ToSet(t) \cup {Head(s)}
  <2>1. ASSUME NEW i \in 1..Len(s) PROVE s[i] \in ToSet(t) \cup {Head(s)}
    <3>1. CASE i = 1
      BY <1>1, <3>1
    <3>2. CASE i # 1
      <4>1. i - 1 \in DOMAIN t /\ t[i - 1] = s[i]
        BY <1>1, <1>2, <3>2
      <4> QED
        BY <4>1 DEF ToSet
    <3> QED
      BY <3>1, <3>2
  <2>2. ASSUME NEW i \in DOMAIN t PROVE t[i] \in ToSet(s)
    <3>1. i + 1 \in DOMAIN s /\ t[i] = s[i + 1]
      BY <1>1, <1>2
    <3> QED
      BY <3>1 DEF ToSet
  <2>3. Head(s) \in ToSet(s)
    BY <1>1 DEF ToSet
  <2> HIDE DEF t
  <2> QED
    BY <2>1, <2>2, <2>3 DEF ToSet
<1>4. ASSUME NoRepeats(s) PROVE NoRepeats(Tail(s)) /\ Head(s) \notin ToSet(Tail(s))
  <2>1. \A i \in DOMAIN t : i + 1 \in 1..Len(s) /\ t[i] = s[i + 1]
    BY <1>1, <1>2
  <2>2. NoRepeats(t)
    BY <1>1, <1>2, <1>4, <2>1 DEF NoRepeats
  <2>3. \A i \in DOMAIN t : t[i] # s[1]
    <3> SUFFICES ASSUME NEW i \in DOMAIN t, t[i] = s[1] PROVE FALSE
      OBVIOUS
    <3>1. i + 1 = 1
      BY <1>1, <1>4, <2>1 DEF NoRepeats
    <3> QED
      BY <1>2, <3>1
  <2>4. Head(s) \notin ToSet(t)
    BY <1>1, <2>3 DEF ToSet
  <2> QED
    BY <2>2, <2>4
<1> QED
  BY <1>1, <1>3, <1>4

(* Taking an element from anywhere.                                        *)
LEMMA RemoveFacts ==
  ASSUME NEW S, NEW s \in Seq(S), NEW n \in DOMAIN s
  PROVE  /\ RemoveAt(s, n) \in Seq(S) /\ Len(RemoveAt(s, n)) = Len(s) - 1
         /\ ToSet(RemoveAt(s, n)) \subseteq ToSet(s)
         /\ NoRepeats(s) => /\ NoRepeats(RemoveAt(s, n))
                           /\ s[n] \notin ToSet(RemoveAt(s, n))
<1> DEFINE r == RemoveAt(s, n)
           from(i) == IF i < n THEN i ELSE i + 1
<1>1. /\ SubSeq(s, 1, n - 1) \in Seq(S) /\ Len(SubSeq(s, 1, n - 1)) = n - 1
      /\ \A i \in 1..n - 1 : SubSeq(s, 1, n - 1)[i] = s[i]
  OBVIOUS
<1>2. /\ SubSeq(s, n + 1, Len(s)) \in Seq(S)
      /\ Len(SubSeq(s, n + 1, Len(s))) = Len(s) - n
      /\ \A i \in 1..Len(s) - n : SubSeq(s, n + 1, Len(s))[i] = s[n + i]
  OBVIOUS
<1> DEFINE a == SubSeq(s, 1, n - 1)
           b == SubSeq(s, n + 1, Len(s))
<1>a. r = a \o b
  BY DEF RemoveAt
<1> HIDE DEF r, a, b
<1>3. r \in Seq(S) /\ Len(r) = Len(s) - 1 /\ DOMAIN r = 1..Len(s) - 1
  <2>1. a \in Seq(S) /\ Len(a) = n - 1 /\ b \in Seq(S) /\ Len(b) = Len(s) - n
    BY <1>1, <1>2 DEF a, b
  <2>2. r \in Seq(S) /\ Len(r) = Len(a) + Len(b)
    BY <1>a, <2>1, ConcatProperties
  <2>3. (n - 1) + (Len(s) - n) = Len(s) - 1
    OBVIOUS
  <2> QED
    BY <2>1, <2>2, <2>3
<1>4. \A i \in 1..Len(r) : from(i) \in (1..Len(s)) \ {n} /\ r[i] = s[from(i)]
  <2> SUFFICES ASSUME NEW i \in 1..Len(r)
               PROVE  from(i) \in (1..Len(s)) \ {n} /\ r[i] = s[from(i)]
    OBVIOUS
  <2>1. r[i] = IF i <= Len(a) THEN a[i] ELSE b[i - Len(a)]
    <3>1. a \in Seq(S) /\ b \in Seq(S)
      BY <1>1, <1>2 DEF a, b
    <3> QED
      BY <1>a, <3>1, ConcatProperties
  <2>2. Len(a) = n - 1 /\ \A j \in 1..n - 1 : a[j] = s[j]
    BY <1>1 DEF a
  <2>3. \A j \in 1..Len(s) - n : b[j] = s[n + j]
    BY <1>2 DEF b
  <2>4. CASE i < n
    BY <1>3, <2>1, <2>2, <2>4
  <2>5. CASE i >= n
    <3>1. i - (n - 1) \in 1..Len(s) - n /\ n + (i - (n - 1)) = i + 1
      BY <1>3, <2>5
    <3>2. b[i - (n - 1)] = s[i + 1]
      BY <2>3, <3>1
    <3>3. r[i] = b[i - (n - 1)]
      BY <1>3, <2>1, <2>2, <2>5
    <3> QED
      BY <1>3, <2>5, <3>2, <3>3
  <2> QED
    BY <1>3, <2>4, <2>5
<1>5. ToSet(r) \subseteq ToSet(s)
  BY <1>3, <1>4 DEF ToSet
<1>6. ASSUME NoRepeats(s) PROVE NoRepeats(r) /\ s[n] \notin ToSet(r)
  <2>1. \A i, j \in 1..Len(r) : from(i) = from(j) => i = j
    BY <1>3
  <2>2. NoRepeats(r)
    BY <1>4, <1>6, <2>1 DEF NoRepeats
  <2>3. s[n] \notin ToSet(r)
    BY <1>3, <1>4, <1>6 DEF NoRepeats, ToSet
  <2> QED
    BY <2>2, <2>3
<1> QED
  BY <1>3, <1>5, <1>6 DEF r

-----------------------------------------------------------------------------
(* The inductive invariant.                                                *)

(* A command that may still reach the owner, or is there and waited for.   *)
Pending(c) ==
  \/ c \in ToSet(mailbox) \ late
  \/ exec[c] \in {"started", "called", "returned", "replied"}
  \/ exec[c] = "given" /\ flag[c] = "granted"

(* A client whose command was asked for and not granted.                   *)
Ungranted(c) ==
  /\ call[c] # "idle" /\ c # active
  /\ exec[c] \in {"none", "crashed"} /\ c \notin ToSet(mailbox)

(* A client is in one place at a time.                                     *)
PlacesOK ==
  /\ \A c \in asked : Ungranted(c) /\ \A k \in Classes : c \notin ToSet(queue[k])
  /\ \A k \in Classes :
       /\ NoRepeats(queue[k])
       /\ \A c \in ToSet(queue[k]) : Ungranted(c) /\ ClassOf[c] = k

(* The flag, the executor and the mailbox agree on what has started.       *)
CommandsOK ==
  /\ NoRepeats(mailbox)
  /\ \A c \in Clients :
       /\ exec[c] \in {"started", "called", "returned", "replied"}
            => flag[c] = "started"
       /\ exec[c] \in {"given", "started"} => c \notin ToSet(mailbox)
       /\ c \in ToSet(mailbox) \ late
            => flag[c] = "started" /\ exec[c] \in {"called", "crashed", "none"}

(* While the scheduler lives only the active command is pending; without   *)
(* it, at most the one that was.                                           *)
PermitOK ==
  /\ phase \in {"serving", "granting"} =>
       \A c \in Clients : Pending(c) => active = c
  /\ \A c, d \in Clients : Pending(c) /\ Pending(d) => c = d

(* What the scheduler's phase, the permit and the drain say of each other. *)
PhaseOK ==
  /\ phase \in {"down", "starting"} =>
       active = None /\ \A k \in Classes : queue[k] = <<>>
  /\ phase = "down" => asked = {}
  /\ phase = "starting" => \A c \in Clients : exec[c] = "none"
  /\ phase = "granting" => active = None
  /\ drain # "none" => active # None /\ exec[active] = "none"

AdmissionInv ==
  /\ TypeOK /\ PlacesOK /\ CommandsOK /\ PermitOK /\ PhaseOK
  /\ AnsweredNeverStarts

(* A fault below the bound keeps the count within it.                      *)
LEMMA FaultsBound ==
  /\ MaxFaults \in Nat /\ 0 \in 0..MaxFaults
  /\ \A n \in 0..MaxFaults : n < MaxFaults => n + 1 \in 0..MaxFaults
  BY PolicyAssumption

(* The schedule is a sequence of classes and not empty, and has the slots  *)
(* of a class in one block.                                                *)
LEMMA ScheduleBlocks ==
  /\ Schedule \in Seq(Classes) \ {<<>>}
  /\ \A k \in Classes : \E start \in Nat :
       /\ start + Weight[k] <= Len(Schedule)
       /\ \A m \in 1..Weight[k] : Schedule[start + m] = k
<1> DEFINE block(k) == [j \in 1..Weight[k] |-> k]
           s == [i \in 1..Len(ClassOrder) |->
                   [j \in 1..Weight[ClassOrder[i]] |-> ClassOrder[i]]]
<1>1. /\ Len(ClassOrder) \in Nat \ {0}
      /\ \A i \in 1..Len(ClassOrder) : ClassOrder[i] \in Classes
      /\ \A k \in Classes : \E i \in 1..Len(ClassOrder) : k = ClassOrder[i]
  BY ClassesAssumption DEF Classes, ToSet
<1>2. \A k \in Classes : /\ block(k) \in Seq(Classes) /\ Len(block(k)) = Weight[k]
                          /\ Weight[k] \in Nat \ {0}
  BY PolicyAssumption
<1>3. \A i \in 1..Len(ClassOrder) : s[i] = block(ClassOrder[i])
  OBVIOUS
<1>4. Len(s) = Len(ClassOrder) /\ DOMAIN s = 1..Len(ClassOrder)
  BY <1>1
<1>5. s \in Seq(Seq(Classes)) /\ s # <<>>
  <2>1. \A i \in 1..Len(ClassOrder) : s[i] \in Seq(Classes)
    <3> HIDE DEF s, block
    <3> QED BY <1>1, <1>2, <1>3
  <2>2. s = [i \in 1..Len(ClassOrder) |-> s[i]]
    OBVIOUS
  <2> HIDE DEF s, block
  <2>3. s \in Seq(Seq(Classes))
    BY <1>1, <2>1, <2>2
  <2>4. s # <<>>
    BY <1>1, <1>4
  <2> QED BY <2>3, <2>4
<1>6. Schedule = FlattenSeq(s)
  BY DEF Schedule
<1> HIDE DEF s
<1>7. /\ Schedule \in Seq(Classes)
      /\ \A i \in 1..Len(s) : Occurs(s[i], Schedule)
  BY <1>5, <1>6, FlattenSeqJoins
<1>8. ASSUME NEW k \in Classes
      PROVE  \E start \in Nat :
               /\ start + Weight[k] <= Len(Schedule)
               /\ \A m \in 1..Weight[k] : Schedule[start + m] = k
  <2>1. Occurs(block(k), Schedule)
    <3> HIDE DEF block
    <3> QED BY <1>1, <1>3, <1>4, <1>7
  <2>2. PICK start \in Nat : /\ start + Len(block(k)) <= Len(Schedule)
                             /\ \A m \in 1..Len(block(k)) :
                                  Schedule[start + m] = block(k)[m]
    <3> HIDE DEF block
    <3> QED BY <2>1 DEF Occurs
  <2>3. \A m \in 1..Weight[k] : block(k)[m] = k
    OBVIOUS
  <2>4. Len(block(k)) = Weight[k]
    BY <1>2
  <2> HIDE DEF block
  <2> QED BY <2>2, <2>3, <2>4
<1>9. Schedule # <<>>
  <2>1. PICK k \in Classes : TRUE
    BY <1>1
  <2>2. PICK start \in Nat : start + Weight[k] <= Len(Schedule)
    BY <1>8
  <2>3. Weight[k] \in Nat \ {0}
    BY PolicyAssumption
  <2> HIDE DEF block
  <2>4. Len(Schedule) # 0
    BY <2>2, <2>3
  <2> QED BY <2>4
<1>10. QED
  BY <1>7, <1>8, <1>9

(* The first cursor, and the one after a grant, index the schedule.        *)
LEMMA CursorBounds ==
  /\ 0 \in 0..Len(Schedule) - 1
  /\ \A slot \in 0..Len(Schedule) - 1 :
       /\ NextCursor(slot) \in 0..Len(Schedule) - 1
       /\ Schedule[slot + 1] \in Classes
<1>1. Len(Schedule) \in Nat \ {0} /\ \A i \in 1..Len(Schedule) : Schedule[i] \in Classes
  BY ScheduleBlocks
<1> DEFINE L == Len(Schedule)
<1> HIDE DEF L
<1>2. ASSUME NEW slot \in 0..L - 1 PROVE (slot + 1) % L \in 0..L - 1
  BY <1>1, <1>2 DEF L
<1>3. ASSUME NEW slot \in 0..L - 1 PROVE slot + 1 \in 1..L
  BY <1>1, <1>3 DEF L
<1> QED
  BY <1>1, <1>2, <1>3 DEF NextCursor, L

(* A waiter is in some class's queue.                                      *)
LEMMA Waiting ==
  ASSUME NEW c
  PROVE  c \in Waiters <=> \E k \in Classes : c \in ToSet(queue[k])
  BY DEF Waiters

(* A step that moves no waiter keeps the places, if who was ungranted      *)
(* still is.                                                               *)
LEMMA PlacesKept ==
  ASSUME TypeOK, PlacesOK, asked' = asked, queue' = queue,
         \A d \in Clients : Ungranted(d) => Ungranted(d)'
  PROVE  PlacesOK'
<1>1. asked \subseteq Clients /\ \A k \in Classes : ToSet(queue[k]) \subseteq Clients
  BY MemberFacts DEF TypeOK
<1>2. \A d \in asked' : Ungranted(d)' /\ \A k \in Classes : d \notin ToSet(queue'[k])
  BY <1>1 DEF PlacesOK
<1>3. \A k \in Classes : /\ NoRepeats(queue'[k])
                         /\ \A d \in ToSet(queue'[k]) : Ungranted(d)' /\ ClassOf[d] = k
  BY <1>1 DEF PlacesOK
<1> QED
  BY <1>2, <1>3 DEF PlacesOK

(* A caller whose last command left nothing behind asks again.             *)
LEMMA IssueKeeps ==
  ASSUME AdmissionInv, NEW c \in Clients, Issue(c)
  PROVE  AdmissionInv'
<1> USE DEF AdmissionInv, Issue, schedVars, callVars, execVars, ownerVars
<1>1. TypeOK'
  BY FaultsBound, EmptyFacts DEF TypeOK
<1>2. PlacesOK'
  BY ClassesAssumption, MemberFacts, EmptyFacts
     DEF TypeOK, PlacesOK, Ungranted, PhaseOK
<1>3. CommandsOK'
  BY EmptyFacts, MemberFacts DEF TypeOK, CommandsOK
<1>4. PermitOK'
  BY EmptyFacts, MemberFacts DEF TypeOK, PermitOK, Pending, CommandsOK, PhaseOK
<1>5. PhaseOK'
  BY ClassesAssumption DEF TypeOK, PhaseOK
<1>6. AnsweredNeverStarts'
  BY MemberFacts
     DEF TypeOK, AnsweredNeverStarts, PermitOK,
         Pending, PlacesOK, Ungranted, PhaseOK
<1> QED
  BY <1>1, <1>2, <1>3, <1>4, <1>5, <1>6

(* Deadlines bear on nothing the invariant speaks of.                      *)
LEMMA DeadlinePassesKeeps ==
  ASSUME AdmissionInv, NEW c \in Clients, DeadlinePasses(c)
  PROVE  AdmissionInv'
<1> USE DEF AdmissionInv, DeadlinePasses, schedVars, callVars, execVars,
            ownerVars
<1>1. TypeOK'
  BY FaultsBound, EmptyFacts DEF TypeOK
<1>2. PlacesOK'
  <2>1. \A d \in Clients : Ungranted(d) => Ungranted(d)'
    BY ClassesAssumption DEF TypeOK, Ungranted
  <2> QED
    BY <2>1, PlacesKept
<1>3. CommandsOK'
  BY EmptyFacts, MemberFacts DEF TypeOK, CommandsOK
<1>4. PermitOK'
  BY EmptyFacts, MemberFacts DEF TypeOK, PermitOK, Pending, CommandsOK, PhaseOK
<1>5. PhaseOK'
  BY ClassesAssumption DEF TypeOK, PhaseOK
<1>6. AnsweredNeverStarts'
  BY MemberFacts
     DEF TypeOK, AnsweredNeverStarts, PermitOK,
         Pending, PlacesOK, Ungranted, PhaseOK
<1> QED
  BY <1>1, <1>2, <1>3, <1>4, <1>5, <1>6

(* A caller that gives up has not been answered.                           *)
LEMMA CallerTimesOutKeeps ==
  ASSUME AdmissionInv, NEW c \in Clients, CallerTimesOut(c)
  PROVE  AdmissionInv'
<1> USE DEF AdmissionInv, CallerTimesOut, schedVars, callVars, execVars,
            ownerVars
<1>1. TypeOK'
  BY FaultsBound, EmptyFacts DEF TypeOK
<1>2. PlacesOK'
  <2>1. \A d \in Clients : Ungranted(d) => Ungranted(d)'
    BY ClassesAssumption DEF TypeOK, Ungranted
  <2> QED
    BY <2>1, PlacesKept
<1>3. CommandsOK'
  BY EmptyFacts, MemberFacts DEF TypeOK, CommandsOK
<1>4. PermitOK'
  BY EmptyFacts, MemberFacts DEF TypeOK, PermitOK, Pending, CommandsOK, PhaseOK
<1>5. PhaseOK'
  BY ClassesAssumption DEF TypeOK, PhaseOK
<1>6. AnsweredNeverStarts'
  BY MemberFacts
     DEF TypeOK, AnsweredNeverStarts, PermitOK,
         Pending, PlacesOK, Ungranted, PhaseOK
<1> QED
  BY <1>1, <1>2, <1>3, <1>4, <1>5, <1>6

(* A caller that dies has not been answered either.                        *)
LEMMA CallerDiesKeeps ==
  ASSUME AdmissionInv, NEW c \in Clients, CallerDies(c)
  PROVE  AdmissionInv'
<1> USE DEF AdmissionInv, CallerDies, schedVars, callVars, execVars, ownerVars
<1>1. TypeOK'
  BY FaultsBound, EmptyFacts DEF TypeOK
<1>2. PlacesOK'
  <2>1. \A d \in Clients : Ungranted(d) => Ungranted(d)'
    BY ClassesAssumption DEF TypeOK, Ungranted
  <2> QED
    BY <2>1, PlacesKept
<1>3. CommandsOK'
  BY EmptyFacts, MemberFacts DEF TypeOK, CommandsOK
<1>4. PermitOK'
  BY EmptyFacts, MemberFacts DEF TypeOK, PermitOK, Pending, CommandsOK, PhaseOK
<1>5. PhaseOK'
  BY ClassesAssumption DEF TypeOK, PhaseOK
<1>6. AnsweredNeverStarts'
  BY MemberFacts
     DEF TypeOK, AnsweredNeverStarts, PermitOK,
         Pending, PlacesOK, Ungranted, PhaseOK
<1> QED
  BY <1>1, <1>2, <1>3, <1>4, <1>5, <1>6

(* The client moves from the mailbox to its class's queue, or is done.     *)
LEMMA AcquireKeeps ==
  ASSUME AdmissionInv, NEW c \in Clients, Acquire(c)
  PROVE  AdmissionInv'
<1> USE DEF AdmissionInv, Acquire, Answered, GrantLoop, schedVars, callVars,
            execVars, ownerVars
<1> DEFINE k == ClassOf[c]
<1>a. /\ k \in Classes /\ queue[k] \in Seq(Clients)
      /\ c \notin ToSet(queue[k]) /\ NoRepeats(queue[k])
  BY ClassesAssumption DEF TypeOK, PlacesOK
<1>b. /\ Append(queue[k], c) \in Seq(Clients)
      /\ ToSet(Append(queue[k], c)) = ToSet(queue[k]) \cup {c}
      /\ NoRepeats(Append(queue[k], c))
  BY <1>a, AppendFacts
<1>1. TypeOK'
  <2>1. passed' \in [Classes -> Nat]
    <3>1. passed \in [Classes -> Nat]
      BY DEF TypeOK
    <3>2. \/ passed' = passed
          \/ passed' = [passed EXCEPT ![k] = IF queue[k] = <<>> THEN 0 ELSE @]
      OBVIOUS
    <3> HIDE DEF AdmissionInv, Acquire, k
    <3> QED
      BY <3>1, <3>2
  <2> QED
    BY <1>a, <1>b, <2>1 DEF TypeOK
<1>2. PlacesOK'
  <2>1. CASE queue' = queue /\ call' = Answered({c})
    <3>1. \A d \in Clients : d # c /\ Ungranted(d) => Ungranted(d)'
      BY <2>1 DEF TypeOK, Ungranted
    <3>2. c \notin asked' /\ \A j \in Classes : c \notin ToSet(queue[j])
      BY DEF PlacesOK
    <3>3. asked \subseteq Clients /\ \A j \in Classes : ToSet(queue[j]) \subseteq Clients
      BY MemberFacts DEF TypeOK
    <3> QED
      BY <2>1, <3>1, <3>2, <3>3 DEF PlacesOK
  <2>2. CASE queue' = [queue EXCEPT ![k] = Append(@, c)] /\ call' = call
    <3>1. \A d \in asked' : Ungranted(d)' /\ \A j \in Classes : d \notin ToSet(queue[j])'
      BY <1>a, <1>b, <2>2 DEF TypeOK, PlacesOK, Ungranted
    <3>2. ASSUME NEW j \in Classes
          PROVE  /\ NoRepeats(queue'[j])
                 /\ \A d \in ToSet(queue'[j]) : Ungranted(d)' /\ ClassOf[d] = j
      <4>1. CASE j = k
        BY <1>a, <1>b, <2>2, <4>1 DEF TypeOK, PlacesOK, Ungranted
      <4>2. CASE j # k
        BY <1>a, <2>2, <4>2 DEF TypeOK, PlacesOK, Ungranted
      <4> QED
        BY <4>1, <4>2
    <3> QED
      BY <3>1, <3>2 DEF PlacesOK
  <2> QED
    BY <2>1, <2>2
<1>3. CommandsOK'
  BY EmptyFacts, MemberFacts DEF TypeOK, CommandsOK
<1>4. PermitOK'
  BY EmptyFacts, MemberFacts DEF TypeOK, PermitOK, Pending, CommandsOK, PhaseOK
<1>5. PhaseOK'
  BY ClassesAssumption DEF TypeOK, PhaseOK
<1>6. AnsweredNeverStarts'
  BY MemberFacts
     DEF TypeOK, AnsweredNeverStarts, PermitOK,
         Pending, PlacesOK, Ungranted, PhaseOK
<1> QED
  BY <1>1, <1>2, <1>3, <1>4, <1>5, <1>6

(* The head of a queue leaves it; with a free permit nothing is pending.   *)
LEMMA GrantKeeps ==
  ASSUME AdmissionInv, Grant
  PROVE  AdmissionInv'
<1> USE DEF AdmissionInv, Grant, GrantAt, Answered, GrantLoop, ClearActive,
            schedVars, callVars, execVars, ownerVars
<1>a. PICK slot \in 0..Len(Schedule) - 1 : ScanStopsAt(slot) /\ GrantAt(slot)
  OBVIOUS
<1> DEFINE class == Schedule[slot + 1]
           c == Head(queue[class])
<1>b. class \in Classes /\ queue[class] \in Seq(Clients) /\ queue[class] # <<>>
  BY <1>a, CursorBounds DEF ScanStopsAt, TypeOK
<1>c. /\ Tail(queue[class]) \in Seq(Clients) /\ c \in ToSet(queue[class])
      /\ ToSet(queue[class]) = ToSet(Tail(queue[class])) \cup {c}
      /\ NoRepeats(queue[class])
           => NoRepeats(Tail(queue[class])) /\ c \notin ToSet(Tail(queue[class]))
  BY <1>b, TailFacts
<1>d. c \in Clients /\ Ungranted(c) /\ c \notin asked /\ active = None
  BY <1>b, <1>c, MemberFacts DEF TypeOK, PlacesOK, PhaseOK
<1>e. queue' = [queue EXCEPT ![class] = Tail(@)]
  BY <1>a
<1>f. \/ /\ call' = Answered({c}) /\ active' = active /\ exec' = exec /\ flag' = flag
      \/ /\ call' = call /\ active' = c
         /\ exec' = [exec EXCEPT ![c] = "given"]
         /\ flag' = [flag EXCEPT ![c] = "granted"]
  BY <1>a, <1>d
<1> HIDE DEF class, c
<1>1. TypeOK'
  <2>1. queue' \in [Classes -> Seq(Clients)]
    BY <1>b, <1>c, <1>e DEF TypeOK
  <2>2. cursor' \in 0..Len(Schedule) - 1
    BY <1>a, CursorBounds
  <2>3. passed' \in [Classes -> Nat] /\ faults' \in 0..MaxFaults
    <3>1. \/ passed' = [passed EXCEPT ![class] = 0]
          \/ passed' = [k \in Classes |->
                          IF k = class \/ queue[k] = <<>> THEN 0 ELSE passed[k] + 1]
      BY <1>a DEF class
    <3>2. faults' = faults \/ (faults < MaxFaults /\ faults' = faults + 1)
      BY <1>a
    <3>3. passed' \in [Classes -> Nat]
      <4>1. passed \in [Classes -> Nat]
        BY DEF TypeOK
      <4>2. CASE passed' = [passed EXCEPT ![class] = 0]
        BY <4>1, <4>2
      <4>3. CASE passed' = [k \in Classes |->
                     IF k = class \/ queue[k] = <<>> THEN 0 ELSE passed[k] + 1]
        BY <4>1, <4>3
      <4> QED
        BY <3>1, <4>2, <4>3
    <3> QED
      BY <3>2, <3>3, FaultsBound DEF TypeOK
  <2>4. /\ call' \in [Clients -> {"idle", "waiting", "cancelling", "dead"}]
        /\ active' \in Clients \cup {None}
        /\ exec' \in [Clients -> {"none", "given", "started", "called", "returned",
                                  "replied", "crashed"}]
        /\ flag' \in [Clients -> {"granted", "started", "cancelled"}]
    <3>1. CASE /\ call' = Answered({c}) /\ active' = active
               /\ exec' = exec /\ flag' = flag
      BY <3>1 DEF TypeOK
    <3>2. CASE /\ call' = call /\ active' = c
               /\ exec' = [exec EXCEPT ![c] = "given"]
               /\ flag' = [flag EXCEPT ![c] = "granted"]
      BY <1>d, <3>2 DEF TypeOK
    <3> QED
      BY <1>f, <3>1, <3>2
  <2>5. /\ drain' \in {"none", "wanted", "syncing"}
        /\ closer' \in {"none", "begun", "parked", "drained"}
    BY <1>a DEF TypeOK
  <2> QED
    BY <2>1, <2>2, <2>3, <2>4, <2>5 DEF TypeOK
<1>2. PlacesOK'
  <2>1. ASSUME NEW j \in Classes
        PROVE  /\ NoRepeats(queue'[j]) /\ ToSet(queue'[j]) \subseteq ToSet(queue[j])
               /\ c \notin ToSet(queue'[j])
    <3>1. CASE j = class
      BY <1>b, <1>c, <1>e, <3>1 DEF TypeOK, PlacesOK
    <3>2. CASE j # class
      <4>1. ClassOf[c] = class
        BY <1>b, <1>c DEF PlacesOK
      <4>2. queue'[j] = queue[j]
        BY <1>e, <3>2 DEF TypeOK
      <4> QED
        BY <3>2, <4>1, <4>2 DEF PlacesOK
    <3> QED
      BY <3>1, <3>2
  <2>2. \A d \in Clients : d # c /\ Ungranted(d) => Ungranted(d)'
    BY <1>d, <1>f DEF TypeOK, Ungranted
  <2>3. asked \subseteq Clients /\ \A j \in Classes : ToSet(queue[j]) \subseteq Clients
    BY MemberFacts DEF TypeOK
  <2>4. asked' = asked /\ c \notin asked
    BY <1>d
  <2>5. \A d \in asked' : Ungranted(d)' /\ \A j \in Classes : d \notin ToSet(queue'[j])
    BY <2>1, <2>2, <2>3, <2>4 DEF PlacesOK
  <2>6. ASSUME NEW j \in Classes, NEW d \in ToSet(queue'[j])
        PROVE  Ungranted(d)' /\ ClassOf[d] = j
    <3>1. d \in ToSet(queue[j]) /\ d # c /\ d \in Clients
      BY <2>1, <2>3
    <3> QED
      BY <2>2, <3>1 DEF PlacesOK
  <2> QED
    BY <2>1, <2>5, <2>6 DEF PlacesOK
<1>3. CommandsOK'
  <2>1. mailbox' = mailbox /\ late' = late /\ CommandsOK /\ TypeOK
    BY <1>a
  <2> HIDE DEF AdmissionInv, Grant, GrantAt
  <2> QED
    BY <1>d, <1>f, <2>1 DEF TypeOK, CommandsOK, Ungranted
<1>4. PermitOK'
  <2>1. \A d \in Clients : ~ Pending(d)
    BY <1>d, ClassesAssumption DEF PermitOK
  <2>2. \A d \in Clients : Pending(d)' => d = c /\ active' = c
    BY <1>d, <1>f, <2>1 DEF TypeOK, Pending
  <2> QED
    BY <2>2 DEF PermitOK
<1>5. PhaseOK'
  BY <1>a, <1>d DEF TypeOK, PhaseOK
<1>6. AnsweredNeverStarts'
  <2>1. \A d \in Clients : ~ Pending(d)
    BY <1>d, ClassesAssumption DEF PermitOK
  <2>2. \A d \in Clients : ~ (exec[d] = "given" /\ flag[d] = "granted")
    BY <2>1 DEF Pending
  <2> QED
    BY <1>d, <1>f, <2>2 DEF TypeOK, AnsweredNeverStarts, Ungranted
<1> QED
  BY <1>1, <1>2, <1>3, <1>4, <1>5, <1>6

(* Only a command that never started gives its permit back here.           *)
LEMMA AbandonKeeps ==
  ASSUME AdmissionInv, NEW c \in Clients, phase = "serving", c \notin asked, Abandon(c)
  PROVE  AdmissionInv'
<1> USE DEF AdmissionInv, Abandon, Claim, ClearActive, KeepActive, GrantLoop,
            schedVars, callVars, execVars, ownerVars
<1> DEFINE k == ClassOf[c]
<1>a. k \in Classes /\ queue[k] \in Seq(Clients) /\ NoRepeats(queue[k])
  BY ClassesAssumption DEF TypeOK, PlacesOK
<1>b. ASSUME NEW n \in DOMAIN queue[k], queue[k][n] = c
      PROVE  /\ RemoveAt(queue[k], n) \in Seq(Clients)
             /\ ToSet(RemoveAt(queue[k], n)) \subseteq ToSet(queue[k])
             /\ NoRepeats(RemoveAt(queue[k], n))
             /\ c \notin ToSet(RemoveAt(queue[k], n))
             /\ c \in ToSet(queue[k])
  <2>1. c \in ToSet(queue[k])
    BY <1>b DEF ToSet
  <2>2. /\ RemoveAt(queue[k], n) \in Seq(Clients)
        /\ ToSet(RemoveAt(queue[k], n)) \subseteq ToSet(queue[k])
        /\ NoRepeats(RemoveAt(queue[k], n))
        /\ queue[k][n] \notin ToSet(RemoveAt(queue[k], n))
    BY <1>a, RemoveFacts
  <2> QED
    BY <1>b, <2>1, <2>2
<1>c. \/ queue' = queue /\ (active = c \/ c \notin Waiters)
      \/ \E n \in DOMAIN queue[k] :
           queue[k][n] = c /\ queue' = [queue EXCEPT ![k] = RemoveAt(@, n)]
  OBVIOUS
<1>1. TypeOK'
  <2>1. queue' \in [Classes -> Seq(Clients)]
    BY <1>a, <1>b, <1>c DEF TypeOK
  <2> QED
    BY <2>1 DEF TypeOK
<1>2. PlacesOK'
  <2>1. ASSUME NEW j \in Classes
        PROVE  /\ NoRepeats(queue'[j]) /\ ToSet(queue'[j]) \subseteq ToSet(queue[j])
               /\ c \notin ToSet(queue'[j])
    <3>1. CASE queue' = queue /\ (active = c \/ c \notin Waiters)
      BY <3>1, Waiting DEF PlacesOK, Ungranted
    <3>2. CASE \E n \in DOMAIN queue[k] :
                 queue[k][n] = c /\ queue' = [queue EXCEPT ![k] = RemoveAt(@, n)]
      BY <1>a, <1>b, <3>2 DEF TypeOK, PlacesOK
    <3> QED
      BY <1>c, <3>1, <3>2
  <2>2. \A d \in Clients : d # c /\ Ungranted(d) => Ungranted(d)'
    <3>1. active' = active \/ active' = None
      OBVIOUS
    <3>2. mailbox' = mailbox /\ exec' = exec /\ \A d \in Clients : d # c => call'[d] = call[d]
      BY DEF TypeOK
    <3> QED
      BY <3>1, <3>2, ClassesAssumption DEF Ungranted
  <2>3. asked \subseteq Clients /\ \A j \in Classes : ToSet(queue[j]) \subseteq Clients
    BY MemberFacts DEF TypeOK
  <2>4. asked' = asked /\ c \notin asked
    OBVIOUS
  <2>5. \A d \in asked' : Ungranted(d)' /\ \A j \in Classes : d \notin ToSet(queue'[j])
    BY <2>1, <2>2, <2>3, <2>4 DEF PlacesOK
  <2>6. ASSUME NEW j \in Classes, NEW d \in ToSet(queue'[j])
        PROVE  Ungranted(d)' /\ ClassOf[d] = j
    <3>1. d \in ToSet(queue[j]) /\ d # c /\ d \in Clients
      BY <2>1, <2>3
    <3> QED
      BY <2>2, <3>1 DEF PlacesOK
  <2> QED
    BY <2>1, <2>5, <2>6 DEF PlacesOK
<1>3. CommandsOK'
  BY EmptyFacts, MemberFacts DEF TypeOK, CommandsOK
<1>4. PermitOK'
  BY EmptyFacts, MemberFacts DEF TypeOK, PermitOK, Pending, CommandsOK, PhaseOK
<1>5. PhaseOK'
  BY ClassesAssumption DEF TypeOK, PhaseOK
<1>6. AnsweredNeverStarts'
  <2> SUFFICES ASSUME NEW d \in Clients, exec'[d] = "given", flag'[d] = "granted"
               PROVE  call'[d] # "idle"
    BY DEF AnsweredNeverStarts
  <2>1. exec[d] = "given" /\ flag[d] = "granted"
    BY DEF TypeOK
  <2>2. Pending(d) /\ call[d] # "idle"
    BY <2>1 DEF Pending, AnsweredNeverStarts
  <2>3. active = d
    BY <2>2 DEF PermitOK
  <2>4. d # c
    <3> SUFFICES ASSUME d = c PROVE FALSE
      OBVIOUS
    <3>1. \A n \in DOMAIN queue[k] : queue[k][n] # c
      BY <1>a, <1>b, <2>3 DEF PlacesOK, Ungranted
    <3>2. active = c /\ flag[c] # "started"
      BY <2>1, <2>3
    <3>3. flag' = [flag EXCEPT ![c] = "cancelled"]
      BY <2>1, <3>1, <3>2
    <3> QED
      BY <3>3 DEF TypeOK
  <2> QED
    BY <2>2, <2>4 DEF TypeOK
<1> QED
  BY <1>1, <1>2, <1>3, <1>4, <1>5, <1>6

(* The command has returned; nothing of it is pending.                     *)
LEMMA DoneKeeps ==
  ASSUME AdmissionInv, NEW c \in Clients, Done(c)
  PROVE  AdmissionInv'
<1> USE DEF AdmissionInv, Done, ClearActive, GrantLoop, schedVars, callVars,
            execVars, ownerVars
<1>1. TypeOK'
  BY FaultsBound, EmptyFacts DEF TypeOK
<1>2. PlacesOK'
  <2>1. \A d \in Clients : Ungranted(d) => Ungranted(d)'
    BY ClassesAssumption DEF TypeOK, Ungranted
  <2> QED
    BY <2>1, PlacesKept
<1>3. CommandsOK'
  BY EmptyFacts, MemberFacts DEF TypeOK, CommandsOK
<1>4. PermitOK'
  BY EmptyFacts, MemberFacts DEF TypeOK, PermitOK, Pending, CommandsOK, PhaseOK
<1>5. PhaseOK'
  BY ClassesAssumption DEF TypeOK, PhaseOK
<1>6. AnsweredNeverStarts'
  BY MemberFacts
     DEF TypeOK, AnsweredNeverStarts, PermitOK,
         Pending, PlacesOK, Ungranted, PhaseOK
<1> QED
  BY <1>1, <1>2, <1>3, <1>4, <1>5, <1>6

(* A command that started keeps the permit for the drain.                  *)
LEMMA ExecutorDownKeeps ==
  ASSUME AdmissionInv, NEW c \in Clients, ExecutorDown(c)
  PROVE  AdmissionInv'
<1> USE DEF AdmissionInv, ExecutorDown, Answered, Claim, ClearActive,
            GrantLoop, schedVars, callVars, execVars, ownerVars
<1>1. TypeOK'
  BY FaultsBound, EmptyFacts DEF TypeOK
<1>2. PlacesOK'
  <2>1. \A d \in Clients : Ungranted(d) => Ungranted(d)'
    BY ClassesAssumption DEF TypeOK, Ungranted
  <2> QED
    BY <2>1, PlacesKept
<1>3. CommandsOK'
  BY EmptyFacts, MemberFacts DEF TypeOK, CommandsOK
<1>4. PermitOK'
  BY EmptyFacts, MemberFacts DEF TypeOK, PermitOK, Pending, CommandsOK, PhaseOK
<1>5. PhaseOK'
  BY ClassesAssumption DEF TypeOK, PhaseOK
<1>6. AnsweredNeverStarts'
  BY MemberFacts
     DEF TypeOK, AnsweredNeverStarts, PermitOK,
         Pending, PlacesOK, Ungranted, PhaseOK
<1> QED
  BY <1>1, <1>2, <1>3, <1>4, <1>5, <1>6

(* The drain belongs to a permit whose executor is gone.                   *)
LEMMA DrainStartsKeeps ==
  ASSUME AdmissionInv, DrainStarts
  PROVE  AdmissionInv'
<1> USE DEF AdmissionInv, DrainStarts, schedVars, callVars, execVars, ownerVars
<1>1. TypeOK'
  BY FaultsBound, EmptyFacts DEF TypeOK
<1>2. PlacesOK'
  <2>1. \A d \in Clients : Ungranted(d) => Ungranted(d)'
    BY ClassesAssumption DEF TypeOK, Ungranted
  <2> QED
    BY <2>1, PlacesKept
<1>3. CommandsOK'
  BY EmptyFacts, MemberFacts DEF TypeOK, CommandsOK
<1>4. PermitOK'
  BY EmptyFacts, MemberFacts DEF TypeOK, PermitOK, Pending, CommandsOK, PhaseOK
<1>5. PhaseOK'
  BY ClassesAssumption DEF TypeOK, PhaseOK
<1>6. AnsweredNeverStarts'
  BY MemberFacts
     DEF TypeOK, AnsweredNeverStarts, PermitOK,
         Pending, PlacesOK, Ungranted, PhaseOK
<1> QED
  BY <1>1, <1>2, <1>3, <1>4, <1>5, <1>6

(* The mailbox is empty: the command it was started for is not there.      *)
LEMMA DrainEndsKeeps ==
  ASSUME AdmissionInv, DrainEnds
  PROVE  AdmissionInv'
<1> USE DEF AdmissionInv, DrainEnds, ClearActive, GrantLoop, schedVars,
            callVars, execVars, ownerVars
<1>1. TypeOK'
  BY FaultsBound, EmptyFacts DEF TypeOK
<1>2. PlacesOK'
  <2>1. \A d \in Clients : Ungranted(d) => Ungranted(d)'
    BY ClassesAssumption DEF TypeOK, Ungranted
  <2> QED
    BY <2>1, PlacesKept
<1>3. CommandsOK'
  BY EmptyFacts, MemberFacts DEF TypeOK, CommandsOK
<1>4. PermitOK'
  BY EmptyFacts, MemberFacts DEF TypeOK, PermitOK, Pending, CommandsOK, PhaseOK
<1>5. PhaseOK'
  BY ClassesAssumption DEF TypeOK, PhaseOK
<1>6. AnsweredNeverStarts'
  BY MemberFacts
     DEF TypeOK, AnsweredNeverStarts, PermitOK,
         Pending, PlacesOK, Ungranted, PhaseOK
<1> QED
  BY <1>1, <1>2, <1>3, <1>4, <1>5, <1>6

(* The permit outlives a failed drain.                                     *)
LEMMA DrainFailsKeeps ==
  ASSUME AdmissionInv, DrainFails
  PROVE  AdmissionInv'
<1> USE DEF AdmissionInv, DrainFails, schedVars, callVars, execVars, ownerVars
<1>1. TypeOK'
  BY FaultsBound, EmptyFacts DEF TypeOK
<1>2. PlacesOK'
  <2>1. \A d \in Clients : Ungranted(d) => Ungranted(d)'
    BY ClassesAssumption DEF TypeOK, Ungranted
  <2> QED
    BY <2>1, PlacesKept
<1>3. CommandsOK'
  BY EmptyFacts, MemberFacts DEF TypeOK, CommandsOK
<1>4. PermitOK'
  BY EmptyFacts, MemberFacts DEF TypeOK, PermitOK, Pending, CommandsOK, PhaseOK
<1>5. PhaseOK'
  BY ClassesAssumption DEF TypeOK, PhaseOK
<1>6. AnsweredNeverStarts'
  BY MemberFacts
     DEF TypeOK, AnsweredNeverStarts, PermitOK,
         Pending, PlacesOK, Ungranted, PhaseOK
<1> QED
  BY <1>1, <1>2, <1>3, <1>4, <1>5, <1>6

(* Of what may start, only the active command still has its flag.          *)
LEMMA ExecutorStartsKeeps ==
  ASSUME AdmissionInv, NEW c \in Clients, ExecutorStarts(c)
  PROVE  AdmissionInv'
<1> USE DEF AdmissionInv, ExecutorStarts, schedVars, callVars, execVars,
            ownerVars
<1>1. TypeOK'
  BY FaultsBound, EmptyFacts DEF TypeOK
<1>2. PlacesOK'
  <2>1. \A d \in Clients : Ungranted(d) => Ungranted(d)'
    BY ClassesAssumption DEF TypeOK, Ungranted
  <2> QED
    BY <2>1, PlacesKept
<1>3. CommandsOK'
  BY EmptyFacts, MemberFacts DEF TypeOK, CommandsOK
<1>4. PermitOK'
  BY EmptyFacts, MemberFacts DEF TypeOK, PermitOK, Pending, CommandsOK, PhaseOK
<1>5. PhaseOK'
  BY ClassesAssumption DEF TypeOK, PhaseOK
<1>6. AnsweredNeverStarts'
  BY MemberFacts
     DEF TypeOK, AnsweredNeverStarts, PermitOK,
         Pending, PlacesOK, Ungranted, PhaseOK
<1> QED
  BY <1>1, <1>2, <1>3, <1>4, <1>5, <1>6

(* A command that lost its flag leaves.                                    *)
LEMMA ExecutorDeclinesKeeps ==
  ASSUME AdmissionInv, NEW c \in Clients, ExecutorDeclines(c)
  PROVE  AdmissionInv'
<1> USE DEF AdmissionInv, ExecutorDeclines, schedVars, callVars, execVars,
            ownerVars
<1>1. TypeOK'
  BY FaultsBound, EmptyFacts DEF TypeOK
<1>2. PlacesOK'
  <2>1. \A d \in Clients : Ungranted(d) => Ungranted(d)'
    BY ClassesAssumption DEF TypeOK, Ungranted
  <2> QED
    BY <2>1, PlacesKept
<1>3. CommandsOK'
  BY EmptyFacts, MemberFacts DEF TypeOK, CommandsOK
<1>4. PermitOK'
  BY EmptyFacts, MemberFacts DEF TypeOK, PermitOK, Pending, CommandsOK, PhaseOK
<1>5. PhaseOK'
  BY ClassesAssumption DEF TypeOK, PhaseOK
<1>6. AnsweredNeverStarts'
  BY MemberFacts
     DEF TypeOK, AnsweredNeverStarts, PermitOK,
         Pending, PlacesOK, Ungranted, PhaseOK
<1> QED
  BY <1>1, <1>2, <1>3, <1>4, <1>5, <1>6

(* The command goes to the owner, or returns without getting there.        *)
LEMMA ExecutorCallsKeeps ==
  ASSUME AdmissionInv, NEW c \in Clients, ExecutorCalls(c)
  PROVE  AdmissionInv'
<1> USE DEF AdmissionInv, ExecutorCalls, schedVars, callVars, execVars,
            ownerVars
<1>a. /\ Append(mailbox, c) \in Seq(Clients)
      /\ ToSet(Append(mailbox, c)) = ToSet(mailbox) \cup {c}
      /\ NoRepeats(Append(mailbox, c))
  BY AppendFacts DEF TypeOK, CommandsOK
<1>1. TypeOK'
  BY <1>a DEF TypeOK
<1>2. PlacesOK'
  <2>1. \A d \in Clients : Ungranted(d) => Ungranted(d)'
    BY <1>a DEF TypeOK, Ungranted
  <2> QED
    BY <2>1, PlacesKept
<1>3. CommandsOK'
  <2>1. CASE exec' = [exec EXCEPT ![c] = "called"] /\ mailbox' = Append(mailbox, c)
    BY <1>a, <2>1 DEF TypeOK, CommandsOK
  <2>2. CASE exec' = [exec EXCEPT ![c] = "returned"] /\ mailbox' = mailbox
    <3>1. c \notin ToSet(mailbox) /\ flag[c] = "started" /\ flag' = flag /\ late' = late
      BY DEF CommandsOK
    <3> QED
      BY <2>2, <3>1 DEF TypeOK, CommandsOK
  <2> QED
    BY <2>1, <2>2
<1>4. PermitOK'
  <2>1. \A d \in Clients : Pending(d)' => Pending(d)
    BY <1>a DEF TypeOK, Pending
  <2> QED
    BY <2>1 DEF PermitOK
<1>5. PhaseOK'
  BY ClassesAssumption DEF TypeOK, PhaseOK
<1>6. AnsweredNeverStarts'
  BY MemberFacts
     DEF TypeOK, AnsweredNeverStarts, PermitOK,
         Pending, PlacesOK, Ungranted, PhaseOK
<1> QED
  BY <1>1, <1>2, <1>3, <1>4, <1>5, <1>6

(* The first command leaves the mailbox.                                   *)
LEMMA OwnerFinishesKeeps ==
  ASSUME AdmissionInv, OwnerFinishes
  PROVE  AdmissionInv'
<1> USE DEF AdmissionInv, OwnerFinishes, schedVars, callVars, execVars,
            ownerVars
<1> DEFINE c == Head(mailbox)
<1>a. /\ Tail(mailbox) \in Seq(Clients) /\ c \in ToSet(mailbox)
      /\ ToSet(mailbox) = ToSet(Tail(mailbox)) \cup {c}
      /\ NoRepeats(Tail(mailbox)) /\ c \notin ToSet(Tail(mailbox))
  BY TailFacts DEF TypeOK, CommandsOK
<1>b. c \in Clients
  BY <1>a, MemberFacts DEF TypeOK
<1>c. /\ mailbox' = Tail(mailbox) /\ late' = late \ {c}
      /\ exec' = IF c \in late \/ exec[c] # "called" THEN exec
                 ELSE [exec EXCEPT ![c] = "returned"]
  OBVIOUS
<1> HIDE DEF c
<1>1. TypeOK'
  BY <1>a, <1>b, <1>c DEF TypeOK
<1>2. PlacesOK'
  <2>1. \A d \in Clients : Ungranted(d) => Ungranted(d)'
    BY <1>a, <1>b, <1>c DEF TypeOK, Ungranted
  <2> QED
    BY <2>1, PlacesKept
<1>3. CommandsOK'
  BY <1>a, <1>b, <1>c DEF TypeOK, CommandsOK
<1>4. PermitOK'
  <2>1. \A d \in Clients : Pending(d)' => Pending(d)
    BY <1>a, <1>b, <1>c DEF TypeOK, Pending
  <2> QED
    BY <2>1 DEF PermitOK
<1>5. PhaseOK'
  BY ClassesAssumption DEF TypeOK, PhaseOK
<1>6. AnsweredNeverStarts'
  BY MemberFacts
     DEF TypeOK, AnsweredNeverStarts, PermitOK,
         Pending, PlacesOK, Ungranted, PhaseOK
<1> QED
  BY <1>1, <1>2, <1>3, <1>4, <1>5, <1>6

(* The command stays at the owner, and nobody waits for it.                *)
LEMMA OwnerCallTimesOutKeeps ==
  ASSUME AdmissionInv, NEW c \in Clients, OwnerCallTimesOut(c)
  PROVE  AdmissionInv'
<1> USE DEF AdmissionInv, OwnerCallTimesOut, schedVars, callVars, execVars,
            ownerVars
<1>1. TypeOK'
  BY FaultsBound, EmptyFacts DEF TypeOK
<1>2. PlacesOK'
  <2>1. \A d \in Clients : Ungranted(d) => Ungranted(d)'
    BY ClassesAssumption DEF TypeOK, Ungranted
  <2> QED
    BY <2>1, PlacesKept
<1>3. CommandsOK'
  BY EmptyFacts, MemberFacts DEF TypeOK, CommandsOK
<1>4. PermitOK'
  BY EmptyFacts, MemberFacts DEF TypeOK, PermitOK, Pending, CommandsOK, PhaseOK
<1>5. PhaseOK'
  BY ClassesAssumption DEF TypeOK, PhaseOK
<1>6. AnsweredNeverStarts'
  BY MemberFacts
     DEF TypeOK, AnsweredNeverStarts, PermitOK,
         Pending, PlacesOK, Ungranted, PhaseOK
<1> QED
  BY <1>1, <1>2, <1>3, <1>4, <1>5, <1>6

(* The flag of a command that returned was won long ago.                   *)
LEMMA ExecutorRepliesKeeps ==
  ASSUME AdmissionInv, NEW c \in Clients, ExecutorReplies(c)
  PROVE  AdmissionInv'
<1> USE DEF AdmissionInv, ExecutorReplies, Answered, schedVars, callVars,
            execVars, ownerVars
<1>1. TypeOK'
  BY FaultsBound, EmptyFacts DEF TypeOK
<1>2. PlacesOK'
  <2>1. \A d \in Clients : Ungranted(d) => Ungranted(d)'
    BY ClassesAssumption DEF TypeOK, Ungranted
  <2> QED
    BY <2>1, PlacesKept
<1>3. CommandsOK'
  BY EmptyFacts, MemberFacts DEF TypeOK, CommandsOK
<1>4. PermitOK'
  BY EmptyFacts, MemberFacts DEF TypeOK, PermitOK, Pending, CommandsOK, PhaseOK
<1>5. PhaseOK'
  BY ClassesAssumption DEF TypeOK, PhaseOK
<1>6. AnsweredNeverStarts'
  BY MemberFacts
     DEF TypeOK, AnsweredNeverStarts, PermitOK,
         Pending, PlacesOK, Ungranted, PhaseOK
<1> QED
  BY <1>1, <1>2, <1>3, <1>4, <1>5, <1>6

(* What its command did stays in the flag and the mailbox.                 *)
LEMMA ExecutorDiesKeeps ==
  ASSUME AdmissionInv, NEW c \in Clients, ExecutorDies(c)
  PROVE  AdmissionInv'
<1> USE DEF AdmissionInv, ExecutorDies, schedVars, callVars, execVars,
            ownerVars
<1>1. TypeOK'
  BY FaultsBound, EmptyFacts DEF TypeOK
<1>2. PlacesOK'
  <2>1. \A d \in Clients : Ungranted(d) => Ungranted(d)'
    BY ClassesAssumption DEF TypeOK, Ungranted
  <2> QED
    BY <2>1, PlacesKept
<1>3. CommandsOK'
  BY EmptyFacts, MemberFacts DEF TypeOK, CommandsOK
<1>4. PermitOK'
  BY EmptyFacts, MemberFacts DEF TypeOK, PermitOK, Pending, CommandsOK, PhaseOK
<1>5. PhaseOK'
  BY ClassesAssumption DEF TypeOK, PhaseOK
<1>6. AnsweredNeverStarts'
  BY MemberFacts
     DEF TypeOK, AnsweredNeverStarts, PermitOK,
         Pending, PlacesOK, Ungranted, PhaseOK
<1> QED
  BY <1>1, <1>2, <1>3, <1>4, <1>5, <1>6

(* Nothing is granted any more; at most one command stays pending.         *)
LEMMA SchedulerDiesKeeps ==
  ASSUME AdmissionInv, SchedulerDies
  PROVE  AdmissionInv'
<1> USE DEF AdmissionInv, SchedulerDies, schedVars, callVars, execVars,
            ownerVars
<1>1. TypeOK'
  <2>1. cursor' \in 0..Len(Schedule) - 1
    BY CursorBounds
  <2>2. queue' \in [Classes -> Seq(Clients)] /\ passed' \in [Classes -> Nat]
    BY EmptyFacts
  <2>3. faults' \in 0..MaxFaults
    BY FaultsBound DEF TypeOK
  <2> QED
    BY <2>1, <2>2, <2>3 DEF TypeOK
<1>2. PlacesOK'
  BY ClassesAssumption, MemberFacts, EmptyFacts
     DEF TypeOK, PlacesOK, Ungranted, PhaseOK
<1>3. CommandsOK'
  BY EmptyFacts, MemberFacts DEF TypeOK, CommandsOK
<1>4. PermitOK'
  BY EmptyFacts, MemberFacts DEF TypeOK, PermitOK, Pending, CommandsOK, PhaseOK
<1>5. PhaseOK'
  BY ClassesAssumption DEF TypeOK, PhaseOK
<1>6. AnsweredNeverStarts'
  BY MemberFacts
     DEF TypeOK, AnsweredNeverStarts, PermitOK,
         Pending, PlacesOK, Ungranted, PhaseOK
<1> QED
  BY <1>1, <1>2, <1>3, <1>4, <1>5, <1>6

(* Nothing is left at the owner; its executor returns.                     *)
LEMMA OwnerDiesKeeps ==
  ASSUME AdmissionInv, OwnerDies
  PROVE  AdmissionInv'
<1> USE DEF AdmissionInv, OwnerDies, schedVars, callVars, execVars, ownerVars
<1>1. TypeOK'
  BY FaultsBound, EmptyFacts DEF TypeOK
<1>2. PlacesOK'
  <2>1. \A d \in Clients : Ungranted(d) => Ungranted(d)'
    BY EmptyFacts DEF TypeOK, Ungranted
  <2> QED
    BY <2>1, PlacesKept
<1>3. CommandsOK'
  BY EmptyFacts, MemberFacts DEF TypeOK, CommandsOK
<1>4. PermitOK'
  BY EmptyFacts, MemberFacts DEF TypeOK, PermitOK, Pending, CommandsOK, PhaseOK
<1>5. PhaseOK'
  BY ClassesAssumption DEF TypeOK, PhaseOK
<1>6. AnsweredNeverStarts'
  BY MemberFacts
     DEF TypeOK, AnsweredNeverStarts, PermitOK,
         Pending, PlacesOK, Ungranted, PhaseOK
<1> QED
  BY <1>1, <1>2, <1>3, <1>4, <1>5, <1>6

(* The executors are stopped; the mailbox may still hold their command.    *)
LEMMA RestartKeeps ==
  ASSUME AdmissionInv, Restart
  PROVE  AdmissionInv'
<1> USE DEF AdmissionInv, Restart, schedVars, callVars, execVars, ownerVars
<1>1. TypeOK'
  BY FaultsBound, EmptyFacts DEF TypeOK
<1>2. PlacesOK'
  <2>1. \A d \in Clients : Ungranted(d) => Ungranted(d)'
    BY ClassesAssumption DEF TypeOK, Ungranted
  <2> QED
    BY <2>1, PlacesKept
<1>3. CommandsOK'
  BY EmptyFacts, MemberFacts DEF TypeOK, CommandsOK
<1>4. PermitOK'
  BY EmptyFacts, MemberFacts DEF TypeOK, PermitOK, Pending, CommandsOK, PhaseOK
<1>5. PhaseOK'
  BY ClassesAssumption DEF TypeOK, PhaseOK
<1>6. AnsweredNeverStarts'
  BY MemberFacts
     DEF TypeOK, AnsweredNeverStarts, PermitOK,
         Pending, PlacesOK, Ungranted, PhaseOK
<1> QED
  BY <1>1, <1>2, <1>3, <1>4, <1>5, <1>6

(* The owner has answered, so nothing is pending.                          *)
LEMMA StartServingKeeps ==
  ASSUME AdmissionInv, StartServing
  PROVE  AdmissionInv'
<1> USE DEF AdmissionInv, StartServing, schedVars, callVars, execVars,
            ownerVars
<1>1. TypeOK'
  BY FaultsBound, EmptyFacts DEF TypeOK
<1>2. PlacesOK'
  <2>1. \A d \in Clients : Ungranted(d) => Ungranted(d)'
    BY ClassesAssumption DEF TypeOK, Ungranted
  <2> QED
    BY <2>1, PlacesKept
<1>3. CommandsOK'
  BY EmptyFacts, MemberFacts DEF TypeOK, CommandsOK
<1>4. PermitOK'
  BY EmptyFacts, MemberFacts DEF TypeOK, PermitOK, Pending, CommandsOK, PhaseOK
<1>5. PhaseOK'
  BY ClassesAssumption DEF TypeOK, PhaseOK
<1>6. AnsweredNeverStarts'
  BY MemberFacts
     DEF TypeOK, AnsweredNeverStarts, PermitOK,
         Pending, PlacesOK, Ungranted, PhaseOK
<1> QED
  BY <1>1, <1>2, <1>3, <1>4, <1>5, <1>6

(* The queues are emptied and their callers answered.                      *)
LEMMA BeginCloseKeeps ==
  ASSUME AdmissionInv, BeginClose
  PROVE  AdmissionInv'
<1> USE DEF AdmissionInv, BeginClose, Answered, Waiters, schedVars, callVars,
            execVars, ownerVars
<1>1. TypeOK'
  BY FaultsBound, EmptyFacts DEF TypeOK
<1>2. PlacesOK'
  BY ClassesAssumption, MemberFacts, EmptyFacts
     DEF TypeOK, PlacesOK, Ungranted, PhaseOK
<1>3. CommandsOK'
  BY EmptyFacts, MemberFacts DEF TypeOK, CommandsOK
<1>4. PermitOK'
  BY EmptyFacts, MemberFacts DEF TypeOK, PermitOK, Pending, CommandsOK, PhaseOK
<1>5. PhaseOK'
  BY ClassesAssumption DEF TypeOK, PhaseOK
<1>6. AnsweredNeverStarts'
  BY MemberFacts
     DEF TypeOK, AnsweredNeverStarts, PermitOK,
         Pending, PlacesOK, Ungranted, PhaseOK
<1> QED
  BY <1>1, <1>2, <1>3, <1>4, <1>5, <1>6

(* Only the close's own state changes.                                     *)
LEMMA AwaitIdleKeeps ==
  ASSUME AdmissionInv, AwaitIdle
  PROVE  AdmissionInv'
<1> USE DEF AdmissionInv, AwaitIdle, schedVars, callVars, execVars, ownerVars
<1>1. TypeOK'
  BY FaultsBound, EmptyFacts DEF TypeOK
<1>2. PlacesOK'
  <2>1. \A d \in Clients : Ungranted(d) => Ungranted(d)'
    BY ClassesAssumption DEF TypeOK, Ungranted
  <2> QED
    BY <2>1, PlacesKept
<1>3. CommandsOK'
  BY EmptyFacts, MemberFacts DEF TypeOK, CommandsOK
<1>4. PermitOK'
  BY EmptyFacts, MemberFacts DEF TypeOK, PermitOK, Pending, CommandsOK, PhaseOK
<1>5. PhaseOK'
  BY ClassesAssumption DEF TypeOK, PhaseOK
<1>6. AnsweredNeverStarts'
  BY MemberFacts
     DEF TypeOK, AnsweredNeverStarts, PermitOK,
         Pending, PlacesOK, Ungranted, PhaseOK
<1> QED
  BY <1>1, <1>2, <1>3, <1>4, <1>5, <1>6

(* Only the close's own state changes.                                     *)
LEMMA CancelCloseKeeps ==
  ASSUME AdmissionInv, CancelClose
  PROVE  AdmissionInv'
<1> USE DEF AdmissionInv, CancelClose, schedVars, callVars, execVars, ownerVars
<1>1. TypeOK'
  BY FaultsBound, EmptyFacts DEF TypeOK
<1>2. PlacesOK'
  <2>1. \A d \in Clients : Ungranted(d) => Ungranted(d)'
    BY ClassesAssumption DEF TypeOK, Ungranted
  <2> QED
    BY <2>1, PlacesKept
<1>3. CommandsOK'
  BY EmptyFacts, MemberFacts DEF TypeOK, CommandsOK
<1>4. PermitOK'
  BY EmptyFacts, MemberFacts DEF TypeOK, PermitOK, Pending, CommandsOK, PhaseOK
<1>5. PhaseOK'
  BY ClassesAssumption DEF TypeOK, PhaseOK
<1>6. AnsweredNeverStarts'
  BY MemberFacts
     DEF TypeOK, AnsweredNeverStarts, PermitOK,
         Pending, PlacesOK, Ungranted, PhaseOK
<1> QED
  BY <1>1, <1>2, <1>3, <1>4, <1>5, <1>6

-----------------------------------------------------------------------------
(* The invariant of the specification.                                     *)

(* It holds when the scheduler has started serving and nobody has asked.   *)
LEMMA InitEstablishes == Init => AdmissionInv
<1> SUFFICES ASSUME Init PROVE AdmissionInv
  OBVIOUS
<1> USE DEF Init
<1>1. TypeOK
  BY CursorBounds, EmptyFacts, FaultsBound DEF TypeOK
<1>2. PlacesOK
  BY EmptyFacts DEF PlacesOK
<1>3. CommandsOK
  BY EmptyFacts DEF CommandsOK
<1>4. PermitOK
  BY EmptyFacts DEF PermitOK, Pending
<1>5. PhaseOK
  BY DEF PhaseOK
<1>6. AnsweredNeverStarts
  BY DEF AnsweredNeverStarts
<1> QED
  BY <1>1, <1>2, <1>3, <1>4, <1>5, <1>6 DEF AdmissionInv

(* It is about the present state alone.                                    *)
LEMMA StutteringKeeps == AdmissionInv /\ UNCHANGED vars => AdmissionInv'
<1> SUFFICES ASSUME AdmissionInv, UNCHANGED vars PROVE AdmissionInv'
  OBVIOUS
<1> USE DEF AdmissionInv, vars, schedVars, callVars, execVars, ownerVars
<1>1. TypeOK'
  BY DEF TypeOK
<1>2. PlacesOK'
  BY DEF PlacesOK, Ungranted
<1>3. CommandsOK'
  BY DEF CommandsOK
<1>4. PermitOK'
  BY DEF PermitOK, Pending
<1>5. PhaseOK'
  BY DEF PhaseOK
<1>6. AnsweredNeverStarts'
  BY DEF AnsweredNeverStarts
<1> QED
  BY <1>1, <1>2, <1>3, <1>4, <1>5, <1>6

(* Every step keeps it: one case for each action of a client, and one for  *)
(* each of the others.                                                     *)
LEMMA NextKeeps == AdmissionInv /\ [Next]_vars => AdmissionInv'
<1> SUFFICES ASSUME AdmissionInv, [Next]_vars PROVE AdmissionInv'
  OBVIOUS
<1>1. ASSUME NEW c \in Clients, ClientNext(c) PROVE AdmissionInv'
  BY <1>1, IssueKeeps, DeadlinePassesKeeps, CallerTimesOutKeeps,
     CallerDiesKeeps
     DEF ClientNext
<1>2. ASSUME NEW c \in Clients, HandlerNext(c) PROVE AdmissionInv'
  <2>1. CASE Acquire(c)
    BY <2>1, AcquireKeeps
  <2>2. CASE Cancel(c)
    BY <2>2, AbandonKeeps DEF Cancel
  <2>3. CASE CallerDown(c)
    BY <2>3, AbandonKeeps DEF CallerDown
  <2>4. CASE Done(c)
    BY <2>4, DoneKeeps
  <2>5. CASE ExecutorDown(c)
    BY <2>5, ExecutorDownKeeps
  <2> QED
    BY <1>2, <2>1, <2>2, <2>3, <2>4, <2>5 DEF HandlerNext
<1>3. ASSUME NEW c \in Clients, ExecutorNext(c) PROVE AdmissionInv'
  BY <1>3, ExecutorStartsKeeps, ExecutorDeclinesKeeps, ExecutorCallsKeeps,
     ExecutorRepliesKeeps DEF ExecutorNext
<1>4. ASSUME NEW c \in Clients, OwnerCallTimesOut(c) \/ ExecutorDies(c)
      PROVE  AdmissionInv'
  BY <1>4, OwnerCallTimesOutKeeps, ExecutorDiesKeeps
<1>5. CASE SchedulerNext
  BY <1>5, GrantKeeps, DrainStartsKeeps, DrainEndsKeeps, RestartKeeps,
     StartServingKeeps DEF SchedulerNext
<1>6. CASE DrainFails \/ OwnerFinishes \/ SchedulerDies \/ OwnerDies
  BY <1>6, DrainFailsKeeps, OwnerFinishesKeeps, SchedulerDiesKeeps,
     OwnerDiesKeeps
<1>7. CASE BeginClose \/ AwaitIdle \/ CancelClose
  BY <1>7, BeginCloseKeeps, AwaitIdleKeeps, CancelCloseKeeps
<1>8. CASE UNCHANGED vars
  BY <1>8, StutteringKeeps
<1> QED
  BY <1>1, <1>2, <1>3, <1>4, <1>5, <1>6, <1>7, <1>8 DEF Next

(* The inductive invariant of admission: a client's command is in one      *)
(* place, the flag, the executor and the mailbox agree on what started,    *)
(* and while the scheduler lives nothing but the active command is pending. *)
THEOREM AdmissionInvariant == Spec => []AdmissionInv
  BY InitEstablishes, NextKeeps, PTL DEF Spec

(* Every variable of admission keeps its type, whatever is withdrawn,      *)
(* times out or dies: the cursor indexes the schedule, and the queues hold *)
(* clients.                                                                *)
THEOREM AdmissionTypes == Spec => []TypeOK
<1>1. AdmissionInv => TypeOK
  BY DEF AdmissionInv
<1> QED
  BY <1>1, AdmissionInvariant, PTL

(* One permit is one command at the owner: through cancellations of what   *)
(* has started, deaths of executors, drains and restarts, the owner never  *)
(* holds two commands that an executor may still be waiting for.           *)
THEOREM OwnerExclusive == Spec => []OneAtOwner
<1>1. AdmissionInv => OneAtOwner
  <2> SUFFICES ASSUME AdmissionInv, NEW c \in ToSet(mailbox) \ late,
                      NEW d \in ToSet(mailbox) \ late
               PROVE  c = d
    BY DEF OneAtOwner
  <2>1. c \in Clients /\ d \in Clients
    BY MemberFacts DEF AdmissionInv, TypeOK
  <2>2. Pending(c) /\ Pending(d)
    BY DEF Pending
  <2> QED
    BY <2>1, <2>2 DEF AdmissionInv, PermitOK
<1> QED
  BY <1>1, AdmissionInvariant, PTL

(* The race on the start flag has one winner: while the scheduler lives, a *)
(* caller that was told its command is cancelled, crashed or could not be  *)
(* started will not see it start.                                          *)
THEOREM NoLateStart == Spec => []AnsweredNeverStarts
<1>1. AdmissionInv => AnsweredNeverStarts
  BY DEF AdmissionInv
<1> QED
  BY <1>1, AdmissionInvariant, PTL

-----------------------------------------------------------------------------
(* The close.                                                              *)

(* While the database closes its scheduler lives, nothing is queued, and a *)
(* close that was told of idleness finds no permit in use: a scheduler     *)
(* that dies forgets the close.                                            *)
ClosingOK ==
  closing =>
    /\ phase \in {"serving", "granting"}
    /\ \A k \in Classes : queue[k] = <<>>
    /\ closer = "drained" => active = None

(* The steps of a scheduler that closes: no waiter is added or granted.    *)
LEMMA HandlersCloseOK ==
  ASSUME ClosingOK, NEW c \in Clients, HandlerNext(c)
  PROVE  ClosingOK'
<1> SUFFICES ASSUME closing PROVE ClosingOK'
  <2>1. closing' = closing
    BY DEF HandlerNext, Acquire, Cancel, CallerDown, Abandon, Done, ExecutorDown
  <2> QED
    BY <2>1 DEF ClosingOK
<1>1. /\ \A k \in Classes : queue[k] = <<>>
      /\ closer = "drained" => active = None
  BY DEF ClosingOK
<1>2. ClassOf[c] \in Classes
  BY ClassesAssumption
<1>3. queue' = queue /\ phase' \in {"serving", "granting"}
      /\ (closer' = "drained" => active' = None)
  <2>1. CASE Acquire(c)
    BY <1>1, <2>1 DEF Acquire, Refuses, ClosingOK
  <2>2. CASE Abandon(c)
    BY <1>1, <1>2, <2>2 DEF Abandon, GrantLoop, ClearActive, KeepActive
  <2>3. CASE Done(c)
    BY <1>1, <2>3 DEF Done, GrantLoop, ClearActive
  <2>4. CASE ExecutorDown(c)
    BY <1>1, <2>4 DEF ExecutorDown, GrantLoop, ClearActive
  <2> QED
    BY <2>1, <2>2, <2>3, <2>4 DEF HandlerNext, Cancel, CallerDown
<1> QED
  BY <1>1, <1>3 DEF ClosingOK

(* What the others do: only a death ends the scheduler's life, and it ends *)
(* the close with it.                                                      *)
LEMMA OthersCloseOK ==
  ASSUME ClosingOK,
         \/ \E c \in Clients : ClientNext(c) \/ ExecutorNext(c)
                               \/ OwnerCallTimesOut(c) \/ ExecutorDies(c)
         \/ SchedulerNext \/ DrainFails \/ OwnerFinishes \/ SchedulerDies \/ OwnerDies
  PROVE  ClosingOK'
<1>1. CASE \E c \in Clients : ClientNext(c) \/ ExecutorNext(c)
                              \/ OwnerCallTimesOut(c) \/ ExecutorDies(c)
  <2>1. UNCHANGED <<schedVars, closer>>
    BY <1>1 DEF ClientNext, Issue, DeadlinePasses, CallerTimesOut, CallerDies,
                ExecutorNext, ExecutorStarts, ExecutorDeclines, ExecutorCalls,
                ExecutorReplies, OwnerCallTimesOut, ExecutorDies, schedVars
  <2> QED
    BY <2>1 DEF ClosingOK, schedVars
<1>2. CASE Grant
  <2>1. PICK slot \in 0..Len(Schedule) - 1 : queue[Schedule[slot + 1]] # <<>>
    BY <1>2 DEF Grant, ScanStopsAt
  <2>2. ~closing
    BY <2>1, CursorBounds DEF ClosingOK
  <2>3. closing' = closing
    BY <1>2 DEF Grant
  <2> QED
    BY <2>2, <2>3 DEF ClosingOK
<1>3. CASE DrainStarts \/ DrainFails \/ OwnerFinishes \/ OwnerDies
  <2>1. UNCHANGED <<phase, closing, active, queue, closer>>
    BY <1>3 DEF DrainStarts, DrainFails, OwnerFinishes, OwnerDies, schedVars
  <2> QED
    BY <2>1 DEF ClosingOK
<1>4. CASE DrainEnds
  BY <1>4 DEF DrainEnds, GrantLoop, ClearActive, ClosingOK
<1>5. CASE Restart
  BY <1>5 DEF Restart, ClosingOK
<1>6. CASE StartServing
  BY <1>6 DEF StartServing, ClosingOK
<1>7. CASE SchedulerDies
  BY <1>7 DEF SchedulerDies, ClosingOK
<1> QED
  BY <1>1, <1>2, <1>3, <1>4, <1>5, <1>6, <1>7 DEF SchedulerNext

(* The close of admission, through every step.                             *)
LEMMA CloseKeeps == ClosingOK /\ [Next]_vars => ClosingOK'
<1> SUFFICES ASSUME ClosingOK, [Next]_vars PROVE ClosingOK'
  OBVIOUS
<1>1. ASSUME NEW c \in Clients, HandlerNext(c) PROVE ClosingOK'
  BY <1>1, HandlersCloseOK
<1>2. CASE \/ \E c \in Clients : ClientNext(c) \/ ExecutorNext(c)
                                 \/ OwnerCallTimesOut(c) \/ ExecutorDies(c)
           \/ SchedulerNext \/ DrainFails \/ OwnerFinishes \/ SchedulerDies \/ OwnerDies
  BY <1>2, OthersCloseOK
<1>3. CASE BeginClose
  BY <1>3 DEF BeginClose, ClosingOK
<1>4. CASE AwaitIdle
  BY <1>4 DEF AwaitIdle, ClosingOK, schedVars
<1>5. CASE CancelClose
  BY <1>5 DEF CancelClose, ClosingOK
<1>6. CASE UNCHANGED vars
  BY <1>6 DEF vars, schedVars, ClosingOK
<1> QED
  BY <1>1, <1>2, <1>3, <1>4, <1>5, <1>6 DEF Next

(* A close that was told of idleness can shut the owner down: nothing is   *)
(* admitted or queued any more, and what is still at the owner is waited   *)
(* for by nobody (begin_close, await_idle, notify_idle).                   *)
THEOREM DrainIsOver == Spec => []DrainedIsIdle
<1>1. Init => ClosingOK
  BY DEF Init, ClosingOK
<1>2. AdmissionInv /\ ClosingOK => DrainedIsIdle
  <2> SUFFICES ASSUME AdmissionInv, ClosingOK, closing, closer = "drained"
               PROVE  active = None /\ Waiters = {} /\ ToSet(mailbox) \subseteq late
    BY DEF DrainedIsIdle
  <2>1. active = None /\ phase \in {"serving", "granting"}
    BY DEF ClosingOK
  <2>2. Waiters = {}
    BY EmptyFacts DEF ClosingOK, Waiters
  <2>3. ToSet(mailbox) \subseteq Clients
    BY MemberFacts DEF AdmissionInv, TypeOK
  <2>4. \A c \in Clients : ~Pending(c)
    BY <2>1, ClassesAssumption DEF AdmissionInv, PermitOK
  <2>5. ToSet(mailbox) \subseteq late
    BY <2>3, <2>4 DEF Pending
  <2> QED
    BY <2>1, <2>2, <2>5
<1> QED
  BY <1>1, <1>2, CloseKeeps, AdmissionInvariant, PTL DEF Spec

-----------------------------------------------------------------------------
(* The reservations.                                                       *)

(* What a class has of the limit: its reservation, or what it occupies.    *)
Held == [k \in Classes |-> IF Reserved[k] > Occupancy[k]
                           THEN Reserved[k] ELSE Occupancy[k]]

(* No class occupies more after a step than before.                        *)
NoneAdmitted == \A k \in Classes : Occupancy'[k] <= Occupancy[k]

(* There are finitely many classes, and a sum over them is the sum that    *)
(* the lemmas are about.                                                   *)
LEMMA ClassSums ==
  /\ IsFiniteSet(Classes)
  /\ \A f : Sum(f) = Total(f, Classes)
<1>1. /\ Len(ClassOrder) \in Nat /\ ClassOrder \in [1..Len(ClassOrder) -> Classes]
      /\ \A k \in Classes : \E i \in 1..Len(ClassOrder) : ClassOrder[i] = k
  BY ClassesAssumption DEF Classes, ToSet
<1>2. ClassOrder \in Surjection(1..Len(ClassOrder), Classes)
  BY <1>1 DEF Surjection
<1>3. IsFiniteSet(1..Len(ClassOrder))
  BY <1>1, FS_Interval
<1>4. IsFiniteSet(Classes)
  BY <1>2, <1>3, FS_Surjection
<1>5. \A f : Sum(f) = Total(f, Classes)
  BY Zenon DEF Sum, Total
<1> QED
  BY <1>4, <1>5

(* The permit, as a part of a class's occupancy.                           *)
Permit(k) == IF active # None /\ ClassOf[active] = k THEN 1 ELSE 0

(* What occupies a class: its queue and its permit.                        *)
LEMMA OccupancyAt ==
  \A k \in Classes : Occupancy[k] = Len(queue[k]) + Permit(k) /\ Permit(k) \in {0, 1}
<1>1. \A k \in Classes : Occupancy[k] = Len(queue[k]) + Permit(k)
  BY Zenon DEF Occupancy, Permit
<1>2. \A k \in Classes : Permit(k) \in {0, 1}
  BY DEF Permit
<1> QED
  BY <1>1, <1>2

(* After a step too.                                                       *)
LEMMA OccupancyNext ==
  \A k \in Classes :
    Occupancy'[k] = Len(queue'[k]) + Permit(k)' /\ Permit(k)' \in {0, 1}
<1>1. \A k \in Classes : Occupancy'[k] = Len(queue'[k]) + Permit(k)'
  BY Zenon DEF Occupancy, Permit
<1>2. \A k \in Classes : Permit(k)' \in {0, 1}
  BY DEF Permit
<1> QED
  BY <1>1, <1>2

(* What a class occupies, and so what it has, is a number.                 *)
NumbersOK ==
  \A k \in Classes : Occupancy[k] \in Nat /\ Held[k] \in Nat /\ Reserved[k] \in Nat

(* The numbers of the policy and of the occupancy.                         *)
LEMMA OccupancyType == TypeOK => NumbersOK
<1> SUFFICES ASSUME TypeOK PROVE NumbersOK
  OBVIOUS
<1>1. \A k \in Classes : Len(queue[k]) \in Nat
  BY DEF TypeOK
<1>2. \A k \in Classes : Occupancy[k] \in Nat
  BY <1>1, OccupancyAt
<1> QED
  BY <1>2, PolicyAssumption DEF Held, NumbersOK

(* When no class occupies more, the reservations are kept.                 *)
LEMMA ReservationsStay ==
  ASSUME TypeOK, TypeOK', ReservationsKept, NoneAdmitted
  PROVE  ReservationsKept'
<1>1. \A k \in Classes : /\ Held[k] \in Nat /\ Held'[k] \in Nat
                         /\ Held'[k] <= Held[k]
  <2>1. \A k \in Classes : /\ Occupancy[k] \in Nat /\ Occupancy'[k] \in Nat
                           /\ Reserved[k] \in Nat
    <3>1. NumbersOK /\ NumbersOK'
      BY OccupancyType, PTL
    <3> QED BY <3>1 DEF NumbersOK
  <2> QED
    BY <2>1 DEF Held, NoneAdmitted
<1>2. Total(Held', Classes) <= Total(Held, Classes)
  BY <1>1, ClassSums, TotalMonotone
<1>3. Total(Held, Classes) \in Nat /\ Total(Held', Classes) \in Nat
  BY <1>1, ClassSums, TotalType
<1>4. Total(Held, Classes) <= Limit
  BY ClassSums DEF ReservationsKept, Held
<1>5. Total(Held', Classes) <= Limit
  BY <1>2, <1>3, <1>4, PolicyAssumption
<1> QED
  BY <1>5, ClassSums DEF ReservationsKept, Held

(* AdmissionCapacity.accepts?: one more of a class that was accepted fits  *)
(* beside what the others have.                                            *)
LEMMA AcceptedFits ==
  ASSUME TypeOK, TypeOK', ReservationsKept, NEW c \in Classes, Accepts(c),
         \A k \in Classes :
           Occupancy'[k] = IF k = c THEN Occupancy[k] + 1 ELSE Occupancy[k]
  PROVE  ReservationsKept'
<1> DEFINE unused == [k \in Classes |->
              IF k # c /\ Reserved[k] > Occupancy[k]
              THEN Reserved[k] - Occupancy[k] ELSE 0]
           both == [k \in Classes |-> Occupancy[k] + unused[k]]
<1>1. \A k \in Classes :
        /\ Occupancy[k] \in Nat /\ Occupancy'[k] \in Nat /\ Reserved[k] \in Nat
        /\ Held[k] \in Nat /\ Held'[k] \in Nat
        /\ unused[k] \in Nat /\ both[k] = Occupancy[k] + unused[k]
  <2>1. \A k \in Classes :
          /\ Occupancy[k] \in Nat /\ Occupancy'[k] \in Nat /\ Reserved[k] \in Nat
          /\ Held[k] \in Nat /\ Held'[k] \in Nat
    <3>1. NumbersOK /\ NumbersOK'
      BY OccupancyType, PTL
    <3> QED BY <3>1 DEF NumbersOK
  <2> QED
    BY <2>1
<1>2. Total(Occupancy, Classes) + 1 <= Limit - Total(unused, Classes)
  BY ClassSums DEF Accepts
<1>3. Total(both, Classes) = Total(Occupancy, Classes) + Total(unused, Classes)
  <2> HIDE DEF both, unused
  <2> QED BY <1>1, ClassSums, TotalPlus
<1>4. /\ Total(Occupancy, Classes) \in Nat /\ Total(unused, Classes) \in Nat
      /\ Total(Held', Classes) \in Nat
  <2> HIDE DEF both, unused
  <2> QED BY <1>1, ClassSums, TotalType
<1>5. Total(Held', Classes) <= Limit
  <2>1. CASE Reserved[c] > Occupancy[c]
    <3>1. \A k \in Classes : Held'[k] <= Held[k]
      BY <1>1, <2>1 DEF Held
    <3>2. Total(Held', Classes) <= Total(Held, Classes)
      BY <1>1, <3>1, ClassSums, TotalMonotone
    <3>3. Total(Held, Classes) \in Nat
      BY <1>1, ClassSums, TotalType
    <3>4. Total(Held, Classes) <= Limit
      BY ClassSums DEF ReservationsKept, Held
    <3> QED
      BY <1>4, <3>2, <3>3, <3>4, PolicyAssumption
  <2>2. CASE ~(Reserved[c] > Occupancy[c])
    <3>1. \A k \in Classes :
            Held'[k] = IF k = c THEN both[k] + 1 ELSE both[k]
      BY <1>1, <2>2 DEF Held
    <3>2. \A k \in Classes : both[k] \in Nat
      BY <1>1
    <3>3. Total(Held', Classes) = Total(both, Classes) + 1
      <4> HIDE DEF both
      <4> QED BY <3>1, <3>2, ClassSums, TotalIncrement
    <3> HIDE DEF both, unused
    <3> QED
      BY <1>2, <1>3, <1>4, <3>3, PolicyAssumption
  <2> QED
    BY <2>1, <2>2
<1> QED
  BY <1>5, ClassSums DEF ReservationsKept, Held

(* A step that leaves the queues alone and changes the permit, if at all,  *)
(* by freeing it admits nobody.                                            *)
LEMMA PermitFreed ==
  ASSUME TypeOK, queue' = queue, active' \in {active, None}
  PROVE  NoneAdmitted
<1>1. \A k \in Classes : Len(queue[k]) \in Nat
  BY DEF TypeOK
<1>2. \A k \in Classes : Permit(k)' = Permit(k) \/ Permit(k)' = 0
  BY DEF Permit
<1>3. ASSUME NEW k \in Classes PROVE Occupancy'[k] <= Occupancy[k]
  <2>1. queue'[k] = queue[k]
    OBVIOUS
  <2> QED BY <1>1, <1>2, <2>1, OccupancyAt, OccupancyNext
<1> QED
  BY <1>3 DEF NoneAdmitted

(* Empty queues and a free permit occupy nothing.                          *)
LEMMA QueuesEmptied ==
  ASSUME TypeOK, queue' = [k \in Classes |-> <<>>], active' \in {active, None}
  PROVE  NoneAdmitted
<1>1. \A k \in Classes : Len(queue[k]) \in Nat /\ Len(queue'[k]) = 0
  BY DEF TypeOK
<1>2. \A k \in Classes : Permit(k)' = Permit(k) \/ Permit(k)' = 0
  BY DEF Permit
<1> QED
  BY <1>1, <1>2, OccupancyAt, OccupancyNext DEF NoneAdmitted

(* Who leaves a queue gives its place back.                                *)
LEMMA AbandonAdmitsNone ==
  ASSUME AdmissionInv, NEW c \in Clients, Abandon(c)
  PROVE  NoneAdmitted
<1>1. TypeOK
  BY DEF AdmissionInv
<1>2. CASE queue' = queue /\ active' \in {active, None}
  BY <1>1, <1>2, PermitFreed
<1>3. ASSUME NEW i \in DOMAIN queue[ClassOf[c]], active' = active,
             queue' = [queue EXCEPT ![ClassOf[c]] = RemoveAt(@, i)]
      PROVE  NoneAdmitted
  <2>1. ClassOf[c] \in Classes /\ queue[ClassOf[c]] \in Seq(Clients)
    BY <1>1, ClassesAssumption DEF TypeOK
  <2>2. Len(RemoveAt(queue[ClassOf[c]], i)) = Len(queue[ClassOf[c]]) - 1
    BY <2>1, RemoveFacts
  <2>3. \A k \in Classes : Len(queue[k]) \in Nat /\ Len(queue'[k]) <= Len(queue[k])
                           /\ Len(queue'[k]) \in Nat
    <3>1. \A k \in Classes : queue[k] \in Seq(Clients)
      BY <1>1 DEF TypeOK
    <3>2. RemoveAt(queue[ClassOf[c]], i) \in Seq(Clients)
      BY <2>1, RemoveFacts
    <3>3. \A k \in Classes : queue'[k] = IF k = ClassOf[c]
                                         THEN RemoveAt(queue[ClassOf[c]], i)
                                         ELSE queue[k]
      BY <1>1, <1>3, <2>1 DEF TypeOK
    <3> QED
      BY <2>2, <3>1, <3>2, <3>3
  <2>4. \A k \in Classes : Permit(k)' = Permit(k)
    BY <1>3 DEF Permit
  <2> QED
    BY <2>3, <2>4, OccupancyAt, OccupancyNext DEF NoneAdmitted
<1>4. \/ queue' = queue /\ active' \in {active, None}
      \/ \E i \in DOMAIN queue[ClassOf[c]] :
           active' = active /\ queue' = [queue EXCEPT ![ClassOf[c]] = RemoveAt(@, i)]
  BY DEF Abandon, ClearActive, KeepActive
<1> QED
  BY <1>2, <1>3, <1>4

(* A waiter that is granted the permit takes its place along.              *)
LEMMA GrantAdmitsNone ==
  ASSUME AdmissionInv, Grant
  PROVE  NoneAdmitted
<1>a. PICK slot \in 0..Len(Schedule) - 1 : ScanStopsAt(slot) /\ GrantAt(slot)
  BY DEF Grant
<1> DEFINE class == Schedule[slot + 1]
           c == Head(queue[class])
<1>1. class \in Classes /\ queue[class] \in Seq(Clients) /\ queue[class] # <<>>
  BY <1>a, CursorBounds DEF ScanStopsAt, AdmissionInv, TypeOK
<1>2. queue' = [queue EXCEPT ![class] = Tail(@)] /\ active' \in {active, None, c}
  BY <1>a DEF GrantAt, ClearActive
<1>3. active = None
  BY DEF Grant, AdmissionInv, PhaseOK
<1> HIDE DEF class
<1>4. ClassOf[c] = class
  <2>1. c \in ToSet(queue[class])
    BY <1>1, TailFacts
  <2> HIDE DEF c
  <2> QED BY <1>1, <2>1 DEF AdmissionInv, PlacesOK
<1>5. \A k \in Classes :
        /\ Len(queue[k]) \in Nat
        /\ Len(queue'[k]) = IF k = class THEN Len(queue[k]) - 1 ELSE Len(queue[k])
        /\ k = class => Len(queue[k]) > 0
  <2>1. \A k \in Classes : queue[k] \in Seq(Clients)
    BY DEF AdmissionInv, TypeOK
  <2>2. \A k \in Classes : queue'[k] = IF k = class THEN Tail(queue[k]) ELSE queue[k]
    BY <1>2 DEF AdmissionInv, TypeOK
  <2>3. Len(Tail(queue[class])) = Len(queue[class]) - 1 /\ Len(queue[class]) > 0
    BY <1>1
  <2>4. Len(queue'[class]) = Len(queue[class]) - 1 /\ Len(queue[class]) > 0
    BY <1>1, <2>2, <2>3
  <2> QED
    BY <2>1, <2>2, <2>4
<1> HIDE DEF c
<1>6. \A k \in Classes : Permit(k) = 0 /\ (k # class => Permit(k)' = 0)
  BY <1>2, <1>3, <1>4 DEF Permit
<1> QED
  BY <1>5, <1>6, OccupancyAt, OccupancyNext DEF NoneAdmitted

(* Of all steps only an accepted request occupies more than before.        *)
LEMMA OthersAdmitNone ==
  ASSUME AdmissionInv, [Next]_vars, ~ \E c \in Clients : Acquire(c)
  PROVE  NoneAdmitted
<1>1. TypeOK
  BY DEF AdmissionInv
<1>2. CASE UNCHANGED vars
  BY <1>1, <1>2, PermitFreed DEF vars, schedVars
<1>3. ASSUME NEW c \in Clients,
             \/ ClientNext(c)
             \/ ExecutorNext(c)
             \/ OwnerCallTimesOut(c)
             \/ ExecutorDies(c)
      PROVE  NoneAdmitted
  <2>1. queue' = queue /\ active' = active
    BY <1>3 DEF ClientNext, Issue, DeadlinePasses, CallerTimesOut, CallerDies,
                ExecutorNext, ExecutorStarts, ExecutorDeclines, ExecutorCalls,
                ExecutorReplies, OwnerCallTimesOut, ExecutorDies, schedVars
  <2> QED BY <1>1, <2>1, PermitFreed
<1>4. ASSUME NEW c \in Clients, Cancel(c) \/ CallerDown(c)
      PROVE  NoneAdmitted
  BY <1>4, AbandonAdmitsNone DEF Cancel, CallerDown
<1>5. ASSUME NEW c \in Clients, Done(c) \/ ExecutorDown(c)
      PROVE  NoneAdmitted
  <2>1. queue' = queue /\ active' \in {active, None}
    BY <1>5 DEF Done, ExecutorDown, ClearActive
  <2> QED BY <1>1, <2>1, PermitFreed
<1>6. CASE Grant
  BY <1>6, GrantAdmitsNone
<1>7. CASE \/ DrainStarts \/ DrainEnds \/ Restart \/ StartServing \/ DrainFails
           \/ OwnerFinishes \/ OwnerDies \/ AwaitIdle \/ CancelClose
  <2>1. queue' = queue /\ active' \in {active, None}
    BY <1>7 DEF DrainStarts, DrainEnds, Restart, StartServing, DrainFails,
                OwnerFinishes, OwnerDies, AwaitIdle, CancelClose, ClearActive,
                schedVars
  <2> QED BY <1>1, <2>1, PermitFreed
<1>8. CASE SchedulerDies \/ BeginClose
  <2>1. queue' = [k \in Classes |-> <<>>] /\ active' \in {active, None}
    BY <1>8 DEF SchedulerDies, BeginClose
  <2> QED BY <1>1, <2>1, QueuesEmptied
<1> QED
  BY <1>2, <1>3, <1>4, <1>5, <1>6, <1>7, <1>8
     DEF Next, HandlerNext, SchedulerNext

(* A request is refused, or accepted and queued.                           *)
LEMMA AcquireKeepsReservations ==
  ASSUME AdmissionInv, AdmissionInv', ReservationsKept, NEW c \in Clients, Acquire(c)
  PROVE  ReservationsKept'
<1> DEFINE k == ClassOf[c]
<1>1. TypeOK /\ TypeOK' /\ k \in Classes
  BY ClassesAssumption DEF AdmissionInv
<1>2. active' = active
  BY DEF Acquire
<1>3. CASE Refuses(k)
  <2>1. queue' = queue
    BY <1>3 DEF Acquire
  <2>2. NoneAdmitted
    BY <1>1, <1>2, <2>1, PermitFreed
  <2> QED BY <1>1, <2>2, ReservationsStay
<1>4. CASE ~Refuses(k)
  <2>1. queue' = [queue EXCEPT ![k] = Append(@, c)] /\ Accepts(k)
    BY <1>4 DEF Acquire, Refuses
  <2>2. \A j \in Classes :
          Len(queue[j]) \in Nat
            /\ Len(queue'[j]) = IF j = k THEN Len(queue[j]) + 1 ELSE Len(queue[j])
    <3>1. \A j \in Classes : queue[j] \in Seq(Clients)
      BY <1>1 DEF TypeOK
    <3>2. \A j \in Classes : queue'[j] = IF j = k THEN Append(queue[j], c) ELSE queue[j]
      BY <1>1, <2>1 DEF TypeOK
    <3>3. Len(Append(queue[k], c)) = Len(queue[k]) + 1
      BY <1>1, <3>1
    <3> HIDE DEF k
    <3>4. Len(queue'[k]) = Len(queue[k]) + 1
      BY <1>1, <3>2, <3>3
    <3> QED BY <3>1, <3>2, <3>4
  <2>3. \A j \in Classes :
          Occupancy'[j] = IF j = k THEN Occupancy[j] + 1 ELSE Occupancy[j]
    <3> HIDE DEF k
    <3>1. \A j \in Classes : Permit(j)' = Permit(j)
      BY <1>2 DEF Permit
    <3> QED BY <2>2, <3>1, OccupancyAt, OccupancyNext
  <2> HIDE DEF k
  <2> QED BY <1>1, <2>1, <2>3, AcceptedFits
<1> QED
  BY <1>3, <1>4

(* The reservations of every class are kept, whoever is accepted, granted, *)
(* withdrawn or dies: what the classes occupy and what is reserved beyond  *)
(* that never exceeds the limit, so that a class below its reservation is  *)
(* not refused for lack of room.                                           *)
THEOREM ReservedForEver == Spec => []ReservationsKept
<1>1. Init => ReservationsKept
  <2> SUFFICES ASSUME Init PROVE ReservationsKept
    OBVIOUS
  <2>1. \A k \in Classes : /\ Reserved[k] \in Nat
                           /\ Held[k] = Reserved[k]
    <3>1. \A k \in Classes : Len(queue[k]) = 0 /\ Permit(k) = 0
      BY DEF Init, Permit
    <3>2. \A k \in Classes : Occupancy[k] = 0
      BY <3>1, OccupancyAt
    <3> QED BY <3>2, PolicyAssumption DEF Held
  <2>2. Total(Held, Classes) <= Total(Reserved, Classes)
    BY <2>1, ClassSums, TotalMonotone
  <2>3. Total(Held, Classes) \in Nat /\ Total(Reserved, Classes) \in Nat
    BY <2>1, ClassSums, TotalType
  <2>4. Total(Reserved, Classes) <= Limit
    BY ReservedAssumption, ClassSums
  <2>5. Total(Held, Classes) <= Limit
    BY <2>2, <2>3, <2>4, PolicyAssumption
  <2> QED
    BY <2>5, ClassSums DEF ReservationsKept, Held
<1>2. AdmissionInv /\ AdmissionInv' /\ ReservationsKept /\ [Next]_vars
        => ReservationsKept'
  <2> SUFFICES ASSUME AdmissionInv, AdmissionInv', ReservationsKept, [Next]_vars
               PROVE  ReservationsKept'
    OBVIOUS
  <2>1. ASSUME NEW c \in Clients, Acquire(c) PROVE ReservationsKept'
    BY <2>1, AcquireKeepsReservations
  <2>2. CASE ~ \E c \in Clients : Acquire(c)
    <3>1. NoneAdmitted
      BY <2>2, OthersAdmitNone
    <3> QED BY <3>1, ReservationsStay DEF AdmissionInv
  <2> QED
    BY <2>1, <2>2
<1> QED
  BY <1>1, <1>2, AdmissionInvariant, PTL DEF Spec

-----------------------------------------------------------------------------
(* The schedule.                                                           *)

(* From the cursor at, class k has a slot before the others can have been  *)
(* granted more than a round on top of p.                                  *)
Near(k, at, p) ==
  \E d \in 0..Len(Schedule) - 1 :
    /\ Schedule[((at + d) % Len(Schedule)) + 1] = k
    /\ p + d <= Len(Schedule) - Weight[k]

PassingOK ==
  \A k \in Classes :
    /\ passed[k] <= Len(Schedule) - Weight[k]
    /\ queue[k] # <<>> => Near(k, cursor, passed[k])

(* The remainder of what is less than twice the divisor.                   *)
LEMMA OneRound ==
  ASSUME NEW n \in Nat \ {0}, NEW x \in Nat, x < 2 * n
  PROVE  x % n = IF x < n THEN x ELSE x - n
  OBVIOUS

(* A class has its weight in slots, and no more than the schedule.         *)
LEMMA ScheduleNumbers ==
  /\ Len(Schedule) \in Nat \ {0}
  /\ \A k \in Classes : Weight[k] \in Nat \ {0} /\ Weight[k] <= Len(Schedule)
<1>1. Len(Schedule) \in Nat \ {0}
  BY ScheduleBlocks
<1>2. ASSUME NEW k \in Classes
      PROVE  Weight[k] \in Nat \ {0} /\ Weight[k] <= Len(Schedule)
  <2>1. PICK start \in Nat : start + Weight[k] <= Len(Schedule)
    BY ScheduleBlocks
  <2>2. Weight[k] \in Nat \ {0}
    BY PolicyAssumption
  <2> QED BY <1>1, <2>1, <2>2
<1> QED
  BY <1>1, <1>2

(* The slots of a class are one block, so from any cursor the class has    *)
(* one before all slots of the others have gone by.                        *)
LEMMA NearFromAnywhere ==
  ASSUME NEW k \in Classes, NEW at \in 0..Len(Schedule) - 1
  PROVE  Near(k, at, 0)
<1> DEFINE N == Len(Schedule)
           W == Weight[k]
<1>1. N \in Nat \ {0} /\ W \in Nat \ {0}
  BY ScheduleNumbers
<1>2. PICK start \in Nat : /\ start + W <= N
                           /\ \A m \in 1..W : Schedule[start + m] = k
  BY ScheduleBlocks
<1>a. at \in 0..N - 1
  OBVIOUS
<1> SUFFICES \E d \in 0..N - 1 : Schedule[((at + d) % N) + 1] = k /\ 0 + d <= N - W
  BY DEF Near
<1> HIDE DEF N, W
<1>3. CASE at < start
  <2>1. start - at \in 0..N - 1 /\ 0 + (start - at) <= N - W
    BY <1>1, <1>2, <1>3, <1>a
  <2>2. start < N /\ start < 2 * N /\ at + (start - at) = start
    BY <1>1, <1>2, <1>a
  <2>4. start % N = IF start < N THEN start ELSE start - N
    BY <1>1, <2>2, OneRound
  <2>3. Schedule[start + 1] = k
    BY <1>1, <1>2
  <2> QED BY <2>1, <2>2, <2>3, <2>4
<1>4. CASE start <= at /\ at < start + W
  <2>1. 0 \in 0..N - 1 /\ 0 + 0 <= N - W
    BY <1>1, <1>2
  <2>2. (at + 0) % N = at
    <3>1. at + 0 = at /\ at \in Nat /\ at < N /\ at < 2 * N
      BY <1>1, <1>a
    <3>2. at % N = IF at < N THEN at ELSE at - N
      BY <1>1, <3>1, OneRound
    <3> QED BY <3>1, <3>2
  <2>3. at + 1 = start + (at - start + 1) /\ at - start + 1 \in 1..W
    BY <1>1, <1>2, <1>4, <1>a
  <2>4. Schedule[at + 1] = k
    BY <1>2, <2>3
  <2> QED BY <2>1, <2>2, <2>4
<1>5. CASE start + W <= at
  <2> DEFINE d == (N - at) + start
  <2>1. d \in 0..N - 1 /\ 0 + d <= N - W
    BY <1>1, <1>2, <1>5, <1>a
  <2>2. at + d = N + start /\ N + start \in Nat /\ N + start < 2 * N
    BY <1>1, <1>2, <1>5, <1>a
  <2>3. (N + start) % N = start
    <3>1. (N + start) % N = IF N + start < N THEN N + start ELSE (N + start) - N
      BY <1>1, <2>2, OneRound
    <3> QED BY <1>1, <3>1
  <2>4. Schedule[start + 1] = k
    BY <1>1, <1>2
  <2> HIDE DEF d
  <2> QED BY <2>1, <2>2, <2>3, <2>4
<1>6. at < start \/ (start <= at /\ at < start + W) \/ start + W <= at
  BY <1>1, <1>2, <1>a
<1> QED
  BY <1>3, <1>4, <1>5, <1>6

(* When a scan goes by n slots of other classes and stops at one more, a   *)
(* class that waits is as much nearer to its slot.                         *)
LEMMA NearerAfterScan ==
  ASSUME NEW k \in Classes, NEW at \in 0..Len(Schedule) - 1,
         NEW n \in 0..Len(Schedule) - 1, NEW p \in Nat, NEW q \in Nat, q <= p + 1,
         Near(k, at, p),
         \A m \in 0..n : Schedule[((at + m) % Len(Schedule)) + 1] # k
  PROVE  Near(k, NextCursor((at + n) % Len(Schedule)), q)
<1> DEFINE N == Len(Schedule)
           W == Weight[k]
           next == (((at + n) % N) + 1) % N
<1>1. N \in Nat \ {0} /\ W \in Nat \ {0}
  BY ScheduleNumbers
<1>a. at \in 0..N - 1 /\ n \in 0..N - 1
  OBVIOUS
<1>2. PICK d \in 0..N - 1 : Schedule[((at + d) % N) + 1] = k /\ p + d <= N - W
  BY DEF Near
<1>3. \A m \in 0..n : Schedule[((at + m) % N) + 1] # k
  OBVIOUS
<1>b. NextCursor((at + n) % Len(Schedule)) = next
  BY DEF NextCursor
<1> SUFFICES \E e \in 0..N - 1 : Schedule[((next + e) % N) + 1] = k /\ q + e <= N - W
  BY <1>b DEF Near
<1> HIDE DEF N, W
<1>4. d > n
  BY <1>1, <1>2, <1>3, <1>a
<1> DEFINE e == d - n - 1
<1>5. e \in 0..N - 1 /\ q + e <= N - W
  BY <1>1, <1>2, <1>4, <1>a
<1>6. (at + n) % N = (IF at + n < N THEN at + n ELSE (at + n) - N)
      /\ (at + d) % N = (IF at + d < N THEN at + d ELSE (at + d) - N)
  <2>1. at + n \in Nat /\ at + n < 2 * N /\ at + d \in Nat /\ at + d < 2 * N
    BY <1>1, <1>2, <1>a
  <2> QED BY <1>1, <2>1, OneRound
<1> DEFINE slot == (at + n) % N
<1>7. slot \in 0..N - 1
  BY <1>1, <1>6, <1>a
<1>8. next = IF slot + 1 < N THEN slot + 1 ELSE (slot + 1) - N
  <2>1. N < 2 * N /\ slot + 1 \in Nat /\ slot + 1 < 2 * N
    BY <1>1, <1>7
  <2> HIDE DEF slot
  <2>2. (slot + 1) % N = IF slot + 1 < N THEN slot + 1 ELSE (slot + 1) - N
    BY <1>1, <2>1, OneRound
  <2> QED BY <2>2 DEF slot
<1>9. next \in 0..N - 1
  <2> HIDE DEF next, slot
  <2> QED BY <1>1, <1>7, <1>8
<1>10. (next + e) % N = IF next + e < N THEN next + e ELSE (next + e) - N
  <2>1. next + e \in Nat /\ next + e < 2 * N
    <3> HIDE DEF next, e
    <3> QED BY <1>1, <1>5, <1>9
  <2> HIDE DEF next, e
  <2> QED BY <1>1, <2>1, OneRound
<1>11. (next + e) % N = (at + d) % N
  <2>1. slot = IF at + n < N THEN at + n ELSE (at + n) - N
    BY <1>6
  <2> HIDE DEF next, slot
  <2> QED BY <1>1, <1>2, <1>4, <1>6, <1>8, <1>9, <1>10, <1>a, <2>1
<1> HIDE DEF next, e
<1> QED
  BY <1>2, <1>5, <1>11

(* A step that lets nobody in and leaves the schedule alone.               *)
LEMMA PassingStays ==
  ASSUME PassingOK, passed' = passed, cursor' = cursor,
         \A k \in Classes : queue[k] = <<>> => queue'[k] = <<>>
  PROVE  PassingOK'
  BY DEF PassingOK, Near

(* A class that begins to wait is not further from its slot than a round.  *)
LEMMA AcquireKeepsPassing ==
  ASSUME AdmissionInv, PassingOK, NEW c \in Clients, Acquire(c)
  PROVE  PassingOK'
<1> DEFINE k == ClassOf[c]
<1>1. /\ k \in Classes /\ cursor \in 0..Len(Schedule) - 1
      /\ passed \in [Classes -> Nat] /\ queue \in [Classes -> Seq(Clients)]
  BY ClassesAssumption DEF AdmissionInv, TypeOK
<1>2. cursor' = cursor
  BY DEF Acquire
<1>3. CASE Refuses(k)
  BY <1>2, <1>3, PassingStays DEF Acquire
<1>4. CASE ~Refuses(k)
  <2>1. /\ queue' = [queue EXCEPT ![k] = Append(@, c)]
        /\ passed' = [passed EXCEPT ![k] = IF queue[k] = <<>> THEN 0 ELSE @]
    BY <1>4 DEF Acquire
  <2> HIDE DEF k
  <2>2. ASSUME NEW j \in Classes
        PROVE  /\ passed'[j] <= Len(Schedule) - Weight[j]
               /\ queue'[j] # <<>> => Near(j, cursor', passed'[j])
    <3>1. CASE j = k /\ queue[k] = <<>>
      <4>1. passed'[j] = 0
        BY <1>1, <2>1, <3>1
      <4>2. Near(j, cursor', 0)
        BY <1>1, <1>2, NearFromAnywhere
      <4>3. 0 <= Len(Schedule) - Weight[j]
        BY ScheduleNumbers
      <4> QED BY <4>1, <4>2, <4>3
    <3>2. CASE ~(j = k /\ queue[k] = <<>>)
      <4>1. passed'[j] = passed[j] /\ (queue[j] = <<>> => queue'[j] = <<>>)
        BY <1>1, <2>1, <3>2
      <4> QED BY <1>2, <4>1 DEF PassingOK
    <3> QED BY <3>1, <3>2
  <2> QED BY <2>2, Zenon DEF PassingOK, Near
<1> QED
  BY <1>3, <1>4

(* The class at whose slot the scan stopped starts anew, and each other    *)
(* class that waits is nearer to its slot than it was.                     *)
LEMMA GrantKeepsPassing ==
  ASSUME AdmissionInv, PassingOK, Grant
  PROVE  PassingOK'
<1>a. PICK slot \in 0..Len(Schedule) - 1 : ScanStopsAt(slot) /\ GrantAt(slot)
  BY DEF Grant
<1>b. PICK n \in 0..Len(Schedule) - 1 :
        /\ slot = (cursor + n) % Len(Schedule)
        /\ queue[Schedule[slot + 1]] # <<>>
        /\ \A m \in 0..n - 1 :
             queue[Schedule[((cursor + m) % Len(Schedule)) + 1]] = <<>>
  BY <1>a DEF ScanStopsAt
<1> DEFINE class == Schedule[slot + 1]
<1>1. /\ class \in Classes /\ cursor \in 0..Len(Schedule) - 1
      /\ passed \in [Classes -> Nat] /\ queue \in [Classes -> Seq(Clients)]
  BY CursorBounds DEF AdmissionInv, TypeOK
<1>2. /\ queue' = [queue EXCEPT ![class] = Tail(@)] /\ cursor' = NextCursor(slot)
      /\ \/ passed' = [passed EXCEPT ![class] = 0]
         \/ passed' = [k \in Classes |->
                         IF k = class \/ queue[k] = <<>> THEN 0 ELSE passed[k] + 1]
  BY <1>a DEF GrantAt
<1>3. cursor' \in 0..Len(Schedule) - 1
  BY <1>2, CursorBounds
<1>4. \A m \in 0..n :
        \/ Schedule[((cursor + m) % Len(Schedule)) + 1] = class
        \/ queue[Schedule[((cursor + m) % Len(Schedule)) + 1]] = <<>>
  <2>1. n \in Nat
    BY ScheduleNumbers
  <2>2. \A m \in 0..n : m = n \/ m \in 0..n - 1
    BY <2>1
  <2> QED BY <1>b, <2>2
<1> HIDE DEF class
<1>5. ASSUME NEW k \in Classes
      PROVE  /\ passed'[k] <= Len(Schedule) - Weight[k]
             /\ queue'[k] # <<>> => Near(k, cursor', passed'[k])
  <2>1. 0 <= Len(Schedule) - Weight[k] /\ passed[k] <= Len(Schedule) - Weight[k]
    BY ScheduleNumbers DEF PassingOK
  <2>2. CASE k = class
    <3>1. passed'[k] = 0
      BY <1>1, <1>2, <2>2
    <3>2. Near(k, cursor', 0)
      BY <1>3, NearFromAnywhere
    <3> QED BY <2>1, <3>1, <3>2
  <2>3. CASE k # class /\ queue[k] = <<>>
    <3>1. queue'[k] = <<>> /\ passed'[k] \in {0, passed[k]}
      BY <1>1, <1>2, <2>3
    <3> QED BY <2>1, <3>1
  <2>4. CASE k # class /\ queue[k] # <<>>
    <3>1. passed'[k] \in {passed[k], passed[k] + 1} /\ passed[k] \in Nat
      BY <1>1, <1>2, <2>4
    <3>2. Near(k, cursor, passed[k])
      BY <2>4 DEF PassingOK
    <3>3. \A m \in 0..n : Schedule[((cursor + m) % Len(Schedule)) + 1] # k
      BY <1>4, <2>4
    <3>4. Near(k, NextCursor((cursor + n) % Len(Schedule)), passed'[k])
      <4>1. passed'[k] \in Nat /\ passed'[k] <= passed[k] + 1
        BY <3>1
      <4> QED BY <1>1, <3>1, <3>2, <3>3, <4>1, NearerAfterScan
    <3>5. Near(k, cursor', passed'[k])
      BY <1>2, <1>b, <3>4
    <3>6. passed'[k] <= Len(Schedule) - Weight[k]
      <4>1. PICK d \in 0..Len(Schedule) - 1 : passed'[k] + d <= Len(Schedule) - Weight[k]
        BY <3>5 DEF Near
      <4>2. /\ Len(Schedule) \in Nat /\ Weight[k] \in Nat
            /\ passed'[k] \in Nat /\ d \in Nat
        BY <3>1, ScheduleNumbers
      <4> QED BY <4>1, <4>2
    <3> QED BY <3>5, <3>6
  <2> QED BY <2>2, <2>3, <2>4
<1> QED
  BY <1>5, Zenon DEF PassingOK, Near

(* The others grant nothing.                                               *)
LEMMA OthersKeepPassing ==
  ASSUME AdmissionInv, PassingOK, [Next]_vars,
         ~Grant, ~ \E c \in Clients : Acquire(c)
  PROVE  PassingOK'
<1>1. /\ queue \in [Classes -> Seq(Clients)]
      /\ \A c \in Clients : ClassOf[c] \in Classes
  BY ClassesAssumption DEF AdmissionInv, TypeOK
<1>2. CASE UNCHANGED vars
  BY <1>2, PassingStays DEF vars, schedVars
<1>3. ASSUME NEW c \in Clients,
             \/ ClientNext(c)
             \/ ExecutorNext(c)
             \/ OwnerCallTimesOut(c)
             \/ ExecutorDies(c)
      PROVE  PassingOK'
  <2>1. UNCHANGED <<queue, passed, cursor>>
    BY <1>3 DEF ClientNext, Issue, DeadlinePasses, CallerTimesOut, CallerDies,
                ExecutorNext, ExecutorStarts, ExecutorDeclines, ExecutorCalls,
                ExecutorReplies, OwnerCallTimesOut, ExecutorDies, schedVars
  <2> QED BY <2>1, PassingStays
<1>4. ASSUME NEW c \in Clients, Abandon(c)
      PROVE  PassingOK'
  <2>1. passed' = passed /\ cursor' = cursor
    BY <1>4 DEF Abandon
  <2>2. \/ queue' = queue
        \/ \E i \in DOMAIN queue[ClassOf[c]] :
             queue' = [queue EXCEPT ![ClassOf[c]] = RemoveAt(@, i)]
    BY <1>4 DEF Abandon
  <2>3. \A k \in Classes : queue[k] = <<>> => queue'[k] = <<>>
    <3>1. ASSUME NEW i \in DOMAIN queue[ClassOf[c]],
                 queue' = [queue EXCEPT ![ClassOf[c]] = RemoveAt(@, i)],
                 NEW k \in Classes, queue[k] = <<>>
          PROVE  queue'[k] = <<>>
      <4>1. k # ClassOf[c]
        BY <3>1
      <4> QED BY <1>1, <3>1, <4>1
    <3> QED BY <2>2, <3>1
  <2> QED BY <2>1, <2>3, PassingStays
<1>5. ASSUME NEW c \in Clients, Done(c) \/ ExecutorDown(c)
      PROVE  PassingOK'
  BY <1>5, PassingStays DEF Done, ExecutorDown
<1>6. CASE \/ DrainStarts \/ DrainEnds \/ Restart \/ StartServing \/ DrainFails
           \/ OwnerFinishes \/ OwnerDies \/ AwaitIdle \/ CancelClose
  <2>1. UNCHANGED <<queue, passed, cursor>>
    BY <1>6 DEF DrainStarts, DrainEnds, Restart, StartServing, DrainFails,
                OwnerFinishes, OwnerDies, AwaitIdle, CancelClose, schedVars
  <2> QED BY <2>1, PassingStays
<1>7. CASE BeginClose
  <2>1. /\ passed' = passed /\ cursor' = cursor
        /\ \A k \in Classes : queue'[k] = <<>>
    BY <1>7 DEF BeginClose
  <2> QED BY <2>1, PassingStays
<1>8. CASE SchedulerDies
  <2>1. \A k \in Classes : queue'[k] = <<>> /\ passed'[k] = 0
    BY <1>8 DEF SchedulerDies
  <2> QED BY <2>1, ScheduleNumbers DEF PassingOK
<1> QED
  BY <1>2, <1>3, <1>4, <1>5, <1>6, <1>7, <1>8
     DEF Next, HandlerNext, SchedulerNext, Cancel, CallerDown

(* Whatever the weights, the clients and the order of requests, deadlines  *)
(* and deaths, a class that waits is passed over by no more grants than    *)
(* the others have slots in one round of the schedule.                     *)
THEOREM PassingIsBounded == Spec => []BoundedPassing
<1>1. Init => PassingOK
  <2> SUFFICES ASSUME Init, NEW k \in Classes
               PROVE  passed[k] <= Len(Schedule) - Weight[k] /\ queue[k] = <<>>
    BY DEF PassingOK
  <2> QED BY ScheduleNumbers DEF Init
<1>2. AdmissionInv /\ PassingOK /\ [Next]_vars => PassingOK'
  <2> SUFFICES ASSUME AdmissionInv, PassingOK, [Next]_vars PROVE PassingOK'
    OBVIOUS
  <2>1. ASSUME NEW c \in Clients, Acquire(c) PROVE PassingOK'
    BY <2>1, AcquireKeepsPassing
  <2>2. CASE Grant
    BY <2>2, GrantKeepsPassing
  <2>3. CASE ~Grant /\ ~ \E c \in Clients : Acquire(c)
    BY <2>3, OthersKeepPassing
  <2> QED
    BY <2>1, <2>2, <2>3
<1>3. PassingOK => BoundedPassing
  BY DEF PassingOK, BoundedPassing
<1> QED
  BY <1>1, <1>2, <1>3, AdmissionInvariant, PTL DEF Spec

-----------------------------------------------------------------------------
(* Nothing is forgotten.                                                   *)

(* Who waits, waits for the permit: while it is free nobody is queued, or  *)
(* the loop that grants it is under way.                                   *)
QueuesServed ==
  /\ phase = "serving" => active # None \/ \A k \in Classes : queue[k] = <<>>
  /\ phase = "granting" => active = None /\ \E k \in Classes : queue[k] # <<>>

(* The permit in use comes back: the drain, the executor or its exit gives *)
(* it back, or the exit of a caller whose command will not start.          *)
PermitReturns ==
  active # None =>
    \/ drain # "none"
    \/ exec[active] \notin {"none", "given"}
    \/ exec[active] = "given" /\ flag[active] = "granted"
    \/ exec[active] = "none" /\ flag[active] = "granted" /\ call[active] = "dead"

(* A close that waits for idleness will be told of it with the permit.     *)
CloseIsTold == closing /\ closer = "parked" => active # None

NothingForgotten == QueuesServed /\ PermitReturns /\ CloseIsTold

(* A handler ends with grant_loop, if there is anything to grant.          *)
LEMMA LoopServes ==
  ASSUME GrantLoop
  PROVE  QueuesServed'
<1>1. CASE active' = None /\ \E k \in Classes : queue'[k] # <<>>
  BY <1>1 DEF GrantLoop, QueuesServed
<1>2. CASE ~(active' = None /\ \E k \in Classes : queue'[k] # <<>>)
  BY <1>2 DEF GrantLoop, QueuesServed
<1> QED
  BY <1>1, <1>2

(* A handler of the scheduler that has run forgets nothing.                *)
LEMMA AbandonForgetsNothing ==
  ASSUME AdmissionInv, ClosingOK, NothingForgotten, NEW c \in Clients, Abandon(c)
  PROVE  NothingForgotten'
<1>1. QueuesServed'
  BY LoopServes DEF Abandon
<1>2. CASE ClearActive
  <2>1. active' = None /\ closing' = closing
    BY <1>2 DEF ClearActive, Abandon
  <2>2. closing => queue' = queue
    <3>1. ClassOf[c] \in Classes
      BY ClassesAssumption
    <3>2. closing => DOMAIN queue[ClassOf[c]] = {}
      BY <3>1 DEF ClosingOK
    <3> QED
      BY <3>2 DEF Abandon
  <2>3. CloseIsTold'
    BY <1>2, <2>1, <2>2 DEF ClearActive, ClosingOK, CloseIsTold
  <2> QED
    BY <1>1, <2>1, <2>3 DEF NothingForgotten, PermitReturns
<1>3. CASE KeepActive /\ flag' = flag
  <2>1. /\ active' = active /\ drain' = drain /\ closer' = closer /\ closing' = closing
        /\ exec' = exec
    BY <1>3 DEF KeepActive, Abandon
  <2>2. CloseIsTold'
    BY <2>1 DEF NothingForgotten, CloseIsTold
  <2>3. active = c => flag[c] = "started"
    <3>1. ASSUME NEW i \in DOMAIN queue[ClassOf[c]], queue[ClassOf[c]][i] = c
          PROVE  active # c
      <4>1. ClassOf[c] \in Classes
        BY ClassesAssumption
      <4>2. c \in ToSet(queue[ClassOf[c]])
        BY <3>1 DEF ToSet
      <4> QED
        BY <4>1, <4>2 DEF AdmissionInv, PlacesOK, Ungranted
    <3>2. ~ClearActive \/ active # c
      BY <1>3, ClassesAssumption DEF ClearActive, KeepActive
    <3>3. CASE active = c /\ flag[c] = "started"
      BY <3>3
    <3>4. CASE ClearActive \/ active # c
      BY <3>2, <3>4
    <3>5. CASE \E i \in DOMAIN queue[ClassOf[c]] : queue[ClassOf[c]][i] = c
      BY <3>1, <3>5
    <3> QED
      BY <3>3, <3>4, <3>5 DEF Abandon
  <2>4. \A d \in Clients : d # c => call'[d] = call[d]
    BY DEF Abandon, AdmissionInv, TypeOK
  <2>5. active \in Clients \cup {None}
    BY DEF AdmissionInv, TypeOK
  <2>6. PermitReturns'
    BY <1>3, <2>1, <2>3, <2>4, <2>5 DEF NothingForgotten, PermitReturns
  <2> QED
    BY <1>1, <2>2, <2>6 DEF NothingForgotten
<1> QED
  BY <1>2, <1>3 DEF Abandon

(* The scheduler's other handlers.                                         *)
LEMMA HandlersForgetNothing ==
  ASSUME AdmissionInv, ClosingOK, NothingForgotten, NEW c \in Clients, HandlerNext(c)
  PROVE  NothingForgotten'
<1>1. CASE Abandon(c)
  BY <1>1, AbandonForgetsNothing
<1>2. CASE Acquire(c)
  <2>1. /\ active' = active /\ drain' = drain /\ closer' = closer /\ closing' = closing
        /\ exec' = exec /\ flag' = flag
    BY <1>2 DEF Acquire, execVars
  <2>2. QueuesServed'
    <3>1. CASE GrantLoop
      BY <3>1, LoopServes
    <3>2. CASE UNCHANGED <<phase, queue>>
      BY <2>1, <3>2 DEF NothingForgotten, QueuesServed
    <3> QED
      BY <1>2, <3>1, <3>2 DEF Acquire
  <2>3. \A d \in Clients : call[d] = "dead" => call'[d] = "dead"
    BY <1>2 DEF Acquire, Answered
  <2>4. active \in Clients \cup {None}
    BY DEF AdmissionInv, TypeOK
  <2> QED
    BY <2>1, <2>2, <2>3, <2>4 DEF NothingForgotten, PermitReturns, CloseIsTold
<1>3. CASE Done(c)
  <2>1. QueuesServed'
    BY <1>3, LoopServes DEF Done
  <2>2. active' = None /\ CloseIsTold'
    BY <1>3 DEF Done, ClearActive, ClosingOK, CloseIsTold
  <2> QED
    BY <2>1, <2>2 DEF NothingForgotten, PermitReturns
<1>4. CASE ExecutorDown(c)
  <2>1. QueuesServed'
    BY <1>4, LoopServes DEF ExecutorDown
  <2>2. CASE ClearActive
    <3>1. active' = None /\ CloseIsTold'
      BY <1>4, <2>2 DEF ExecutorDown, ClearActive, ClosingOK, CloseIsTold
    <3> QED
      BY <2>1, <3>1 DEF NothingForgotten, PermitReturns
  <2>3. CASE drain' = "wanted" /\ UNCHANGED <<active, closer>>
    BY <1>4, <2>1, <2>3 DEF ExecutorDown, NothingForgotten, PermitReturns, CloseIsTold
  <2> QED
    BY <1>4, <2>2, <2>3 DEF ExecutorDown
<1> QED
  BY <1>1, <1>2, <1>3, <1>4 DEF HandlerNext, Cancel, CallerDown

(* A grant gives the permit to a command that is about to start, or takes  *)
(* a waiter from the queue and goes on.                                    *)
LEMMA GrantForgetsNothing ==
  ASSUME AdmissionInv, ClosingOK, NothingForgotten, Grant
  PROVE  NothingForgotten'
<1>1. PICK slot \in 0..Len(Schedule) - 1 : ScanStopsAt(slot) /\ GrantAt(slot)
  BY DEF Grant
<1> DEFINE class == Schedule[slot + 1]
           c == Head(queue[class])
<1>2. class \in Classes /\ queue[class] \in Seq(Clients) /\ queue[class] # <<>>
  BY <1>1, CursorBounds DEF ScanStopsAt, AdmissionInv, TypeOK
<1>3. ~closing /\ closing' = closing
  BY <1>2 DEF Grant, ClosingOK
<1>4. QueuesServed' /\ CloseIsTold'
  BY <1>3, LoopServes DEF Grant, CloseIsTold
<1>5. c \in Clients
  BY <1>2
<1>6. active = None
  BY DEF Grant, AdmissionInv, PhaseOK
<1> HIDE DEF class, c
<1>7. CASE active' = c /\ exec' = [exec EXCEPT ![c] = "given"]
           /\ flag' = [flag EXCEPT ![c] = "granted"]
  <2>1. exec'[c] = "given" /\ flag'[c] = "granted"
    BY <1>5, <1>7 DEF AdmissionInv, TypeOK
  <2>2. PermitReturns'
    BY <1>7, <2>1 DEF PermitReturns
  <2> QED
    BY <1>4, <2>2 DEF NothingForgotten
<1>8. CASE active' = None
  BY <1>4, <1>8 DEF NothingForgotten, PermitReturns
<1> QED
  BY <1>1, <1>6, <1>7, <1>8 DEF GrantAt, ClearActive, class, c

(* Executors, clients and the owner leave queues and permit alone.         *)
LEMMA OthersForgetNothing ==
  ASSUME AdmissionInv, NothingForgotten, NEW c \in Clients,
         \/ ClientNext(c) \/ ExecutorNext(c) \/ OwnerCallTimesOut(c) \/ ExecutorDies(c)
  PROVE  NothingForgotten'
<1>1. UNCHANGED <<phase, closing, active, queue, drain, closer>>
  BY DEF ClientNext, Issue, DeadlinePasses, CallerTimesOut, CallerDies,
         ExecutorNext, ExecutorStarts, ExecutorDeclines, ExecutorCalls,
         ExecutorReplies, OwnerCallTimesOut, ExecutorDies, schedVars
<1>2. QueuesServed' /\ CloseIsTold'
  BY <1>1 DEF NothingForgotten, QueuesServed, CloseIsTold
<1>3. ASSUME active # None PROVE active \in Clients
  BY <1>3 DEF AdmissionInv, TypeOK
<1>4. /\ exec \in [Clients -> {"none", "given", "started", "called", "returned",
                               "replied", "crashed"}]
      /\ flag \in [Clients -> {"granted", "started", "cancelled"}]
      /\ call \in [Clients -> {"idle", "waiting", "cancelling", "dead"}]
  BY DEF AdmissionInv, TypeOK
<1>5. CASE ClientNext(c)
  <2>1. exec' = exec /\ flag' = flag
    BY <1>5 DEF ClientNext, Issue, DeadlinePasses, CallerTimesOut, CallerDies, execVars
  <2>2. \A d \in Clients : call[d] = "dead" => call'[d] = "dead"
    BY <1>4, <1>5 DEF ClientNext, Issue, DeadlinePasses, CallerTimesOut, CallerDies, callVars
  <2>3. PermitReturns'
    BY <1>1, <1>3, <2>1, <2>2 DEF NothingForgotten, PermitReturns
  <2> QED
    BY <1>2, <2>3 DEF NothingForgotten
<1>6. CASE ExecutorStarts(c)
  <2>1. PermitReturns'
    BY <1>1, <1>3, <1>4, <1>6 DEF ExecutorStarts, callVars, NothingForgotten, PermitReturns
  <2> QED
    BY <1>2, <2>1 DEF NothingForgotten
<1>7. CASE ExecutorDeclines(c)
  <2>1. PermitReturns'
    BY <1>1, <1>3, <1>4, <1>7 DEF ExecutorDeclines, callVars, NothingForgotten, PermitReturns
  <2> QED
    BY <1>2, <2>1 DEF NothingForgotten
<1>8. CASE ExecutorCalls(c) \/ OwnerCallTimesOut(c) \/ ExecutorReplies(c) \/ ExecutorDies(c)
  <2>1. /\ flag' = flag /\ exec[c] # "none"
        /\ \E x \in {"called", "returned", "replied", "crashed"} : exec' = [exec EXCEPT ![c] = x]
    BY <1>8 DEF ExecutorCalls, OwnerCallTimesOut, ExecutorReplies, ExecutorDies, callVars
  <2>2. \A d \in Clients : call[d] = "dead" => call'[d] = "dead"
    BY <1>8 DEF ExecutorCalls, OwnerCallTimesOut, ExecutorReplies, ExecutorDies, callVars, Answered
  <2>3. PermitReturns'
    BY <1>1, <1>3, <1>4, <2>1, <2>2 DEF NothingForgotten, PermitReturns
  <2> QED
    BY <1>2, <2>3 DEF NothingForgotten
<1> QED
  BY <1>5, <1>6, <1>7, <1>8 DEF ExecutorNext

(* Drains, the owner, deaths, restarts and the close.                      *)
LEMMA RuntimeForgetsNothing ==
  ASSUME AdmissionInv, ClosingOK, NothingForgotten,
         \/ DrainStarts \/ DrainEnds \/ DrainFails \/ Restart \/ StartServing
         \/ OwnerFinishes \/ SchedulerDies \/ OwnerDies
         \/ BeginClose \/ AwaitIdle \/ CancelClose
  PROVE  NothingForgotten'
<1> USE DEF NothingForgotten
<1>0. active \in Clients \cup {None}
      /\ exec \in [Clients -> {"none", "given", "started", "called", "returned",
                               "replied", "crashed"}]
  BY DEF AdmissionInv, TypeOK
<1>1. CASE DrainStarts \/ DrainFails
  BY <1>1 DEF DrainStarts, DrainFails, QueuesServed, PermitReturns, CloseIsTold,
              callVars, execVars
<1>2. CASE DrainEnds
  <2>1. QueuesServed'
    BY <1>2, LoopServes DEF DrainEnds
  <2> QED
    BY <1>2, <2>1 DEF DrainEnds, ClearActive, ClosingOK, PermitReturns, CloseIsTold
<1>3. CASE Restart \/ StartServing
  BY <1>3 DEF Restart, StartServing, QueuesServed, PermitReturns, CloseIsTold,
              AdmissionInv, PhaseOK, execVars, callVars
<1>4. CASE OwnerFinishes
  <2>1. UNCHANGED <<phase, closing, active, queue, drain, closer, call, flag>>
    BY <1>4 DEF OwnerFinishes, schedVars, callVars
  <2>2. \A c \in Clients : exec'[c] = exec[c] \/ (exec[c] = "called" /\ exec'[c] = "returned")
    BY <1>0, <1>4 DEF OwnerFinishes
  <2>3. PermitReturns'
    BY <1>0, <2>1, <2>2 DEF PermitReturns
  <2> QED
    BY <2>1, <2>3 DEF QueuesServed, CloseIsTold
<1>5. CASE SchedulerDies
  BY <1>5 DEF SchedulerDies, QueuesServed, PermitReturns, CloseIsTold
<1>6. CASE OwnerDies
  <2>1. UNCHANGED <<phase, closing, active, queue, closer, call, flag>>
        /\ (drain # "none" => drain' # "none")
    BY <1>6 DEF OwnerDies, callVars
  <2>2. \A c \in Clients : exec'[c] = exec[c] \/ (exec[c] = "called" /\ exec'[c] = "returned")
    BY <1>6 DEF OwnerDies
  <2>3. PermitReturns'
    BY <1>0, <2>1, <2>2 DEF PermitReturns
  <2> QED
    BY <2>1, <2>3 DEF QueuesServed, CloseIsTold
<1>7. CASE BeginClose
  <2>1. UNCHANGED <<phase, active, drain, exec, flag>> /\ closer' = "begun"
        /\ phase = "serving" /\ \A k \in Classes : queue'[k] = <<>>
    BY <1>7 DEF BeginClose, execVars
  <2>2. \A c \in Clients : call[c] = "dead" => call'[c] = "dead"
    BY <1>7 DEF BeginClose, Answered
  <2> QED
    BY <1>0, <2>1, <2>2 DEF QueuesServed, PermitReturns, CloseIsTold
<1>8. CASE AwaitIdle
  <2>1. UNCHANGED <<phase, closing, active, queue, drain, exec, flag, call>>
    BY <1>8 DEF AwaitIdle, schedVars, callVars, execVars
  <2>2. closing => Waiters = {}
    BY EmptyFacts DEF ClosingOK, Waiters
  <2>3. CloseIsTold'
    BY <1>8, <2>1, <2>2 DEF AwaitIdle, CloseIsTold
  <2> QED
    BY <2>1, <2>3 DEF QueuesServed, PermitReturns
<1>9. CASE CancelClose
  BY <1>9 DEF CancelClose, QueuesServed, PermitReturns, CloseIsTold, callVars, execVars
<1> QED
  BY <1>1, <1>2, <1>3, <1>4, <1>5, <1>6, <1>7, <1>8, <1>9

(* The safety side of being answered: whoever is queued waits for a permit *)
(* in use, a permit in use has somebody who gives it back, and a close     *)
(* that waits for idleness waits for that permit, through withdrawals,     *)
(* crashes of executors, drains, deaths of the owner and restarts          *)
(* (grant_loop, clear_active, executor_down, await_idle).                  *)
THEOREM NothingIsForgotten == Spec => []NothingForgotten
<1>1. Init => ClosingOK /\ NothingForgotten
  BY DEF Init, ClosingOK, NothingForgotten, QueuesServed, PermitReturns, CloseIsTold
<1>2. ASSUME AdmissionInv, ClosingOK, NothingForgotten, [Next]_vars
      PROVE  NothingForgotten'
  <2>1. ASSUME NEW c \in Clients,
               ClientNext(c) \/ HandlerNext(c) \/ ExecutorNext(c)
                 \/ OwnerCallTimesOut(c) \/ ExecutorDies(c)
        PROVE  NothingForgotten'
    BY <1>2, <2>1, HandlersForgetNothing, OthersForgetNothing
  <2>2. CASE SchedulerNext
    BY <1>2, <2>2, GrantForgetsNothing, RuntimeForgetsNothing DEF SchedulerNext
  <2>3. CASE \/ DrainFails \/ OwnerFinishes \/ SchedulerDies \/ OwnerDies
             \/ BeginClose \/ AwaitIdle \/ CancelClose
    BY <1>2, <2>3, RuntimeForgetsNothing
  <2>4. CASE UNCHANGED vars
    BY <1>2, <2>4 DEF vars, schedVars, callVars, execVars, NothingForgotten,
                      QueuesServed, PermitReturns, CloseIsTold
  <2> QED
    BY <1>2, <2>1, <2>2, <2>3, <2>4 DEF Next
<1> QED
  BY <1>1, <1>2, CloseKeeps, AdmissionInvariant, PTL DEF Spec

=============================================================================
