------------------------------ MODULE Admission ------------------------------
(***************************************************************************)
(* Admission of work to the database owner: the scheduler of one database  *)
(* (runtime/database_admission.ex), the executor that runs what it grants  *)
(* (runtime/admitted_command.ex), the owner's mailbox, the callers, and    *)
(* the close that drains admission (runtime/database_catalog.ex).          *)
(*                                                                         *)
(* There is one permit.  A waiter that is granted it is run by the         *)
(* executor, which calls the owner and waits.  Whether a command starts is *)
(* decided by one atomic, `flag', on which the executor and the scheduler  *)
(* race.  A client issues one command at a time, and its next one when     *)
(* nothing of the last is left.                                            *)
(*                                                                         *)
(* Queues hold only waiters that were not withdrawn: the references of     *)
(* withdrawn ones stay in the code's queues until they are skipped.        *)
(***************************************************************************)
EXTENDS Integers, SequencesExt

CONSTANTS
  Clients,     \* callers of execute_with_deadline
  Hurried,     \* those whose deadline is not :infinity
  None,        \* no client
  ClassOrder,  \* ServiceClass.classes
  ClassOf,     \* the service class each client asks for
  Weight,      \* AdmissionPolicy: schedule slots of a class
  Reserved,    \* AdmissionPolicy: reserved slots of a class
  Limit,       \* admission_limit
  MaxFaults    \* bound: deaths of processes

Classes == ToSet(ClassOrder)
Sum(f) == MapThenSumSet(LAMBDA k : f[k], Classes)

ASSUME ClassesAssumption ==
  /\ ClassOrder \in Seq(Classes) \ {<<>>} /\ ClassOf \in [Clients -> Classes]
  /\ None \notin Clients /\ Hurried \subseteq Clients
ASSUME PolicyAssumption ==
  /\ Weight \in [Classes -> Nat \ {0}] /\ Reserved \in [Classes -> Nat]
  /\ Limit \in Nat \ {0} /\ MaxFaults \in Nat
ASSUME ReservedAssumption == Sum(Reserved) <= Limit

VARIABLES
  phase,    \* the scheduler: "serving", inside grant_loop ("granting"),
            \* "down", or "starting" until the owner has synced
  closing,  \* closing?
  active,   \* whose permit is active, or None
  queue,    \* each class's waiters
  cursor,   \* where the next scan of the schedule begins
  drain,    \* after an executor's death: "none", "wanted" or "syncing"
  asked,    \* clients whose acquire is in the scheduler's mailbox
  call,     \* each client: "idle", "waiting", "cancelling" or "dead"
  overdue,  \* clients whose deadline has passed
  exec,     \* the executor of each client's command: "none", "given",
            \* "started", "called", "returned", "replied" or "crashed"
  flag,     \* start flag: "granted", "started" or "cancelled"
  ownerUp,  \* is the owner registered?
  mailbox,  \* commands at the owner, the first one being executed
  late,     \* those whose executor no longer waits for them
  closer,   \* the catalog's drain: "none", "begun", "parked" or "drained"
  faults,   \* deaths so far (bound)
  passed    \* history: grants to others since a class began to wait, or since
            \* the last of its slots at which a waiter of it was found

schedVars == <<phase, closing, active, queue, cursor, drain, passed>>
callVars  == <<asked, call, overdue>>
execVars  == <<exec, flag>>
ownerVars == <<ownerUp, mailbox, late>>
vars == <<schedVars, callVars, execVars, ownerVars, closer, faults>>

Init ==
  /\ phase = "serving" /\ closing = FALSE /\ active = None
  /\ queue = [k \in Classes |-> <<>>] /\ cursor = 0 /\ drain = "none"
  /\ asked = {} /\ call = [c \in Clients |-> "idle"] /\ overdue = {}
  /\ exec = [c \in Clients |-> "none"]
  /\ flag = [c \in Clients |-> "cancelled"]
  /\ ownerUp = TRUE /\ mailbox = <<>> /\ late = {}
  /\ closer = "none" /\ faults = 0
  /\ passed = [k \in Classes |-> 0]

-----------------------------------------------------------------------------
(* Capacity and schedule.                                                  *)

Waiters == UNION {ToSet(queue[k]) : k \in Classes}

(* AdmissionCapacity.occupancy_from_counts: queued plus active.            *)
Occupancy ==
  [k \in Classes |->
     Len(queue[k]) + IF active # None /\ ClassOf[active] = k THEN 1 ELSE 0]

(* Variant: the limit alone, without the reservations.                     *)
AcceptsBelowLimit(class) == Sum(Occupancy) + 1 <= Limit

(* AdmissionCapacity.accepts?                                              *)
Accepts(class) ==
  LET unused == [k \in Classes |->
        IF k # class /\ Reserved[k] > Occupancy[k]
        THEN Reserved[k] - Occupancy[k] ELSE 0]
  IN  Sum(Occupancy) + 1 <= Limit - Sum(unused)

(* Variant: a closing database still queues.                               *)
RefusesWhenFull(class) == ~Accepts(class)

Refuses(class) == closing \/ ~Accepts(class)

(* AdmissionSchedule.build                                                 *)
Schedule ==
  FlattenSeq([i \in 1..Len(ClassOrder) |->
                [j \in 1..Weight[ClassOrder[i]] |-> ClassOrder[i]]])

(* A scan from the cursor stops at the first slot whose class has a waiter. *)
ScanStopsAt(slot) ==
  \E n \in 0..Len(Schedule) - 1 :
    /\ slot = (cursor + n) % Len(Schedule)
    /\ queue[Schedule[slot + 1]] # <<>>
    /\ \A m \in 0..n - 1 :
         queue[Schedule[((cursor + m) % Len(Schedule)) + 1]] = <<>>

(* Variant: the cursor does not move on.                                   *)
CursorStuck(slot) == slot

NextCursor(slot) == (slot + 1) % Len(Schedule)

(* What every handler that may have freed the permit or queued a waiter    *)
(* ends with: grant_loop, when there is something to grant.                *)
GrantLoop ==
  phase' = IF active' = None /\ \E k \in Classes : queue'[k] # <<>>
           THEN "granting" ELSE "serving"

(* A reply reaches a caller that still waits; others dropped its alias.    *)
Answered(S) ==
  [c \in Clients |-> IF c \in S /\ call[c] = "waiting" THEN "idle" ELSE call[c]]

(* Variant: nobody is told that the permit was the last work.              *)
ClearActiveSilent == active' = None /\ drain' = "none" /\ UNCHANGED closer

(* clear_active, with notify_idle; the queues are what the handler leaves. *)
ClearActive ==
  /\ active' = None /\ drain' = "none"
  /\ closer' = IF closer = "parked" /\ \A k \in Classes : queue'[k] = <<>>
               THEN "drained" ELSE closer

KeepActive == UNCHANGED <<active, drain, closer>>

-----------------------------------------------------------------------------
(* Callers.                                                                *)

Issue(c) ==
  /\ phase # "down" /\ call[c] = "idle"
  /\ c \notin asked \cup ToSet(mailbox)
  /\ c # active /\ exec[c] \in {"none", "crashed"}
  /\ call' = [call EXCEPT ![c] = "waiting"]
  /\ asked' = asked \cup {c}
  /\ overdue' = overdue \ {c}
  /\ UNCHANGED <<schedVars, execVars, ownerVars, closer, faults>>

DeadlinePasses(c) ==
  /\ c \in Hurried /\ (call[c] # "idle" \/ exec[c] # "none")
  /\ overdue' = overdue \cup {c}
  /\ UNCHANGED <<schedVars, asked, call, execVars, ownerVars, closer, faults>>

(* The call exits at its deadline; the caller then cancels and exits.      *)
CallerTimesOut(c) ==
  /\ call[c] = "waiting" /\ c \in overdue
  /\ call' = [call EXCEPT ![c] = "cancelling"]
  /\ UNCHANGED <<schedVars, asked, overdue, execVars, ownerVars, closer, faults>>

CallerDies(c) ==
  /\ call[c] = "waiting" /\ faults < MaxFaults
  /\ call' = [call EXCEPT ![c] = "dead"]
  /\ faults' = faults + 1
  /\ UNCHANGED <<schedVars, asked, overdue, execVars, ownerVars, closer>>

-----------------------------------------------------------------------------
(* The scheduler's handlers.                                               *)

Acquire(c) ==
  /\ phase = "serving" /\ c \in asked
  /\ asked' = asked \ {c} /\ UNCHANGED active
  /\ \/ /\ Refuses(ClassOf[c])
        /\ call' = Answered({c})
        /\ UNCHANGED <<phase, queue, passed>>
     \/ /\ ~Refuses(ClassOf[c])
        /\ queue' = [queue EXCEPT ![ClassOf[c]] = Append(@, c)]
        /\ passed' = [passed EXCEPT ![ClassOf[c]] =
                        IF queue[ClassOf[c]] = <<>> THEN 0 ELSE @]
        /\ call' = call
        /\ GrantLoop
  /\ UNCHANGED <<closing, cursor, drain, overdue, execVars, ownerVars, closer,
                 faults>>

(* What happens to the waiter the scan stopped at: found to be overdue, it *)
(* is answered; or its command is handed to the executor; or the executor  *)
(* cannot be started.  The slot is spent on it in any case.                *)
GrantAt(slot) ==
  LET class == Schedule[slot + 1]
      c     == Head(queue[class])
  IN  /\ queue' = [queue EXCEPT ![class] = Tail(@)]
      /\ cursor' = NextCursor(slot)
      /\ \/ /\ c \in overdue
            /\ call' = Answered({c})
            /\ passed' = [passed EXCEPT ![class] = 0]
            /\ UNCHANGED <<active, drain, closer, execVars, faults>>
         \/ /\ c \notin overdue
            /\ active' = c
            /\ exec' = [exec EXCEPT ![c] = "given"]
            /\ flag' = [flag EXCEPT ![c] = "granted"]
            /\ passed' = [k \in Classes |->
                 IF k = class \/ queue[k] = <<>> THEN 0 ELSE passed[k] + 1]
            /\ UNCHANGED <<call, drain, closer, faults>>
         \/ /\ c \notin overdue /\ faults < MaxFaults
            /\ call' = Answered({c})
            /\ faults' = faults + 1
            /\ passed' = [passed EXCEPT ![class] = 0]
            /\ ClearActive
            /\ UNCHANGED execVars

(* One round of grant_loop.                                                *)
Grant ==
  /\ phase = "granting"
  /\ \E slot \in 0..Len(Schedule) - 1 : ScanStopsAt(slot) /\ GrantAt(slot)
  /\ GrantLoop
  /\ UNCHANGED <<closing, asked, overdue, ownerVars>>

(* Variant: the flag is read, and not claimed.                             *)
ClaimNothing(c) == flag' = flag

(* claim_unstarted: cancelled is final, and loses only against started.    *)
Claim(c) ==
  flag' = IF flag[c] = "granted" THEN [flag EXCEPT ![c] = "cancelled"] ELSE flag

(* A caller gave up or is gone.  A command that started keeps the permit;  *)
(* one that did not is abandoned and its executor killed; a waiter leaves  *)
(* its queue.                                                              *)
Abandon(c) ==
  /\ \/ /\ active = c /\ flag[c] = "started"
        /\ UNCHANGED <<queue, flag>> /\ KeepActive
     \/ /\ active = c /\ flag[c] # "started"
        /\ Claim(c) /\ UNCHANGED queue /\ ClearActive
     \/ /\ active # c /\ c \notin Waiters
        /\ UNCHANGED <<queue, flag>> /\ KeepActive
     \/ /\ \E i \in DOMAIN queue[ClassOf[c]] :
             /\ queue[ClassOf[c]][i] = c
             /\ queue' = [queue EXCEPT ![ClassOf[c]] = RemoveAt(@, i)]
        /\ UNCHANGED flag /\ KeepActive
  /\ call' = [call EXCEPT ![c] = "idle"]
  /\ GrantLoop
  /\ UNCHANGED <<closing, cursor, passed, asked, overdue, exec, ownerVars, faults>>

Cancel(c) ==
  /\ phase = "serving" /\ call[c] = "cancelling" /\ c \notin asked
  /\ Abandon(c)

(* The caller's DOWN; the client is a new process from here on.            *)
CallerDown(c) ==
  /\ phase = "serving" /\ call[c] = "dead" /\ c \notin asked
  /\ Abandon(c)

(* admitted_command_done                                                   *)
Done(c) ==
  /\ phase = "serving" /\ active = c /\ exec[c] = "replied"
  /\ exec' = [exec EXCEPT ![c] = "none"]
  /\ UNCHANGED queue /\ ClearActive /\ GrantLoop
  /\ UNCHANGED <<closing, cursor, passed, callVars, flag, ownerVars, faults>>

(* Variant: the permit is freed whatever the command has done.             *)
ExecutorDownReleases(c) ==
  /\ phase = "serving" /\ active = c /\ exec[c] = "crashed"
  /\ call' = Answered({c})
  /\ exec' = [exec EXCEPT ![c] = "none"]
  /\ Claim(c) /\ UNCHANGED queue /\ ClearActive /\ GrantLoop
  /\ UNCHANGED <<closing, cursor, passed, asked, overdue, ownerVars, faults>>

(* The executor's DOWN: the caller is told.  If the command had started,   *)
(* the permit is kept until the owner has drained.                         *)
ExecutorDown(c) ==
  /\ phase = "serving" /\ active = c /\ exec[c] = "crashed"
  /\ call' = Answered({c})
  /\ exec' = [exec EXCEPT ![c] = "none"]
  /\ Claim(c) /\ UNCHANGED queue
  /\ \/ /\ flag[c] # "started" /\ ClearActive
     \/ /\ flag[c] = "started" /\ drain' = "wanted"
        /\ UNCHANGED <<active, closer>>
  /\ GrantLoop
  /\ UNCHANGED <<closing, cursor, passed, asked, overdue, ownerVars, faults>>

DrainStarts ==
  /\ phase = "serving" /\ drain = "wanted"
  /\ drain' = "syncing"
  /\ UNCHANGED <<phase, closing, active, queue, cursor, passed, callVars,
                 execVars, ownerVars, closer, faults>>

(* The sync answered: nothing that was at the owner before it is left.     *)
DrainEnds ==
  /\ phase = "serving" /\ drain = "syncing" /\ mailbox = <<>>
  /\ UNCHANGED queue /\ ClearActive /\ GrantLoop
  /\ UNCHANGED <<closing, cursor, passed, callVars, execVars, ownerVars, faults>>

(* Variant: a failed drain is not tried again.                             *)
DrainFailsSilently ==
  /\ drain = "syncing" /\ faults < MaxFaults
  /\ drain' = "none" /\ faults' = faults + 1
  /\ UNCHANGED <<phase, closing, active, queue, cursor, passed, callVars,
                 execVars, ownerVars, closer>>

(* The drain task dies or its call exits: it is started again.             *)
DrainFails ==
  /\ drain = "syncing" /\ faults < MaxFaults
  /\ drain' = "wanted" /\ faults' = faults + 1
  /\ UNCHANGED <<phase, closing, active, queue, cursor, passed, callVars,
                 execVars, ownerVars, closer>>

-----------------------------------------------------------------------------
(* The executor and the owner.                                             *)

(* begin: the caller is alive and the flag is won.                         *)
ExecutorStarts(c) ==
  /\ exec[c] = "given" /\ flag[c] = "granted" /\ call[c] # "dead"
  /\ exec' = [exec EXCEPT ![c] = "started"]
  /\ flag' = [flag EXCEPT ![c] = "started"]
  /\ UNCHANGED <<schedVars, callVars, ownerVars, closer, faults>>

(* begin answers :cancel, or the scheduler's kill arrives first.           *)
ExecutorDeclines(c) ==
  /\ exec[c] = "given" /\ (flag[c] = "cancelled" \/ call[c] = "dead")
  /\ exec' = [exec EXCEPT ![c] = "none"]
  /\ UNCHANGED <<schedVars, callVars, flag, ownerVars, closer, faults>>

(* run_owner_fun: nothing is called past the deadline, or without an owner. *)
ExecutorCalls(c) ==
  /\ exec[c] = "started"
  /\ \/ /\ c \notin overdue /\ ownerUp
        /\ exec' = [exec EXCEPT ![c] = "called"]
        /\ mailbox' = Append(mailbox, c)
     \/ /\ c \in overdue \/ ~ownerUp
        /\ exec' = [exec EXCEPT ![c] = "returned"]
        /\ UNCHANGED mailbox
  /\ UNCHANGED <<schedVars, callVars, flag, ownerUp, late, closer, faults>>

(* The owner's answer releases the executor that waits for it.             *)
OwnerFinishes ==
  /\ mailbox # <<>>
  /\ LET c == Head(mailbox)
     IN  /\ exec' = IF c \in late \/ exec[c] # "called" THEN exec
                    ELSE [exec EXCEPT ![c] = "returned"]
         /\ late' = late \ {c}
  /\ mailbox' = Tail(mailbox)
  /\ UNCHANGED <<schedVars, callVars, flag, ownerUp, closer, faults>>

(* The call to the owner exits at the deadline; the command stays there.   *)
OwnerCallTimesOut(c) ==
  /\ exec[c] = "called" /\ c \in overdue
  /\ exec' = [exec EXCEPT ![c] = "returned"]
  /\ late' = late \cup {c}
  /\ UNCHANGED <<schedVars, callVars, flag, ownerUp, mailbox, closer, faults>>

(* report_completion: the caller first, then the scheduler (Done).         *)
ExecutorReplies(c) ==
  /\ exec[c] = "returned"
  /\ exec' = [exec EXCEPT ![c] = "replied"]
  /\ call' = Answered({c})
  /\ UNCHANGED <<schedVars, asked, overdue, flag, ownerVars, closer, faults>>

ExecutorDies(c) ==
  /\ exec[c] \notin {"none", "crashed"} /\ faults < MaxFaults
  /\ exec' = [exec EXCEPT ![c] = "crashed"]
  /\ faults' = faults + 1
  /\ UNCHANGED <<schedVars, callVars, flag, ownerVars, closer>>

-----------------------------------------------------------------------------
(* Deaths of the scheduler and the owner, and the restart.                 *)

(* Everything the scheduler holds is lost and its callers' calls exit,     *)
(* but the executor lives until its supervisor stops it.  The owner's      *)
(* death leads here too: the runtime restarts what comes after it.         *)
SchedulerDies ==
  /\ phase # "down"
  /\ \/ faults < MaxFaults /\ faults' = faults + 1
     \/ ~ownerUp /\ faults' = faults
  /\ phase' = "down" /\ closing' = FALSE /\ active' = None
  /\ queue' = [k \in Classes |-> <<>>] /\ cursor' = 0 /\ drain' = "none"
  /\ passed' = [k \in Classes |-> 0]
  /\ asked' = {} /\ call' = [c \in Clients |-> "idle"]
  /\ closer' = IF closer = "parked" THEN "none" ELSE closer
  /\ UNCHANGED <<overdue, execVars, ownerVars>>

OwnerDies ==
  /\ ownerUp /\ faults < MaxFaults
  /\ ownerUp' = FALSE /\ faults' = faults + 1
  /\ mailbox' = <<>> /\ late' = {}
  /\ exec' = [c \in Clients |-> IF exec[c] = "called" THEN "returned" ELSE exec[c]]
  /\ drain' = IF drain = "syncing" THEN "wanted" ELSE drain
  /\ UNCHANGED <<phase, closing, active, queue, cursor, passed, callVars, flag,
                 closer>>

(* one_for_all: the executors are stopped before the scheduler starts.     *)
Restart ==
  /\ phase = "down"
  /\ phase' = "starting" /\ ownerUp' = TRUE
  /\ exec' = [c \in Clients |-> "none"]
  /\ UNCHANGED <<closing, active, queue, cursor, drain, passed, callVars, flag,
                 mailbox, late, closer, faults>>

(* init: sync_owner_before_accepting.                                      *)
StartServing ==
  /\ phase = "starting" /\ mailbox = <<>>
  /\ phase' = "serving"
  /\ UNCHANGED <<closing, active, queue, cursor, drain, passed, callVars,
                 execVars, ownerVars, closer, faults>>

-----------------------------------------------------------------------------
(* drain_admission: begin_close, then await_idle.                          *)

BeginClose ==
  /\ phase = "serving" /\ closer = "none"
  /\ closing' = TRUE /\ closer' = "begun"
  /\ queue' = [k \in Classes |-> <<>>]
  /\ call' = Answered(Waiters)
  /\ UNCHANGED <<phase, active, cursor, drain, passed, asked, overdue, execVars,
                 ownerVars, faults>>

AwaitIdle ==
  /\ closer = "begun"
  /\ \/ phase = "down" /\ closer' = "none"
     \/ /\ phase = "serving"
        /\ closer' = IF active = None /\ Waiters = {} THEN "drained" ELSE "parked"
  /\ UNCHANGED <<schedVars, callVars, execVars, ownerVars, faults>>

(* The wait for idleness timed out, or a later step of the close failed.   *)
CancelClose ==
  /\ phase \in {"serving", "down"} /\ closer \in {"parked", "drained"}
  /\ closing' = FALSE /\ closer' = "none"
  /\ UNCHANGED <<phase, active, queue, cursor, drain, passed, callVars, execVars,
                 ownerVars, faults>>

-----------------------------------------------------------------------------
ClientNext(c) ==
  \/ Issue(c) \/ DeadlinePasses(c) \/ CallerTimesOut(c) \/ CallerDies(c)

HandlerNext(c) ==
  \/ Acquire(c) \/ Cancel(c) \/ CallerDown(c) \/ Done(c) \/ ExecutorDown(c)

SchedulerNext == Grant \/ DrainStarts \/ DrainEnds \/ Restart \/ StartServing

ExecutorNext(c) ==
  \/ ExecutorStarts(c) \/ ExecutorDeclines(c) \/ ExecutorCalls(c)
  \/ ExecutorReplies(c)

Next ==
  \/ \E c \in Clients :
       \/ ClientNext(c) \/ HandlerNext(c) \/ ExecutorNext(c)
       \/ OwnerCallTimesOut(c) \/ ExecutorDies(c)
  \/ SchedulerNext \/ DrainFails \/ OwnerFinishes \/ SchedulerDies \/ OwnerDies
  \/ BeginClose \/ AwaitIdle \/ CancelClose

Spec == Init /\ [][Next]_vars

(* A message stays in the mailbox until its handler has run, in whatever   *)
(* state that finds the scheduler; a handler under way, the drain and the  *)
(* restart go on; the executor and the owner do what they have to do.      *)
(* Nothing is assumed of deadlines, deaths or the timeout of the close.    *)
Fairness ==
  /\ \A c \in Clients : SF_vars(HandlerNext(c)) /\ WF_vars(ExecutorNext(c))
  /\ WF_vars(SchedulerNext) /\ WF_vars(OwnerFinishes)

FairSpec == Spec /\ Fairness

-----------------------------------------------------------------------------
(* Properties.                                                             *)

(* Types of the variables; the cursor indexes the schedule, and only the   *)
(* granted client's drain can be under way.                                *)
TypeOK ==
  /\ phase \in {"serving", "granting", "down", "starting"}
  /\ closing \in BOOLEAN /\ ownerUp \in BOOLEAN
  /\ active \in Clients \cup {None}
  /\ queue \in [Classes -> Seq(Clients)]
  /\ cursor \in 0..Len(Schedule) - 1
  /\ drain \in {"none", "wanted", "syncing"}
  /\ asked \subseteq Clients /\ overdue \subseteq Clients
  /\ late \subseteq Clients
  /\ call \in [Clients -> {"idle", "waiting", "cancelling", "dead"}]
  /\ exec \in [Clients -> {"none", "given", "started", "called", "returned",
                           "replied", "crashed"}]
  /\ flag \in [Clients -> {"granted", "started", "cancelled"}]
  /\ mailbox \in Seq(Clients)
  /\ closer \in {"none", "begun", "parked", "drained"}
  /\ faults \in 0..MaxFaults
  /\ passed \in [Classes -> Nat]

(* At the owner there is never more than one command that its executor may *)
(* still be waiting for, whatever gave up or died: a started command keeps *)
(* the permit from its caller's cancellation and its executor's death      *)
(* (cancel_active, executor_down), and a new scheduler waits for the owner *)
(* (sync_owner_before_accepting).                                          *)
OneAtOwner == \A c, d \in ToSet(mailbox) \ late : c = d

(* A command whose caller was answered - cancelled, told of a crash, told  *)
(* it could not be started - cannot start any more.  Only the callers of a *)
(* scheduler that died learn of it before its executor is stopped.         *)
AnsweredNeverStarts ==
  phase # "down" =>
    \A c \in Clients :
      exec[c] = "given" /\ flag[c] = "granted" => call[c] # "idle"

(* The reserved slots of every class remain available to it: a class below *)
(* its reservation is never refused (AdmissionCapacity.accepts?).          *)
ReservationsKept ==
  Sum([k \in Classes |-> IF Reserved[k] > Occupancy[k]
                         THEN Reserved[k] ELSE Occupancy[k]]) <= Limit

(* Weighted round robin: before a class that waits has its next slot, the  *)
(* others are granted no more than their slots of one round, whatever is   *)
(* withdrawn meanwhile.  The slot may be spent on a waiter that is found   *)
(* overdue or cannot be started, and the others have a round again.        *)
BoundedPassing == \A k \in Classes : passed[k] <= Len(Schedule) - Weight[k]

(* When the close was told that admission is idle and has not been undone, *)
(* nothing is admitted, and the owner executes nothing anyone waits for.   *)
DrainedIsIdle ==
  closing /\ closer = "drained" =>
    active = None /\ Waiters = {} /\ ToSet(mailbox) \subseteq late

(* Every caller is answered, also if its deadline never passes.            *)
CallersAnswered == \A c \in Clients : call[c] = "waiting" ~> call[c] # "waiting"

(* await_idle answers without its timeout, unless the close it waits for   *)
(* was forgotten with the scheduler.                                       *)
CloseAnswered == closer = "parked" /\ closing ~> closer # "parked" \/ ~closing
=============================================================================
