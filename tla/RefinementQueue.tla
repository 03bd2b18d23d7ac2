--------------------------- MODULE RefinementQueue ---------------------------
(***************************************************************************)
(* The refinement scheduler (app/src/async/imagerefinementscheduler.cpp):  *)
(* one queue for the whole process admits one refinement at a time.  An    *)
(* admitted execution keeps its place while its operation runs on the one  *)
(* thread of the queue's pool, while its result waits for the thread of    *)
(* its context, and until that thread is done with it; only then is the    *)
(* next one admitted.  The last holder of a RefinementDeliveryRetirement,  *)
(* the pool thread or the posted event, retires it.                        *)
(*                                                                         *)
(* A step is what happens between two lock operations.  When an execution  *)
(* that is no longer queued is canceled, cancel(id) finds nothing under    *)
(* the queue's lock; that part of the cancellation has no step.            *)
(***************************************************************************)
EXTENDS Naturals

CONSTANTS
  Tasks,     \* the calls of schedule
  Owners,    \* the threads of the context objects
  Home,      \* the owner of each task's context
  Pool,      \* the thread of m_pool
  NoTask     \* no execution

ASSUME HomeAssumption == Home \in [Tasks -> Owners]
ASSUME PoolAssumption == Pool \notin Owners
ASSUME NoTaskAssumption == NoTask \notin Tasks

Threads == Owners \cup {Pool}

VARIABLES
  stage,         \* "new"; "tracked": the caller holds a task; "untracked": it got {}
  active,        \* ImageWorkerTaskState::m_active
  retired,       \* ImageWorkerTaskState::m_retired
  callback,      \* the retirement callback: "unset", "armed", "fired"
  queued,        \* m_queued, as the set of its executions
  turn, pushed,  \* when each was pushed to m_queued, and how many were: its order
  admitted,      \* m_active, or NoTask
  poolQueue,     \* the runnables waiting in m_pool
  operation,     \* the executions that have their operation
  completion,    \* the executions that have their completion
  relay,         \* AsyncWorkerDeliveryState::m_relay: "none", "live", "taken"
  retirement,    \* who holds the RefinementDeliveryRetirement: "pool", "event"
  events,        \* the deliveries posted to a relay and not yet received
  context,       \* the tasks whose context object is alive
  running,       \* the owners that did not finish
  delivering,    \* the task whose completion each owner runs, or NoTask
  pc, task,      \* each thread's place in the code and the task it is about
  next,          \* the local `next` of schedule() and retire()
  finishes       \* how often each task's completion was called

taskState == <<active, retired, callback>>
queueState == <<queued, turn, pushed, admitted>>
executionState == <<operation, completion, retirement>>
relayState == <<relay, events>>
ownerState == <<context, running>>
threadState == <<pc, task, next>>
vars == <<stage, taskState, queueState, poolQueue, executionState, relayState, ownerState,
          delivering, threadState, finishes>>

RetirePlaces == {"retire", "admit", "notify"}
OwnerPlaces == {"idle", "withdraw", "withdrawn", "dropDelivery", "start"} \cup RetirePlaces
PoolPlaces == {"idle", "dequeued", "working", "worked", "queueing", "unqueued", "release",
               "start"} \cup RetirePlaces
PlacesOf(th) == IF th = Pool THEN PoolPlaces ELSE OwnerPlaces

TypeOK ==
  /\ stage \in [Tasks -> {"new", "tracked", "untracked"}]
  /\ active \in [Tasks -> BOOLEAN]
  /\ retired \in [Tasks -> BOOLEAN]
  /\ callback \in [Tasks -> {"unset", "armed", "fired"}]
  /\ queued \in SUBSET Tasks
  /\ turn \in [Tasks -> Nat]
  /\ pushed \in Nat
  /\ admitted \in Tasks \cup {NoTask}
  /\ poolQueue \in SUBSET Tasks
  /\ operation \in SUBSET Tasks
  /\ completion \in SUBSET Tasks
  /\ relay \in [Tasks -> {"none", "live", "taken"}]
  /\ retirement \in [Tasks -> SUBSET {"pool", "event"}]
  /\ events \in SUBSET Tasks
  /\ context \in SUBSET Tasks
  /\ running \in SUBSET Owners
  /\ delivering \in [Owners -> Tasks \cup {NoTask}]
  /\ pc \in [Threads -> OwnerPlaces \cup PoolPlaces]
  /\ \A th \in Threads : pc[th] \in PlacesOf(th)
  /\ task \in [Threads -> Tasks \cup {NoTask}]
  /\ next \in [Threads -> Tasks \cup {NoTask}]
  /\ finishes \in [Tasks -> Nat]

Init ==
  /\ stage = [t \in Tasks |-> "new"]
  /\ active = [t \in Tasks |-> FALSE]
  /\ retired = [t \in Tasks |-> FALSE]
  /\ callback = [t \in Tasks |-> "unset"]
  /\ queued = {}
  /\ turn = [t \in Tasks |-> 0]
  /\ pushed = 0
  /\ admitted = NoTask
  /\ poolQueue = {}
  /\ operation = {}
  /\ completion = {}
  /\ relay = [t \in Tasks |-> "none"]
  /\ retirement = [t \in Tasks |-> {}]
  /\ events = {}
  /\ context = Tasks
  /\ running = Owners
  /\ delivering = [o \in Owners |-> NoTask]
  /\ pc = [th \in Threads |-> "idle"]
  /\ task = [th \in Threads |-> NoTask]
  /\ next = [th \in Threads |-> NoTask]
  /\ finishes = [t \in Tasks |-> 0]

-----------------------------------------------------------------------------
(* The effects the steps share. *)

Goto(th, place, t) ==
  /\ pc' = [pc EXCEPT ![th] = place]
  /\ task' = [task EXCEPT ![th] = t]

Deactivate(t) == active' = [active EXCEPT ![t] = FALSE]

KeepActive(t) == active' = active  \* a mutation: retire() does not cancel

RetireTask(t) ==  \* ImageWorkerTaskState::retire
  /\ retired' = [retired EXCEPT ![t] = TRUE]
  /\ callback' = [callback EXCEPT ![t] = IF @ = "armed" /\ ~retired[t] THEN "fired" ELSE @]

LastInLine(t, waiting) == \A u \in waiting : turn'[u] <= turn'[t]  \* a mutation: pop_back

FirstInLine(t, waiting) == \A u \in waiting : turn'[t] <= turn'[u]

TakeBeside(th, waiting, busy) ==  \* a mutation: m_active is not looked at
  \/ /\ waiting = {}
     /\ queued' = waiting
     /\ admitted' = busy
     /\ next' = [next EXCEPT ![th] = NoTask]
  \/ \E t \in waiting :
       /\ FirstInLine(t, waiting)
       /\ queued' = waiting \ {t}
       /\ admitted' = t
       /\ next' = [next EXCEPT ![th] = t]

TakeNext(th, waiting, busy) ==  \* takeNextLocked; busy: m_active
  \/ /\ busy # NoTask \/ waiting = {}
     /\ queued' = waiting
     /\ admitted' = busy
     /\ next' = [next EXCEPT ![th] = NoTask]
  \/ /\ busy = NoTask
     /\ \E t \in waiting :
          /\ FirstInLine(t, waiting)
          /\ queued' = waiting \ {t}
          /\ admitted' = t
          /\ next' = [next EXCEPT ![th] = t]

ReleaseRetirement(th, t, holder) ==  \* its destructor retires the execution
  /\ retirement' = [retirement EXCEPT ![t] = @ \ {holder}]
  /\ IF retirement[t] = {holder} THEN Goto(th, "retire", t) ELSE Goto(th, "idle", NoTask)

DeliverableIfAlive(t) == relay[t] = "live" /\ t \in context  \* a mutation: cancellation unseen

Deliverable(t) == active[t] /\ relay[t] = "live" /\ t \in context

ReadyToCall(o) == o \in running /\ pc[o] = "idle"

-----------------------------------------------------------------------------
(* The thread of a task's context: calls from its event loop or from inside  *)
(* a completion (delivering # NoTask), and the delivery of results.          *)

Schedule(t) ==
  LET o == Home[t] IN
  /\ ReadyToCall(o)
  /\ stage[t] = "new"
  /\ stage' = [stage EXCEPT ![t] = "tracked"]
  /\ active' = [active EXCEPT ![t] = TRUE]
  /\ relay' = [relay EXCEPT ![t] = "live"]
  /\ operation' = operation \cup {t}
  /\ completion' = completion \cup {t}
  /\ pushed' = pushed + 1
  /\ turn' = [turn EXCEPT ![t] = pushed']
  /\ TakeNext(o, queued \cup {t}, admitted)
  /\ Goto(o, "start", NoTask)
  /\ UNCHANGED <<retired, callback, poolQueue, retirement, events, ownerState, delivering,
                 finishes>>

ScheduleRefused(t) ==  \* without a context or an operation
  /\ ReadyToCall(Home[t])
  /\ stage[t] = "new"
  /\ stage' = [stage EXCEPT ![t] = "untracked"]
  /\ UNCHANGED <<taskState, queueState, poolQueue, executionState, relayState, ownerState,
                 delivering, threadState, finishes>>

SetRetirementCallback(t) ==
  /\ ReadyToCall(Home[t])
  /\ stage[t] # "new"
  /\ callback[t] = "unset"
  /\ callback' = [callback EXCEPT ![t] =
                    IF stage[t] = "untracked" \/ retired[t] THEN "fired" ELSE "armed"]
  /\ UNCHANGED <<stage, active, retired, queueState, poolQueue, executionState, relayState,
                 ownerState, delivering, threadState, finishes>>

Cancel(t) ==
  /\ ReadyToCall(Home[t])
  /\ active[t]
  /\ Deactivate(t)
  /\ Goto(Home[t], "withdraw", t)
  /\ UNCHANGED <<stage, retired, callback, queueState, poolQueue, executionState, relayState,
                 ownerState, delivering, next, finishes>>

Withdraw(o) ==  \* cancel(id)
  LET t == task[o] IN
  /\ pc[o] = "withdraw"
  /\ IF t \in queued THEN Goto(o, "withdrawn", t) ELSE Goto(o, "idle", NoTask)
  /\ queued' = queued \ {t}
  /\ UNCHANGED <<stage, taskState, turn, pushed, admitted, poolQueue, executionState,
                 relayState, ownerState, delivering, next, finishes>>

RetireWithdrawn(o) ==
  LET t == task[o] IN
  /\ pc[o] = "withdrawn"
  /\ operation' = operation \ {t}
  /\ completion' = completion \ {t}
  /\ relay' = [relay EXCEPT ![t] = "taken"]
  /\ RetireTask(t)
  /\ Goto(o, "idle", NoTask)
  /\ UNCHANGED <<stage, active, queueState, poolQueue, retirement, events, ownerState,
                 delivering, next, finishes>>

DestroyContext(t) ==
  /\ ReadyToCall(Home[t])
  /\ t \in context
  /\ context' = context \ {t}
  /\ UNCHANGED <<stage, taskState, queueState, poolQueue, executionState, relayState, running,
                 delivering, threadState, finishes>>

Receive(t) ==  \* RefinementDeliveryRetirement::deliver: the claim, or the cancellation
  LET o == Home[t] IN
  /\ ReadyToCall(o)
  /\ delivering[o] = NoTask
  /\ t \in events
  /\ events' = events \ {t}
  /\ relay' = [relay EXCEPT ![t] = "taken"]
  /\ Deactivate(t)
  /\ delivering' = [delivering EXCEPT ![o] = t]
  /\ Goto(o, IF Deliverable(t) THEN "idle" ELSE "dropDelivery", NoTask)
  /\ finishes' = [finishes EXCEPT ![t] = IF Deliverable(t) THEN @ + 1 ELSE @]
  /\ UNCHANGED <<stage, retired, callback, queueState, poolQueue, executionState, ownerState,
                 next>>

CompletionReturns(o) ==
  /\ ReadyToCall(o)
  /\ delivering[o] # NoTask
  /\ Goto(o, "dropDelivery", NoTask)
  /\ UNCHANGED <<stage, taskState, queueState, poolQueue, executionState, relayState,
                 ownerState, delivering, next, finishes>>

DropDelivery(o) ==  \* the end of deliver(), then of the event
  LET t == delivering[o] IN
  /\ pc[o] = "dropDelivery"
  /\ completion' = completion \ {t}
  /\ delivering' = [delivering EXCEPT ![o] = NoTask]
  /\ ReleaseRetirement(o, t, "event")
  /\ UNCHANGED <<stage, taskState, queueState, poolQueue, operation, relayState, ownerState,
                 next, finishes>>

OwnerStops(o) ==  \* QThread::finished
  /\ ReadyToCall(o)
  /\ delivering[o] = NoTask
  /\ running' = running \ {o}
  /\ UNCHANGED <<stage, taskState, queueState, poolQueue, executionState, relayState, context,
                 delivering, threadState, finishes>>

ReleaseStoppedRelay(t) ==  \* the direct connection to finished
  /\ Home[t] \notin running
  /\ relay[t] = "live"
  /\ relay' = [relay EXCEPT ![t] = "taken"]
  /\ UNCHANGED <<stage, taskState, queueState, poolQueue, executionState, events, ownerState,
                 delivering, threadState, finishes>>

DiscardEvent(t) ==  \* the relay's deferred deletion discards what was posted to it
  LET o == Home[t] IN
  /\ o \notin running
  /\ pc[o] = "idle"
  /\ t \in events
  /\ relay[t] = "taken"
  /\ events' = events \ {t}
  /\ ReleaseRetirement(o, t, "event")
  /\ UNCHANGED <<stage, taskState, queueState, poolQueue, operation, completion, relay,
                 ownerState, delivering, next, finishes>>

-----------------------------------------------------------------------------
(* The thread of the pool: RefinementRunnable::run and workReturned. *)

Dequeue(t) ==
  /\ pc[Pool] = "idle"
  /\ t \in poolQueue
  /\ poolQueue' = poolQueue \ {t}
  /\ Goto(Pool, "dequeued", t)
  /\ UNCHANGED <<stage, taskState, queueState, executionState, relayState, ownerState,
                 delivering, next, finishes>>

CheckBeforeWork ==
  /\ pc[Pool] = "dequeued"
  /\ Goto(Pool, IF active[task[Pool]] THEN "working" ELSE "worked", task[Pool])
  /\ UNCHANGED <<stage, taskState, queueState, poolQueue, executionState, relayState,
                 ownerState, delivering, next, finishes>>

WorkReturns ==
  /\ pc[Pool] = "working"
  /\ Goto(Pool, "worked", task[Pool])
  /\ UNCHANGED <<stage, taskState, queueState, poolQueue, executionState, relayState,
                 ownerState, delivering, next, finishes>>

MakeRetirement ==
  LET t == task[Pool] IN
  /\ pc[Pool] = "worked"
  /\ operation' = operation \ {t}
  /\ retirement' = [retirement EXCEPT ![t] = {"pool"}]
  /\ Goto(Pool, "queueing", t)
  /\ UNCHANGED <<stage, taskState, queueState, poolQueue, completion, relayState, ownerState,
                 delivering, next, finishes>>

QueueDelivery ==
  LET t == task[Pool] IN
  /\ pc[Pool] = "queueing"
  /\ \/ /\ relay[t] = "live"
        /\ events' = events \cup {t}
        /\ retirement' = [retirement EXCEPT ![t] = @ \cup {"event"}]
        /\ Goto(Pool, "release", t)
     \/ /\ relay[t] # "live"
        /\ Goto(Pool, "unqueued", t)
        /\ UNCHANGED <<events, retirement>>
  /\ UNCHANGED <<stage, taskState, queueState, poolQueue, operation, completion, relay,
                 ownerState, delivering, next, finishes>>

CancelUnqueued ==  \* releaseRelay() finds the relay already taken
  LET t == task[Pool] IN
  /\ pc[Pool] = "unqueued"
  /\ relay' = [relay EXCEPT ![t] = "taken"]
  /\ Deactivate(t)
  /\ completion' = completion \ {t}
  /\ Goto(Pool, "release", t)
  /\ UNCHANGED <<stage, retired, callback, queueState, poolQueue, operation, retirement, events,
                 ownerState, delivering, next, finishes>>

ReleaseOwnRetirement ==
  /\ pc[Pool] = "release"
  /\ ReleaseRetirement(Pool, task[Pool], "pool")
  /\ UNCHANGED <<stage, taskState, queueState, poolQueue, operation, completion, relayState,
                 ownerState, delivering, next, finishes>>

-----------------------------------------------------------------------------
(* retire() and start(), on the thread that let the retirement go or, for    *)
(* start(), that scheduled.  The relay was taken before.                     *)

KeepCompletion(t) ==  \* a mutation: retire() leaves the completion to the task
  operation' = operation \ {t} /\ completion' = completion

ClearExecution(t) == operation' = operation \ {t} /\ completion' = completion \ {t}

CancelRetiring(t) == Deactivate(t)

Retire(th) ==
  LET t == task[th] IN
  /\ pc[th] = "retire"
  /\ ClearExecution(t)
  /\ CancelRetiring(t)
  /\ Goto(th, "admit", t)
  /\ UNCHANGED <<stage, retired, callback, queueState, poolQueue, retirement, relayState,
                 ownerState, delivering, next, finishes>>

AdmitNext(th) ==
  LET t == task[th] IN
  /\ pc[th] = "admit"
  /\ turn' = turn
  /\ \/ /\ admitted = t
        /\ TakeNext(th, queued, NoTask)
        /\ Goto(th, "notify", t)
     \/ /\ admitted # t
        /\ Goto(th, "idle", NoTask)
        /\ UNCHANGED <<queued, admitted, next>>
  /\ UNCHANGED <<stage, taskState, pushed, poolQueue, executionState, relayState, ownerState,
                 delivering, finishes>>

Notify(th) ==
  /\ pc[th] = "notify"
  /\ RetireTask(task[th])
  /\ Goto(th, "start", NoTask)
  /\ UNCHANGED <<stage, active, queueState, poolQueue, executionState, relayState, ownerState,
                 delivering, next, finishes>>

StartUnchecked(th) == {next[th]}  \* a mutation: start() does not look for a null pointer

StartOfOwner(th) == {next[th]} \ {NoTask, next[Pool]}  \* a mutation: not started by the pool thread

ToStart(th) == {next[th]} \ {NoTask}

Start(th) ==
  /\ pc[th] = "start"
  /\ poolQueue' = poolQueue \cup ToStart(th)
  /\ next' = [next EXCEPT ![th] = NoTask]
  /\ Goto(th, "idle", NoTask)
  /\ UNCHANGED <<stage, taskState, queueState, executionState, relayState, ownerState,
                 delivering, finishes>>

-----------------------------------------------------------------------------
OwnerCall(t) ==  \* what the application may do; nothing makes it do so
  \/ Schedule(t) \/ ScheduleRefused(t) \/ SetRetirementCallback(t) \/ Cancel(t)
  \/ DestroyContext(t)

OwnerStep(t) == Receive(t) \/ ReleaseStoppedRelay(t) \/ DiscardEvent(t)

OwnerReturn(o) == CompletionReturns(o) \/ DropDelivery(o) \/ Withdraw(o) \/ RetireWithdrawn(o)

PoolStep ==
  \/ \E t \in Tasks : Dequeue(t)
  \/ CheckBeforeWork \/ WorkReturns \/ MakeRetirement \/ QueueDelivery \/ CancelUnqueued
  \/ ReleaseOwnRetirement

RetireStep(th) == Retire(th) \/ AdmitNext(th) \/ Notify(th) \/ Start(th)

Next ==
  \/ \E t \in Tasks : OwnerCall(t) \/ OwnerStep(t)
  \/ \E o \in Owners : OwnerReturn(o) \/ OwnerStops(o)
  \/ PoolStep
  \/ \E th \in Threads : RetireStep(th)

Spec == Init /\ [][Next]_vars

(* As for AsyncWorker: event loops serve their events, a stopped owner       *)
(* releases its relays, operations and completions return, and no thread     *)
(* rests in the middle of a function.  Nothing obliges the application to    *)
(* call.                                                                     *)
Fairness ==
  /\ \A t \in Tasks : WF_vars(OwnerStep(t))
  /\ \A o \in Owners : WF_vars(OwnerReturn(o))
  /\ WF_vars(PoolStep)
  /\ \A th \in Threads : WF_vars(RetireStep(th))

FairSpec == Spec /\ Fairness

-----------------------------------------------------------------------------
(* Where an admitted execution is: on its way to the pool, in it, on its     *)
(* thread, in a posted event or handed to its context, until it is retired.  *)
AtWork == {"dequeued", "working", "worked", "queueing", "unqueued", "release"}
Retiring(th, t) == task[th] = t /\ pc[th] \in {"retire", "admit"}

InFlight(t) ==
  \/ t \in poolQueue \cup events
  \/ retirement[t] # {}
  \/ task[Pool] = t /\ pc[Pool] \in AtWork
  \/ \E o \in Owners : delivering[o] = t
  \/ \E th \in Threads : next[th] = t \/ Retiring(th, t)

(* Admission is exclusive and exact: an execution in flight is the admitted  *)
(* one, so that no operation starts before the previous result was handed    *)
(* over (tst_imagerefinementscheduler.cpp:112), and the admitted one is in   *)
(* flight, so that its place cannot be lost; nothing waits for a free place. *)
AdmissionIsExact ==
  /\ \A t \in Tasks : InFlight(t) <=> admitted = t
  /\ queued # {} => admitted # NoTask

(* No operation runs while one scheduled earlier waits.                      *)
ServedInOrder ==
  [][pc[Pool] # "working" /\ pc'[Pool] = "working"
       => \A u \in queued : turn[task[Pool]] < turn[u]]_vars

(* A retired task leaves nothing behind: no operation, completion, queued    *)
(* result or thread is about it.                                             *)
RetiredIsQuiescent ==
  \A t \in Tasks : retired[t] =>
    /\ t \notin queued \cup operation \cup completion
    /\ ~InFlight(t)
    /\ relay[t] # "live"

(* A task is delivered or canceled before it is retired, also when its       *)
(* owner's thread stops (tst_imagerefinementscheduler.cpp:246).              *)
SettledBeforeRetired == \A t \in Tasks : retired[t] => ~active[t]

(* Every task retires, whatever becomes of its context, its owner and the    *)
(* other owners, and no retirement callback is left waiting.                 *)
EveryTaskRetires ==
  \A t \in Tasks : (stage[t] = "tracked") ~> [](retired[t] /\ callback[t] # "armed")

(* The contract of a cancellable task, implemented by the steps above.       *)
outcomeOf(t) ==
  IF stage[t] = "new" THEN "absent"
  ELSE IF active[t] THEN "pending"
  ELSE IF finishes[t] > 0 THEN "delivered" ELSE "dropped"
outcome == [t \in Tasks |-> outcomeOf(t)]
held == {t \in Tasks : stage[t] = "tracked" /\ ~retired[t]}
Contract == INSTANCE TaskContract
ImplementsContract == Contract!Spec
=============================================================================
