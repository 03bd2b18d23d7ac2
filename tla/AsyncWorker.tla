----------------------------- MODULE AsyncWorker -----------------------------
(***************************************************************************)
(* runAsyncWorker (app/src/async/imageasyncworker.h): a unit of work runs  *)
(* on a thread of a QThreadPool and its result is delivered to the thread  *)
(* of a context object, through a relay QObject that lives there.  Four    *)
(* objects share the task, each with a mutex of its own, and two kinds of  *)
(* threads use them: the owner thread (of the context) and pool threads.   *)
(* A step below is what happens between two lock operations; everything a  *)
(* critical section does is one step.                                      *)
(*                                                                         *)
(* The pool queue and the owner's event queue are sets: QThreadPool and Qt *)
(* keep them in order, and no property here depends on that order.         *)
(***************************************************************************)
EXTENDS Naturals

CONSTANTS
  Tasks,     \* the calls of runAsyncWorker
  Workers,   \* the threads of the pool
  Owner,     \* the thread the context objects live in
  NoTask     \* the task of a thread that works on none

ASSUME ThreadAssumption == Owner \notin Workers
ASSUME NoTaskAssumption == NoTask \notin Tasks

Threads == Workers \cup {Owner}

VARIABLES
  stage,         \* "new"; "tracked": the caller holds a task; "untracked": it got {}
  active,        \* ImageWorkerTaskState::m_active
  retired,       \* ImageWorkerTaskState::m_retired
  callback,      \* the retirement callback: "unset", "armed", "fired"
  runnable,      \* the tasks whose AsyncWorkerQueueState::m_runnable is not null
  object,        \* the AsyncWorkerRunnable: "none", "alive", "deleted"
  disarmed,      \* the tasks whose runnable handed its retirement to a payload
  poolQueue,     \* the runnables waiting in the pool
  relay,         \* AsyncWorkerDeliveryState::m_relay: "none", "live", "taken"
  payload,       \* who holds the shared payload: "worker", "event"
  events,        \* the deliveries posted to a relay and not yet received
  context,       \* the tasks whose context object (m_guardedContext) is alive
  ownerRunning,  \* FALSE after QThread::finished of the owner thread
  delivering,    \* the task whose finish callback the owner runs, or NoTask
  pc, task,      \* each thread's place in the code and the task it is about
  finishes       \* how often each task's finish callback was called

taskState == <<active, retired, callback>>
queueState == <<runnable, object, disarmed, poolQueue>>
deliveryState == <<relay, payload, events, context, ownerRunning>>
threadState == <<delivering, pc, task>>
vars == <<stage, taskState, queueState, deliveryState, threadState, finishes>>

OwnerPlaces == {"idle", "withdraw", "deleteWithdrawn", "dropDelivery"}
WorkerPlaces == {"idle", "dequeued", "started", "working", "worked", "queueing",
                 "unqueued", "withdraw", "deleteWithdrawn", "release", "deleteThis"}
PlacesOf(th) == IF th = Owner THEN OwnerPlaces ELSE WorkerPlaces

TypeOK ==
  /\ stage \in [Tasks -> {"new", "tracked", "untracked"}]
  /\ active \in [Tasks -> BOOLEAN]
  /\ retired \in [Tasks -> BOOLEAN]
  /\ callback \in [Tasks -> {"unset", "armed", "fired"}]
  /\ runnable \in SUBSET Tasks
  /\ object \in [Tasks -> {"none", "alive", "deleted"}]
  /\ disarmed \in SUBSET Tasks
  /\ poolQueue \in SUBSET Tasks
  /\ relay \in [Tasks -> {"none", "live", "taken"}]
  /\ payload \in [Tasks -> SUBSET {"worker", "event"}]
  /\ events \in SUBSET Tasks
  /\ context \in SUBSET Tasks
  /\ ownerRunning \in BOOLEAN
  /\ delivering \in Tasks \cup {NoTask}
  /\ pc \in [Threads -> OwnerPlaces \cup WorkerPlaces]
  /\ \A th \in Threads : pc[th] \in PlacesOf(th)
  /\ task \in [Threads -> Tasks \cup {NoTask}]
  /\ finishes \in [Tasks -> Nat]

Init ==
  /\ stage = [t \in Tasks |-> "new"]
  /\ active = [t \in Tasks |-> FALSE]
  /\ retired = [t \in Tasks |-> FALSE]
  /\ callback = [t \in Tasks |-> "unset"]
  /\ runnable = {}
  /\ object = [t \in Tasks |-> "none"]
  /\ disarmed = {}
  /\ poolQueue = {}
  /\ relay = [t \in Tasks |-> "none"]
  /\ payload = [t \in Tasks |-> {}]
  /\ events = {}
  /\ context = Tasks
  /\ ownerRunning = TRUE
  /\ delivering = NoTask
  /\ pc = [th \in Threads |-> "idle"]
  /\ task = [th \in Threads |-> NoTask]
  /\ finishes = [t \in Tasks |-> 0]

-----------------------------------------------------------------------------
(* The effects the steps share. *)

Goto(th, place, t) ==
  /\ pc' = [pc EXCEPT ![th] = place]
  /\ task' = [task EXCEPT ![th] = t]

Retire(T) ==  \* retire() of the tasks in T: the callback runs at most once
  /\ retired' = [t \in Tasks |-> retired[t] \/ t \in T]
  /\ callback' = [t \in Tasks |-> IF t \in T /\ ~retired[t] /\ callback[t] = "armed"
                                  THEN "fired" ELSE callback[t]]

ReleasePayload(t, holder) ==  \* the last holder destroys the payload, which retires
  /\ payload' = [payload EXCEPT ![t] = @ \ {holder}]
  /\ Retire({u \in {t} : payload[u] = {holder}})

TakeRelay(t) == relay' = [relay EXCEPT ![t] = "taken"]

DeleteIgnoringDisarm(t) ==  \* a mutation: the runnable retires even after disarm()
  /\ object' = [object EXCEPT ![t] = "deleted"]
  /\ Retire({t})
  /\ relay' = [relay EXCEPT ![t] = IF "event" \in payload[t] THEN @ ELSE "taken"]

DeleteKeepingRelay(t) ==  \* a mutation: nothing releases the relay with its last owner
  /\ object' = [object EXCEPT ![t] = "deleted"]
  /\ Retire({t} \ disarmed)
  /\ relay' = relay

DeleteRunnable(t) ==  \* the last owner of the delivery state releases the relay
  /\ object' = [object EXCEPT ![t] = "deleted"]
  /\ Retire({t} \ disarmed)
  /\ relay' = [relay EXCEPT ![t] = IF "event" \in payload[t] THEN @ ELSE "taken"]

Deactivate(t) == active' = [active EXCEPT ![t] = FALSE]

DeliverIfAlive(t) == relay[t] = "live" /\ t \in context  \* a mutation: cancellation unseen

Deliverable(t) == active[t] /\ relay[t] = "live" /\ t \in context

SettleDeliverable(t) ==  \* a mutation: a dead context returns without cancelling
  active' = [active EXCEPT ![t] = @ /\ ~Deliverable(t)]

SettleReceived(t) == Deactivate(t)  \* the claim, or the cancellation for want of a receiver

CanWithdraw(t) == t \in runnable \cap poolQueue  \* m_runnable is set and tryTake finds it

KeepRunnable(t) == runnable' = runnable  \* a mutation: m_runnable survives the start

ForgetRunnable(t) == runnable' = runnable \ {t}

AfterCancelRelease(th) == "release"  \* a mutation: every cancel returns into run()

AfterCancel(th) ==  \* where the thread that cancelled continues
  CASE th # Owner -> "release"
    [] th = Owner /\ delivering = task[Owner] -> "dropDelivery"
    [] OTHER -> "idle"

OwnerIdle == ownerRunning /\ pc[Owner] = "idle"

-----------------------------------------------------------------------------
(* The owner thread.  It starts and cancels tasks from its event loop and  *)
(* from inside a finish callback (delivering # NoTask).                     *)

Start(t) ==
  /\ OwnerIdle
  /\ stage[t] = "new"
  /\ stage' = [stage EXCEPT ![t] = "tracked"]
  /\ active' = [active EXCEPT ![t] = TRUE]
  /\ relay' = [relay EXCEPT ![t] = "live"]
  /\ object' = [object EXCEPT ![t] = "alive"]
  /\ runnable' = runnable \cup {t}
  /\ poolQueue' = poolQueue \cup {t}
  /\ UNCHANGED <<retired, callback, disarmed, payload, events, context, ownerRunning,
                 threadState, finishes>>

StartUntracked(t, runs) ==  \* without a pool the work runs here; without a thread, never
  /\ OwnerIdle
  /\ stage[t] = "new"
  /\ stage' = [stage EXCEPT ![t] = "untracked"]
  /\ finishes' = [finishes EXCEPT ![t] = IF runs THEN @ + 1 ELSE @]
  /\ UNCHANGED <<taskState, queueState, deliveryState, threadState>>

SetRetirementCallback(t) ==
  /\ OwnerIdle
  /\ stage[t] # "new"
  /\ callback[t] = "unset"
  /\ callback' = [callback EXCEPT ![t] =
                    IF stage[t] = "untracked" \/ retired[t] THEN "fired" ELSE "armed"]
  /\ UNCHANGED <<stage, active, retired, queueState, deliveryState, threadState, finishes>>

Cancel(t) ==  \* also the destructor and the move assignment of ImageWorkerTask
  /\ OwnerIdle
  /\ active[t]
  /\ Deactivate(t)
  /\ Goto(Owner, "withdraw", t)
  /\ UNCHANGED <<stage, retired, callback, queueState, deliveryState, delivering, finishes>>

DestroyContext(t) ==
  /\ OwnerIdle
  /\ t \in context
  /\ context' = context \ {t}
  /\ UNCHANGED <<stage, taskState, queueState, relay, payload, events, ownerRunning,
                 threadState, finishes>>

Receive(t) ==
  /\ OwnerIdle
  /\ delivering = NoTask
  /\ t \in events
  /\ events' = events \ {t}
  /\ TakeRelay(t)
  /\ SettleReceived(t)
  /\ delivering' = t
  /\ \/ Deliverable(t) /\ Goto(Owner, "idle", NoTask)
     \/ active[t] /\ ~Deliverable(t) /\ Goto(Owner, "withdraw", t)
     \/ ~active[t] /\ ~Deliverable(t) /\ Goto(Owner, "dropDelivery", NoTask)
  /\ finishes' = [finishes EXCEPT ![t] = IF Deliverable(t) THEN @ + 1 ELSE @]
  /\ UNCHANGED <<stage, retired, callback, queueState, payload, context, ownerRunning>>

FinishReturns ==
  /\ OwnerIdle
  /\ delivering # NoTask
  /\ Goto(Owner, "dropDelivery", NoTask)
  /\ UNCHANGED <<stage, taskState, queueState, deliveryState, delivering, finishes>>

DropDelivery ==
  /\ pc[Owner] = "dropDelivery"
  /\ ReleasePayload(delivering, "event")
  /\ delivering' = NoTask
  /\ Goto(Owner, "idle", NoTask)
  /\ UNCHANGED <<stage, active, queueState, relay, events, context, ownerRunning, finishes>>

OwnerStops ==  \* QThread::finished
  /\ OwnerIdle
  /\ delivering = NoTask
  /\ ownerRunning' = FALSE
  /\ UNCHANGED <<stage, taskState, queueState, relay, payload, events, context, threadState,
                 finishes>>

ReleaseStoppedRelay(t) ==  \* the direct connection to finished
  /\ ~ownerRunning
  /\ relay[t] = "live"
  /\ TakeRelay(t)
  /\ UNCHANGED <<stage, taskState, queueState, payload, events, context, ownerRunning,
                 threadState, finishes>>

DiscardEvent(t) ==  \* the relay's deferred deletion discards what was posted to it
  /\ ~ownerRunning
  /\ t \in events
  /\ relay[t] = "taken"
  /\ events' = events \ {t}
  /\ ReleasePayload(t, "event")
  /\ UNCHANGED <<stage, active, queueState, relay, context, ownerRunning, threadState,
                 finishes>>

-----------------------------------------------------------------------------
(* The cancel callback, on the thread that cancelled. *)

Withdraw(th) ==
  LET t == task[th] IN
  /\ pc[th] = "withdraw"
  /\ \/ /\ CanWithdraw(t)
        /\ ForgetRunnable(t)
        /\ poolQueue' = poolQueue \ {t}
        /\ Goto(th, "deleteWithdrawn", t)
     \/ /\ ~CanWithdraw(t)
        /\ Goto(th, AfterCancel(th), IF th = Owner THEN NoTask ELSE t)
        /\ UNCHANGED <<runnable, poolQueue>>
  /\ UNCHANGED <<stage, taskState, object, disarmed, deliveryState, delivering, finishes>>

DeleteWithdrawn(th) ==
  /\ pc[th] = "deleteWithdrawn"
  /\ DeleteRunnable(task[th])
  /\ Goto(th, AfterCancel(th), IF th = Owner THEN NoTask ELSE task[th])
  /\ UNCHANGED <<stage, active, runnable, disarmed, poolQueue, payload, events, context,
                 ownerRunning, delivering, finishes>>

-----------------------------------------------------------------------------
(* A thread of the pool: AsyncWorkerRunnable::run. *)

Dequeue(w, t) ==
  /\ pc[w] = "idle"
  /\ t \in poolQueue
  /\ poolQueue' = poolQueue \ {t}
  /\ Goto(w, "dequeued", t)
  /\ UNCHANGED <<stage, taskState, runnable, object, disarmed, deliveryState, delivering,
                 finishes>>

MarkStarted(w) ==
  /\ pc[w] = "dequeued"
  /\ ForgetRunnable(task[w])
  /\ Goto(w, "started", task[w])
  /\ UNCHANGED <<stage, taskState, object, disarmed, poolQueue, deliveryState, delivering,
                 finishes>>

CheckBeforeWork(w) ==
  /\ pc[w] = "started"
  /\ Goto(w, IF active[task[w]] THEN "working" ELSE "deleteThis", task[w])
  /\ UNCHANGED <<stage, taskState, queueState, deliveryState, delivering, finishes>>

WorkReturns(w) ==
  /\ pc[w] = "working"
  /\ Goto(w, "worked", task[w])
  /\ UNCHANGED <<stage, taskState, queueState, deliveryState, delivering, finishes>>

CheckAfterWork(w) ==
  LET t == task[w] IN
  /\ pc[w] = "worked"
  /\ \/ /\ active[t]
        /\ payload' = [payload EXCEPT ![t] = {"worker"}]
        /\ disarmed' = disarmed \cup {t}
        /\ Goto(w, "queueing", t)
     \/ /\ ~active[t]
        /\ Goto(w, "deleteThis", t)
        /\ UNCHANGED <<payload, disarmed>>
  /\ UNCHANGED <<stage, taskState, runnable, object, poolQueue, relay, events, context,
                 ownerRunning, delivering, finishes>>

QueueDelivery(w) ==
  LET t == task[w] IN
  /\ pc[w] = "queueing"
  /\ \/ /\ relay[t] = "live"
        /\ events' = events \cup {t}
        /\ payload' = [payload EXCEPT ![t] = @ \cup {"event"}]
        /\ Goto(w, "release", t)
     \/ /\ relay[t] # "live"
        /\ Goto(w, "unqueued", t)
        /\ UNCHANGED <<events, payload>>
  /\ UNCHANGED <<stage, taskState, queueState, relay, context, ownerRunning, delivering,
                 finishes>>

CancelUnqueued(w) ==  \* releaseRelay() finds the relay already taken
  LET t == task[w] IN
  /\ pc[w] = "unqueued"
  /\ TakeRelay(t)
  /\ Deactivate(t)
  /\ Goto(w, IF active[t] THEN "withdraw" ELSE "release", t)
  /\ UNCHANGED <<stage, retired, callback, queueState, payload, events, context, ownerRunning,
                 delivering, finishes>>

ReleaseOwnPayload(w) ==
  /\ pc[w] = "release"
  /\ ReleasePayload(task[w], "worker")
  /\ Goto(w, "deleteThis", task[w])
  /\ UNCHANGED <<stage, active, queueState, relay, events, context, ownerRunning, delivering,
                 finishes>>

DeleteThis(w) ==
  /\ pc[w] = "deleteThis"
  /\ DeleteRunnable(task[w])
  /\ Goto(w, "idle", NoTask)
  /\ UNCHANGED <<stage, active, runnable, disarmed, poolQueue, payload, events, context,
                 ownerRunning, delivering, finishes>>

-----------------------------------------------------------------------------
OwnerCall(t) ==  \* what the application may do; nothing makes it do so
  \/ Start(t)
  \/ \E runs \in BOOLEAN : StartUntracked(t, runs)
  \/ SetRetirementCallback(t)
  \/ Cancel(t)
  \/ DestroyContext(t)

OwnerStep(t) == Receive(t) \/ ReleaseStoppedRelay(t) \/ DiscardEvent(t)

OwnerReturn == FinishReturns \/ DropDelivery \/ Withdraw(Owner) \/ DeleteWithdrawn(Owner)

WorkerStep(w) ==
  \/ MarkStarted(w) \/ CheckBeforeWork(w) \/ WorkReturns(w) \/ CheckAfterWork(w)
  \/ QueueDelivery(w) \/ CancelUnqueued(w) \/ Withdraw(w) \/ DeleteWithdrawn(w)
  \/ ReleaseOwnPayload(w) \/ DeleteThis(w)

Next ==
  \/ \E t \in Tasks : OwnerCall(t) \/ OwnerStep(t)
  \/ OwnerReturn
  \/ OwnerStops
  \/ \E w \in Workers : WorkerStep(w) \/ \E t \in Tasks : Dequeue(w, t)

Spec == Init /\ [][Next]_vars

(* The event loop of a running owner serves every posted event, a stopped one *)
(* releases its relays, a callback returns, a pool thread runs until it is    *)
(* idle, and the pool starts every queued runnable (QThreadPool is FIFO among *)
(* equal priorities).  Nothing obliges the application to call.               *)
Fairness ==
  /\ \A t \in Tasks : WF_vars(OwnerStep(t)) /\ WF_vars(\E w \in Workers : Dequeue(w, t))
  /\ WF_vars(OwnerReturn)
  /\ \A w \in Workers : WF_vars(WorkerStep(w))

FairSpec == Spec /\ Fairness

-----------------------------------------------------------------------------
Holds(w, t) == task[w] = t /\ pc[w] # "idle"

(* A runnable has one owner at a time - the pool's queue, the pool thread    *)
(* that runs it or the thread that withdrew it - however cancellation and    *)
(* the start of the work are interleaved: it is deleted once.                *)
OneOwner ==
  \A t \in Tasks : \A w \in Workers :
    Holds(w, t) =>
      /\ t \notin poolQueue
      /\ \A v \in Workers \ {w} : ~Holds(v, t)
      /\ ~(pc[Owner] = "deleteWithdrawn" /\ task[Owner] = t)

(* No pointer to a deleted runnable survives: what the queue state or the    *)
(* pool still points to is alive (tryTake compares the pointer), and so is   *)
(* what a pool thread runs or a withdrawing thread is about to delete.       *)
NoDanglingRunnable ==
  /\ \A t \in runnable \cup poolQueue : object[t] = "alive"
  /\ \A w \in Workers : pc[w] # "idle" => object[task[w]] = "alive"
  /\ \A th \in Threads : pc[th] = "deleteWithdrawn" => object[task[th]] = "alive"

RunnableOwnership == OneOwner /\ NoDanglingRunnable

(* Retirement is the signal on which callers release admission and identity: *)
(* at that time the work no longer runs and no result and no finish callback *)
(* of the task is left anywhere.                                             *)
RetiredIsQuiescent ==
  \A t \in Tasks : retired[t] =>
    /\ t \notin poolQueue \cup events
    /\ payload[t] = {}
    /\ delivering # t
    /\ \A w \in Workers : Holds(w, t) => pc[w] = "deleteThis"

(* While the owner thread runs, retirement never comes before the outcome is *)
(* settled: the task was delivered or cancelled.                             *)
SettledBeforeRetired == \A t \in Tasks : retired[t] /\ ownerRunning => ~active[t]

(* Every task retires, whatever becomes of its context and its owner; its    *)
(* relay is gone then, and no retirement callback is left waiting.           *)
EveryTaskRetires ==
  \A t \in Tasks : (stage[t] = "tracked") ~>
    [](retired[t] /\ relay[t] = "taken" /\ callback[t] # "armed")

(* The contract of a cancellable task, implemented by the steps above.       *)
outcomeOf(t) ==
  IF stage[t] = "new" THEN "absent"
  ELSE IF active[t] THEN "pending"
  ELSE IF finishes[t] > 0 THEN "delivered" ELSE "dropped"
outcome == [t \in Tasks |-> outcomeOf(t)]
held == {t \in Tasks : stage[t] = "tracked" /\ ~retired[t]}
Contract == INSTANCE TaskContract
ImplementsContract == Contract!Spec

(* tst_imageioworkerjob.cpp:186 expects a task whose owner thread stopped to *)
(* be inactive.                                                              *)
StoppedOwnerCancels == \A t \in Tasks : retired[t] => ~active[t]
=============================================================================
