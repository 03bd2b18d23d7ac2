-------------------------- MODULE AsyncWorkerProofs --------------------------
(***************************************************************************)
(* Proofs about AsyncWorker for any number of tasks and pool threads: its  *)
(* types, the ownership of the runnable and what retirement means.         *)
(***************************************************************************)
EXTENDS AsyncWorker, TLAPS

(* A thread that is somewhere in the code is about some task. *)
ThreadsHaveTasks ==
  /\ \A w \in Workers : pc[w] # "idle" => task[w] \in Tasks
  /\ pc[Owner] \in {"withdraw", "deleteWithdrawn"} => task[Owner] \in Tasks
  /\ pc[Owner] = "dropDelivery" => delivering \in Tasks

(* Who may delete a runnable, with what makes that stable: the pointer that  *)
(* cancel() could withdraw is cleared before the work begins, and a task     *)
(* that was not started has no runnable.                                     *)
Ownership ==
  /\ \A t \in Tasks : stage[t] # "tracked" => object[t] = "none"
  /\ poolQueue \subseteq runnable
  /\ \A t \in runnable : object[t] = "alive"
  /\ \A w \in Workers :
       /\ pc[w] # "deleteWithdrawn"
       /\ pc[w] # "idle" => object[task[w]] = "alive" /\ task[w] \notin poolQueue
       /\ pc[w] \notin {"idle", "dequeued"} => task[w] \notin runnable
       /\ \A v \in Workers : v # w /\ pc[v] # "idle" /\ pc[w] # "idle" => task[v] # task[w]
  /\ pc[Owner] = "deleteWithdrawn" =>
       /\ object[task[Owner]] = "alive"
       /\ task[Owner] \notin runnable
       /\ \A w \in Workers : pc[w] # "idle" => task[w] # task[Owner]

(* The payload is held by the thread that made it until its scope ends, and  *)
(* by the posted event until the owner has dropped it.                       *)
HasPayload == {"queueing", "unqueued", "withdraw", "release"}

PayloadHolders ==
  \A t \in Tasks :
    /\ "worker" \in payload[t] <=> \E w \in Workers : task[w] = t /\ pc[w] \in HasPayload
    /\ "event" \in payload[t] <=> t \in events \/ delivering = t
    /\ ~(t \in events /\ delivering = t)
    /\ payload[t] # {} => t \in disarmed
    /\ \A w \in Workers : task[w] = t /\ pc[w] = "queueing" => "event" \notin payload[t]

(* The runnable stays armed until the payload exists, and a disarmed one was *)
(* neither queued nor is it about to be started.                             *)
Disarming ==
  \A t \in disarmed :
    /\ t \notin runnable
    /\ object[t] # "none"
    /\ \A w \in Workers : Holds(w, t) => pc[w] \in HasPayload \cup {"deleteThis"}
    /\ ~(pc[Owner] = "deleteWithdrawn" /\ task[Owner] = t)

(* Retirement, and why nothing of the task is left when it happens. *)
Retirement ==
  \A t \in Tasks : retired[t] =>
    /\ t \notin runnable
    /\ object[t] # "none"
    /\ payload[t] = {}
    /\ \A w \in Workers : Holds(w, t) => t \in disarmed /\ pc[w] = "deleteThis"


(* Where a task is settled, and that a task is pending only until its finish *)
(* callback was called.                                                      *)
Settling ==
  /\ \A t \in Tasks :
       /\ active[t] => stage[t] = "tracked" /\ finishes[t] = 0
       /\ stage[t] = "new" => finishes[t] = 0
       /\ delivering = t => ~active[t]
       /\ retired[t] /\ ownerRunning => ~active[t]
  /\ \A w \in Workers :
       /\ pc[w] \in {"withdraw", "release"} /\ "event" \notin payload[task[w]] /\ ownerRunning
            => ~active[task[w]]
       /\ pc[w] = "deleteThis" /\ task[w] \notin disarmed => ~active[task[w]]
  /\ pc[Owner] \in {"withdraw", "deleteWithdrawn"} => ~active[task[Owner]]

Typing == TypeOK /\ ThreadsHaveTasks

IInv == Typing /\ Ownership /\ PayloadHolders /\ Disarming /\ Retirement /\ Settling

USE ThreadAssumption, NoTaskAssumption

(* Types and the tasks of the threads are preserved together: neither is     *)
(* inductive without the other.                                              *)
LEMMA TypeStep == Typing /\ [Next]_vars => Typing'
<1> SUFFICES ASSUME Typing, [Next]_vars PROVE Typing'
  OBVIOUS
<1> USE DEF Typing, TypeOK, ThreadsHaveTasks, Threads, OwnerPlaces, WorkerPlaces, PlacesOf, Goto, taskState, queueState,
        deliveryState, threadState
<1>1. ASSUME NEW t \in Tasks, OwnerCall(t) PROVE Typing'
  <2>1. CASE Start(t) BY <2>1 DEF Start
  <2>2. ASSUME NEW runs \in BOOLEAN, StartUntracked(t, runs) PROVE Typing'
    BY <2>2 DEF StartUntracked
  <2>3. CASE SetRetirementCallback(t) BY <2>3 DEF SetRetirementCallback
  <2>4. CASE Cancel(t) BY <2>4 DEF Cancel, Deactivate
  <2>5. CASE DestroyContext(t) BY <2>5 DEF DestroyContext
  <2> QED BY <1>1, <2>1, <2>2, <2>3, <2>4, <2>5 DEF OwnerCall
<1>2. ASSUME NEW t \in Tasks, OwnerStep(t) PROVE Typing'
  <2>1. CASE Receive(t) BY <2>1 DEF Receive, TakeRelay, SettleReceived, Deactivate
  <2>2. CASE ReleaseStoppedRelay(t) BY <2>2 DEF ReleaseStoppedRelay, TakeRelay
  <2>3. CASE DiscardEvent(t) BY <2>3 DEF DiscardEvent, ReleasePayload, Retire
  <2> QED BY <1>2, <2>1, <2>2, <2>3 DEF OwnerStep
<1>3. CASE OwnerReturn
  <2>1. CASE FinishReturns BY <2>1 DEF FinishReturns
  <2>2. CASE DropDelivery BY <2>2 DEF DropDelivery, ReleasePayload, Retire
  <2>3. CASE Withdraw(Owner) BY <2>3 DEF Withdraw, ForgetRunnable, AfterCancel
  <2>4. CASE DeleteWithdrawn(Owner)
    BY <2>4 DEF DeleteWithdrawn, DeleteRunnable, Retire, AfterCancel
  <2> QED BY <1>3, <2>1, <2>2, <2>3, <2>4 DEF OwnerReturn
<1>4. CASE OwnerStops BY <1>4 DEF OwnerStops
<1>5. ASSUME NEW w \in Workers, WorkerStep(w) PROVE Typing'
  <2>1. CASE MarkStarted(w) BY <2>1 DEF MarkStarted, ForgetRunnable
  <2>2. CASE CheckBeforeWork(w) BY <2>2 DEF CheckBeforeWork
  <2>3. CASE WorkReturns(w) BY <2>3 DEF WorkReturns
  <2>4. CASE CheckAfterWork(w) BY <2>4 DEF CheckAfterWork
  <2>5. CASE QueueDelivery(w) BY <2>5 DEF QueueDelivery
  <2>6. CASE CancelUnqueued(w) BY <2>6 DEF CancelUnqueued, TakeRelay, Deactivate
  <2>7. CASE Withdraw(w) BY <2>7 DEF Withdraw, ForgetRunnable, AfterCancel
  <2>8. CASE DeleteWithdrawn(w) BY <2>8 DEF DeleteWithdrawn, DeleteRunnable, Retire, AfterCancel
  <2>9. CASE ReleaseOwnPayload(w) BY <2>9 DEF ReleaseOwnPayload, ReleasePayload, Retire
  <2>10. CASE DeleteThis(w) BY <2>10 DEF DeleteThis, DeleteRunnable, Retire
  <2> QED BY <1>5, <2>1, <2>2, <2>3, <2>4, <2>5, <2>6, <2>7, <2>8, <2>9, <2>10 DEF WorkerStep
<1>6. ASSUME NEW w \in Workers, NEW t \in Tasks, Dequeue(w, t) PROVE Typing'
  BY <1>6 DEF Dequeue
<1>7. CASE UNCHANGED vars BY <1>7 DEF vars
<1> QED BY <1>1, <1>2, <1>3, <1>4, <1>5, <1>6, <1>7 DEF Next

(* The other parts, given the types of the next state. *)
LEMMA InvariantStep == IInv /\ Typing' /\ [Next]_vars => IInv'
<1> SUFFICES ASSUME IInv, Typing', [Next]_vars PROVE IInv'
  OBVIOUS
<1> USE DEF IInv, Typing, TypeOK, ThreadsHaveTasks, Threads, OwnerPlaces, WorkerPlaces, PlacesOf,
        Ownership, PayloadHolders, Disarming, Retirement, Settling, HasPayload, Holds,
        Goto, taskState, queueState, deliveryState, threadState
<1>1. ASSUME NEW t \in Tasks, OwnerCall(t) PROVE IInv'
  <2>1. CASE Start(t)
    <3> USE <2>1 DEF Start
    <3>1. object[t] = "none" /\ t \notin disarmed /\ payload[t] = {} /\ delivering # t
      OBVIOUS
    <3>2. ~retired[t] /\ \A w \in Workers : pc[w] # "idle" => task[w] # t
      OBVIOUS
    <3>3. Ownership' /\ PayloadHolders' /\ Disarming' /\ Retirement' BY <3>1, <3>2
    <3>4. Settling' BY <3>1, <3>2 DEF OwnerIdle
    <3> QED BY <3>3, <3>4
  <2>2. ASSUME NEW runs \in BOOLEAN, StartUntracked(t, runs) PROVE IInv'
    BY <2>2 DEF StartUntracked
  <2>3. CASE SetRetirementCallback(t) BY <2>3 DEF SetRetirementCallback
  <2>4. CASE Cancel(t) BY <2>4 DEF Cancel, Deactivate
  <2>5. CASE DestroyContext(t) BY <2>5 DEF DestroyContext
  <2> QED BY <1>1, <2>1, <2>2, <2>3, <2>4, <2>5 DEF OwnerCall
<1>2. ASSUME NEW t \in Tasks, OwnerStep(t) PROVE IInv'
  <2>1. CASE Receive(t)
    <3> USE <2>1 DEF Receive
    <3>1. Ownership' /\ Disarming' /\ Retirement' OBVIOUS
    <3>2. PayloadHolders' OBVIOUS
    <3>3. active' = [active EXCEPT ![t] = FALSE] /\ (active[t] => finishes[t] = 0)
      BY DEF SettleReceived, Deactivate
    <3>4. \A u \in Tasks : u # t => finishes'[u] = finishes[u]
      OBVIOUS
    <3>5. Settling' BY <3>3, <3>4
    <3> QED BY <3>1, <3>2, <3>5
  <2>2. CASE ReleaseStoppedRelay(t) BY <2>2 DEF ReleaseStoppedRelay
  <2>3. CASE DiscardEvent(t) BY <2>3 DEF DiscardEvent, ReleasePayload, Retire
  <2> QED BY <1>2, <2>1, <2>2, <2>3 DEF OwnerStep
<1>3. CASE OwnerReturn
  <2>1. CASE FinishReturns BY <2>1 DEF FinishReturns
  <2>2. CASE DropDelivery BY <2>2 DEF DropDelivery, ReleasePayload, Retire
  <2>3. CASE Withdraw(Owner) BY <2>3 DEF Withdraw, CanWithdraw, ForgetRunnable, AfterCancel
  <2>4. CASE DeleteWithdrawn(Owner)
    BY <2>4 DEF DeleteWithdrawn, DeleteRunnable, Retire, AfterCancel
  <2> QED BY <1>3, <2>1, <2>2, <2>3, <2>4 DEF OwnerReturn
<1>4. CASE OwnerStops BY <1>4 DEF OwnerStops
<1>5. ASSUME NEW w \in Workers, WorkerStep(w) PROVE IInv'
  <2>1. CASE MarkStarted(w) BY <2>1 DEF MarkStarted, ForgetRunnable
  <2>2. CASE CheckBeforeWork(w) BY <2>2 DEF CheckBeforeWork
  <2>3. CASE WorkReturns(w) BY <2>3 DEF WorkReturns
  <2>4. CASE CheckAfterWork(w) BY <2>4 DEF CheckAfterWork
  <2>5. CASE QueueDelivery(w) BY <2>5 DEF QueueDelivery
  <2>6. CASE CancelUnqueued(w) BY <2>6 DEF CancelUnqueued, Deactivate
  <2>7. CASE Withdraw(w) BY <2>7 DEF Withdraw, CanWithdraw, ForgetRunnable, AfterCancel
  <2>8. CASE DeleteWithdrawn(w) BY <2>8 DEF DeleteWithdrawn
  <2>9. CASE ReleaseOwnPayload(w) BY <2>9 DEF ReleaseOwnPayload, ReleasePayload, Retire
  <2>10. CASE DeleteThis(w) BY <2>10 DEF DeleteThis, DeleteRunnable, Retire
  <2> QED BY <1>5, <2>1, <2>2, <2>3, <2>4, <2>5, <2>6, <2>7, <2>8, <2>9, <2>10 DEF WorkerStep
<1>6. ASSUME NEW w \in Workers, NEW t \in Tasks, Dequeue(w, t) PROVE IInv'
  BY <1>6 DEF Dequeue
<1>7. CASE UNCHANGED vars BY <1>7 DEF vars
<1> QED BY <1>1, <1>2, <1>3, <1>4, <1>5, <1>6, <1>7 DEF Next

(* The conjunction of the parts above is inductive. *)
THEOREM Inductive == Spec => []IInv
<1>1. Init => IInv
  BY DEF Init, IInv, Typing, TypeOK, ThreadsHaveTasks, Threads, OwnerPlaces, WorkerPlaces, PlacesOf,
         Ownership, PayloadHolders, Disarming, Retirement, Settling, HasPayload, Holds
<1>2. IInv /\ [Next]_vars => IInv'
  BY TypeStep, InvariantStep DEF IInv
<1> QED BY <1>1, <1>2, PTL DEF Spec

(* Every variable keeps its type: AsyncWorker has no state a step forgets.   *)
THEOREM TypeCorrect == Spec => []TypeOK
<1>1. IInv => TypeOK BY DEF IInv, Typing
<1> QED BY <1>1, Inductive, PTL

(* The runnable is deleted once, by its only owner, and nobody keeps a       *)
(* pointer to it.                                                            *)
THEOREM RunnableIsOwned == Spec => []RunnableOwnership
<1>1. IInv => OneOwner
  BY DEF IInv, Typing, TypeOK, ThreadsHaveTasks, Threads, Ownership, OneOwner, Holds
<1>2. IInv => NoDanglingRunnable
  BY DEF IInv, Ownership, NoDanglingRunnable, Threads
<1> QED BY <1>1, <1>2, Inductive, PTL DEF RunnableOwnership

(* When a task retires, its work, result and callbacks are gone.             *)
THEOREM RetirementIsQuiescent == Spec => []RetiredIsQuiescent
<1>1. IInv => RetiredIsQuiescent
  BY DEF IInv, Ownership, PayloadHolders, Retirement, RetiredIsQuiescent, Holds
<1> QED BY <1>1, Inductive, PTL

(* On a running owner thread a task is settled before it retires.            *)
THEOREM SettledFirst == Spec => []SettledBeforeRetired
<1>1. IInv => SettledBeforeRetired
  BY DEF IInv, Settling, SettledBeforeRetired
<1> QED BY <1>1, Inductive, PTL

-----------------------------------------------------------------------------
(* The refinement: a step of the worker is a step of the contract of one     *)
(* task, or changes no outcome and releases nothing.                         *)

(* A step that concerns one task changes one outcome. *)
LEMMA OutcomeOfOne ==
  ASSUME NEW t \in Tasks,
         \A u \in Tasks \ {t} : outcomeOf(u)' = outcomeOf(u)
  PROVE  outcome' = [outcome EXCEPT ![t] = outcomeOf(t)']
BY DEF outcome

(* Every step is a step of the contract or a stutter. *)
LEMMA ContractStep == IInv /\ IInv' /\ [Next]_vars => [Contract!Next]_(Contract!vars)
<1> SUFFICES ASSUME IInv, IInv', [Next]_vars PROVE [Contract!Next]_(Contract!vars)
  OBVIOUS
<1> USE DEF IInv, Typing, TypeOK
<1>0. ASSUME stage' = stage, active' = active, retired' = retired, finishes' = finishes
      PROVE  Contract!vars' = Contract!vars
  BY <1>0 DEF Contract!vars, outcome, outcomeOf, held
<1>1. ASSUME NEW t \in Tasks, active[t], active' = [active EXCEPT ![t] = FALSE],
             stage' = stage, retired' = retired, finishes' = finishes
      PROVE  Contract!Drop(t)
  <2>1. outcomeOf(t) = "pending" /\ outcomeOf(t)' = "dropped"
    BY <1>1 DEF outcomeOf, Settling
  <2>2. \A u \in Tasks \ {t} : outcomeOf(u)' = outcomeOf(u)
    BY <1>1 DEF outcomeOf
  <2>3. held' = held
    BY <1>1 DEF held
  <2> QED BY <2>1, <2>2, <2>3, OutcomeOfOne DEF Contract!Drop, Contract!Settle, outcome
<1>2. ASSUME NEW t \in Tasks, NEW T \in SUBSET {t}, Retire(T), stage[t] = "tracked",
             stage' = stage, active' = active, finishes' = finishes
      PROVE  Contract!Retire(t) \/ Contract!vars' = Contract!vars
  BY <1>2 DEF Contract!Retire, Contract!vars, Retire, outcome, outcomeOf, held
<1>3. ASSUME NEW t \in Tasks, OwnerCall(t) PROVE Contract!Next \/ Contract!vars' = Contract!vars
  <2>1. CASE Start(t)
    <3>1. ~retired[t] BY <2>1 DEF Start, Ownership, Retirement
    <3>2. outcomeOf(t) = "absent" /\ outcomeOf(t)' = "pending"
      BY <2>1 DEF Start, outcomeOf
    <3>3. \A u \in Tasks \ {t} : outcomeOf(u)' = outcomeOf(u)
      BY <2>1 DEF Start, outcomeOf
    <3>4. held' = held \cup {t}
      BY <2>1, <3>1 DEF Start, held
    <3>5. Contract!Begin(t)
      BY <3>2, <3>3, <3>4, OutcomeOfOne DEF Contract!Begin, Contract!Settle, outcome
    <3> QED BY <3>5 DEF Contract!Next
  <2>2. ASSUME NEW runs \in BOOLEAN, StartUntracked(t, runs) PROVE Contract!Decline(t)
    <3> USE <2>2 DEF StartUntracked, taskState
    <3>1. outcomeOf(t) = "absent" /\ outcomeOf(t)' \in {"delivered", "dropped"}
      BY DEF outcomeOf, Settling
    <3>2. \A u \in Tasks \ {t} : outcomeOf(u)' = outcomeOf(u)
      BY DEF outcomeOf
    <3>3. held' = held
      BY DEF held
    <3> QED BY <3>1, <3>2, <3>3, OutcomeOfOne DEF Contract!Decline, Contract!Settle, outcome
  <2>3. CASE SetRetirementCallback(t) BY <1>0, <2>3 DEF SetRetirementCallback
  <2>4. CASE Cancel(t)
    <3>1. Contract!Drop(t) BY <1>1, <2>4 DEF Cancel, Deactivate
    <3> QED BY <3>1 DEF Contract!Next
  <2>5. CASE DestroyContext(t) BY <1>0, <2>5 DEF DestroyContext, taskState
  <2> QED BY <1>3, <2>1, <2>2, <2>3, <2>4, <2>5 DEF OwnerCall, Contract!Next
<1>4. ASSUME NEW t \in Tasks, OwnerStep(t) PROVE Contract!Next \/ Contract!vars' = Contract!vars
  <2>1. CASE Receive(t)
    <3> USE <2>1 DEF Receive, SettleReceived, Deactivate
    <3>1. CASE Deliverable(t)
      <4>1. stage[t] = "tracked" /\ ~retired[t] /\ finishes[t] = 0 /\ active[t]
        BY <3>1 DEF Deliverable, Settling, PayloadHolders, Retirement
      <4>2. outcomeOf(t) = "pending" /\ outcomeOf(t)' = "delivered"
        BY <3>1, <4>1 DEF outcomeOf
      <4>3. \A u \in Tasks \ {t} : outcomeOf(u)' = outcomeOf(u)
        BY <3>1 DEF outcomeOf
      <4>4. t \in held /\ held' = held
        BY <4>1 DEF held
      <4>5. Contract!Deliver(t)
        BY <4>2, <4>3, <4>4, OutcomeOfOne DEF Contract!Deliver, Contract!Settle, outcome
      <4> QED BY <4>5 DEF Contract!Next
    <3>2. CASE active[t] /\ ~Deliverable(t)
      <4>1. finishes' = finishes /\ stage' = stage /\ retired' = retired BY <3>2
      <4>2. Contract!Drop(t) BY <1>1, <3>2, <4>1
      <4> QED BY <4>2 DEF Contract!Next
    <3>3. CASE ~active[t] /\ ~Deliverable(t)
      <4>1. finishes' = finishes /\ active' = active /\ stage' = stage /\ retired' = retired
        BY <3>3
      <4> QED BY <1>0, <4>1
    <3> QED BY <3>1, <3>2, <3>3 DEF Deliverable
  <2>2. CASE ReleaseStoppedRelay(t) BY <1>0, <2>2 DEF ReleaseStoppedRelay, taskState
  <2>3. CASE DiscardEvent(t)
    <3>1. stage[t] = "tracked"
      BY <2>3 DEF DiscardEvent, PayloadHolders, Disarming, Ownership
    <3> DEFINE T == {u \in {t} : payload[u] = {"event"}}
    <3>2. T \in SUBSET {t} /\ Retire(T) BY <2>3 DEF DiscardEvent, ReleasePayload
    <3>3. stage' = stage /\ active' = active /\ finishes' = finishes BY <2>3 DEF DiscardEvent
    <3> HIDE DEF T
    <3> QED BY <1>2, <3>1, <3>2, <3>3 DEF Contract!Next
  <2> QED BY <1>4, <2>1, <2>2, <2>3 DEF OwnerStep
<1>5. CASE OwnerReturn
  <2>1. CASE FinishReturns BY <1>0, <2>1 DEF FinishReturns, taskState
  <2>2. CASE DropDelivery
    <3>1. delivering \in Tasks /\ stage[delivering] = "tracked"
      BY <2>2 DEF DropDelivery, ThreadsHaveTasks, PayloadHolders, Disarming, Ownership
    <3> DEFINE T == {u \in {delivering} : payload[u] = {"event"}}
    <3>2. T \in SUBSET {delivering} /\ Retire(T) BY <2>2 DEF DropDelivery, ReleasePayload
    <3>3. stage' = stage /\ active' = active /\ finishes' = finishes BY <2>2 DEF DropDelivery
    <3> HIDE DEF T
    <3> QED BY <1>2, <3>1, <3>2, <3>3 DEF Contract!Next
  <2>3. CASE Withdraw(Owner) BY <1>0, <2>3 DEF Withdraw, taskState
  <2>4. CASE DeleteWithdrawn(Owner)
    <3>1. task[Owner] \in Tasks /\ stage[task[Owner]] = "tracked"
      BY <2>4 DEF DeleteWithdrawn, ThreadsHaveTasks, Ownership
    <3> DEFINE T == {task[Owner]} \ disarmed
    <3>2. T \in SUBSET {task[Owner]} /\ Retire(T) BY <2>4 DEF DeleteWithdrawn, DeleteRunnable
    <3>3. stage' = stage /\ active' = active /\ finishes' = finishes BY <2>4 DEF DeleteWithdrawn
    <3> HIDE DEF T
    <3> QED BY <1>2, <3>1, <3>2, <3>3 DEF Contract!Next
  <2> QED BY <1>5, <2>1, <2>2, <2>3, <2>4 DEF OwnerReturn
<1>6. CASE OwnerStops BY <1>0, <1>6 DEF OwnerStops, taskState
<1>7. ASSUME NEW w \in Workers, WorkerStep(w) PROVE Contract!Next \/ Contract!vars' = Contract!vars
  <2>1. CASE MarkStarted(w) BY <1>0, <2>1 DEF MarkStarted, taskState
  <2>2. CASE CheckBeforeWork(w) BY <1>0, <2>2 DEF CheckBeforeWork, taskState
  <2>3. CASE WorkReturns(w) BY <1>0, <2>3 DEF WorkReturns, taskState
  <2>4. CASE CheckAfterWork(w) BY <1>0, <2>4 DEF CheckAfterWork, taskState
  <2>5. CASE QueueDelivery(w) BY <1>0, <2>5 DEF QueueDelivery, taskState
  <2>6. CASE CancelUnqueued(w)
    <3> USE <2>6 DEF CancelUnqueued, Deactivate
    <3>1. task[w] \in Tasks BY DEF ThreadsHaveTasks
    <3>2. CASE active[task[w]]
      <4>1. Contract!Drop(task[w]) BY <1>1, <3>1, <3>2
      <4> QED BY <3>1, <4>1 DEF Contract!Next
    <3>3. CASE ~active[task[w]]
      <4>1. active' = active BY <3>1, <3>3
      <4> QED BY <1>0, <4>1
    <3> QED BY <3>2, <3>3
  <2>7. CASE Withdraw(w) BY <1>0, <2>7 DEF Withdraw, taskState
  <2>8. CASE DeleteWithdrawn(w) BY <2>8 DEF DeleteWithdrawn, Ownership
  <2>9. CASE ReleaseOwnPayload(w)
    <3>1. task[w] \in Tasks /\ stage[task[w]] = "tracked"
      BY <2>9 DEF ReleaseOwnPayload, ThreadsHaveTasks, Ownership
    <3> DEFINE T == {u \in {task[w]} : payload[u] = {"worker"}}
    <3>2. T \in SUBSET {task[w]} /\ Retire(T) BY <2>9 DEF ReleaseOwnPayload, ReleasePayload
    <3>3. stage' = stage /\ active' = active /\ finishes' = finishes BY <2>9 DEF ReleaseOwnPayload
    <3> HIDE DEF T
    <3> QED BY <1>2, <3>1, <3>2, <3>3 DEF Contract!Next
  <2>10. CASE DeleteThis(w)
    <3>1. task[w] \in Tasks /\ stage[task[w]] = "tracked"
      BY <2>10 DEF DeleteThis, ThreadsHaveTasks, Ownership
    <3> DEFINE T == {task[w]} \ disarmed
    <3>2. T \in SUBSET {task[w]} /\ Retire(T) BY <2>10 DEF DeleteThis, DeleteRunnable
    <3>3. stage' = stage /\ active' = active /\ finishes' = finishes BY <2>10 DEF DeleteThis
    <3> HIDE DEF T
    <3> QED BY <1>2, <3>1, <3>2, <3>3 DEF Contract!Next
  <2> QED BY <1>7, <2>1, <2>2, <2>3, <2>4, <2>5, <2>6, <2>7, <2>8, <2>9, <2>10 DEF WorkerStep
<1>8. ASSUME NEW w \in Workers, NEW t \in Tasks, Dequeue(w, t) PROVE Contract!vars' = Contract!vars
  BY <1>0, <1>8 DEF Dequeue, taskState
<1>9. CASE UNCHANGED vars BY <1>0, <1>9 DEF vars, taskState
<1> QED BY <1>3, <1>4, <1>5, <1>6, <1>7, <1>8, <1>9 DEF Next

(* runAsyncWorker keeps the contract of a cancellable task: no finish after  *)
(* a cancel or a retirement, at most one finish and one retirement.          *)
THEOREM Refinement == Spec => ImplementsContract
<1>1. Init => Contract!Init
  BY DEF Init, Contract!Init, outcome, outcomeOf, held
<1> QED BY <1>1, ContractStep, Inductive, PTL DEF Spec, Contract!Spec, ImplementsContract
=============================================================================
