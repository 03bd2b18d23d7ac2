------------------------ MODULE RefinementQueueProofs ------------------------
(***************************************************************************)
(* Proofs about RefinementQueue for any number of tasks and owners: one    *)
(* execution at a time from its admission to its retirement, in the order  *)
(* of scheduling, and what retirement leaves behind.                       *)
(***************************************************************************)
EXTENDS RefinementQueue, TLAPS

(* A thread that is somewhere in the code is about some task, and holds a    *)
(* next execution only until it started it.                                  *)
ThreadsHaveTasks ==
  /\ pc[Pool] \in AtWork => task[Pool] \in Tasks
  /\ \A o \in Owners :
       /\ pc[o] \in {"withdraw", "withdrawn"} => task[o] \in Tasks
       /\ pc[o] = "dropDelivery" => delivering[o] \in Tasks
  /\ \A th \in Threads :
       /\ pc[th] \in RetirePlaces => task[th] \in Tasks
       /\ pc[th] \notin {"notify", "start"} => next[th] = NoTask

(* The retirement is held by the pool thread until its scope ends and by the *)
(* posted event until its owner has dropped it, on the task's own thread.    *)
Holders ==
  \A t \in Tasks :
    /\ "pool" \in retirement[t]
         <=> task[Pool] = t /\ pc[Pool] \in {"queueing", "unqueued", "release"}
    /\ "event" \in retirement[t] <=> t \in events \/ delivering[Home[t]] = t
    /\ ~(t \in events /\ delivering[Home[t]] = t)
    /\ \A o \in Owners : delivering[o] = t => o = Home[t]
    /\ task[Pool] = t /\ pc[Pool] \in {"queueing", "unqueued"} => "event" \notin retirement[t]

(* An execution in flight is in one place: with a thread that will start it, *)
(* in the pool's queue, on the pool thread, with its retirement, or with the *)
(* thread that retires it.                                                   *)
Starting(th, t) == next[th] = t
Unreturned(t) == task[Pool] = t /\ pc[Pool] \in {"dequeued", "working", "worked"}

OnePlace ==
  \A t \in Tasks :
    /\ \A th \in Threads : Starting(th, t) =>
         /\ t \notin poolQueue /\ ~Unreturned(t) /\ retirement[t] = {}
         /\ \A other \in Threads :
              ~Retiring(other, t) /\ (other # th => ~Starting(other, t))
    /\ t \in poolQueue => ~Unreturned(t) /\ retirement[t] = {}
    /\ Unreturned(t) => retirement[t] = {}
    /\ \A th \in Threads : Retiring(th, t) =>
         /\ t \notin poolQueue /\ ~Unreturned(t) /\ retirement[t] = {}
         /\ \A other \in Threads \ {th} : ~Retiring(other, t)

(* The queue: pushed in order, and the admitted execution before them all.   *)
Order ==
  /\ \A t \in Tasks : stage[t] = "tracked" => turn[t] <= pushed
  /\ \A t, u \in Tasks :
       t # u /\ stage[t] = "tracked" /\ stage[u] = "tracked" => turn[t] # turn[u]
  /\ \A t \in queued : stage[t] = "tracked" /\ (admitted # NoTask => turn[admitted] < turn[t])
  /\ admitted # NoTask => stage[admitted] = "tracked"

(* Where a task is settled, and that a task is pending only until its        *)
(* completion was called.                                                    *)
Settling ==
  /\ \A t \in Tasks :
       /\ active[t] => stage[t] = "tracked" /\ finishes[t] = 0
       /\ stage[t] = "new" => finishes[t] = 0
       /\ \A o \in Owners : delivering[o] = t => ~active[t] /\ relay[t] # "live"
  /\ pc[Pool] = "release" /\ "event" \notin retirement[task[Pool]]
       => relay[task[Pool]] # "live"
  /\ \A o \in Owners : pc[o] \in {"withdraw", "withdrawn"} =>
       ~active[task[o]] /\ stage[task[o]] = "tracked"

(* What is left of an execution on its way to retirement, and after it.      *)
Gone(t) == t \notin operation \cup completion /\ ~active[t] /\ relay[t] # "live"

Outside(t) == t \notin queued /\ admitted # t /\ stage[t] = "tracked"

Retirement ==
  /\ \A t \in Tasks : retired[t] => Outside(t) /\ Gone(t)
  /\ \A th \in Threads :
       /\ pc[th] \in {"retire", "admit"} => relay[task[th]] # "live"
       /\ pc[th] \in {"admit", "notify"} => Gone(task[th])
       /\ pc[th] = "notify" => Outside(task[th])
       /\ pc[th] = "withdrawn" => Outside(task[th])

Typing == TypeOK /\ ThreadsHaveTasks

IInv ==
  /\ Typing
  /\ AdmissionIsExact
  /\ Holders
  /\ OnePlace
  /\ Order
  /\ Settling
  /\ Retirement

USE HomeAssumption, PoolAssumption, NoTaskAssumption

-----------------------------------------------------------------------------
(* Types and the tasks of the threads are preserved together: neither is     *)
(* inductive without the other.                                              *)
LEMMA TypeStep == Typing /\ [Next]_vars => Typing'
<1> SUFFICES ASSUME Typing, [Next]_vars PROVE Typing'
  OBVIOUS
<1> USE DEF Typing, TypeOK, ThreadsHaveTasks, Threads, OwnerPlaces, PoolPlaces, RetirePlaces,
        AtWork, PlacesOf, Goto, ReadyToCall, taskState, queueState, executionState, relayState,
        ownerState, threadState
<1>1. ASSUME NEW t \in Tasks, OwnerCall(t) PROVE Typing'
  <2>1. CASE Schedule(t) BY <2>1 DEF Schedule, TakeNext
  <2>2. CASE ScheduleRefused(t) BY <2>2 DEF ScheduleRefused
  <2>3. CASE SetRetirementCallback(t) BY <2>3 DEF SetRetirementCallback
  <2>4. CASE Cancel(t) BY <2>4 DEF Cancel, Deactivate
  <2>5. CASE DestroyContext(t) BY <2>5 DEF DestroyContext
  <2> QED BY <1>1, <2>1, <2>2, <2>3, <2>4, <2>5 DEF OwnerCall
<1>2. ASSUME NEW t \in Tasks, OwnerStep(t) PROVE Typing'
  <2>1. CASE Receive(t) BY <2>1 DEF Receive, Deactivate
  <2>2. CASE ReleaseStoppedRelay(t) BY <2>2 DEF ReleaseStoppedRelay
  <2>3. CASE DiscardEvent(t) BY <2>3 DEF DiscardEvent, ReleaseRetirement
  <2> QED BY <1>2, <2>1, <2>2, <2>3 DEF OwnerStep
<1>3. ASSUME NEW o \in Owners, OwnerReturn(o) PROVE Typing'
  <2>1. CASE CompletionReturns(o) BY <2>1 DEF CompletionReturns
  <2>2. CASE DropDelivery(o) BY <2>2 DEF DropDelivery, ReleaseRetirement
  <2>3. CASE Withdraw(o) BY <2>3 DEF Withdraw
  <2>4. CASE RetireWithdrawn(o) BY <2>4 DEF RetireWithdrawn, RetireTask
  <2> QED BY <1>3, <2>1, <2>2, <2>3, <2>4 DEF OwnerReturn
<1>4. ASSUME NEW o \in Owners, OwnerStops(o) PROVE Typing'
  BY <1>4 DEF OwnerStops
<1>5. CASE PoolStep
  <2>1. ASSUME NEW t \in Tasks, Dequeue(t) PROVE Typing' BY <2>1 DEF Dequeue
  <2>2. CASE CheckBeforeWork BY <2>2 DEF CheckBeforeWork
  <2>3. CASE WorkReturns BY <2>3 DEF WorkReturns
  <2>4. CASE MakeRetirement BY <2>4 DEF MakeRetirement
  <2>5. CASE QueueDelivery BY <2>5 DEF QueueDelivery
  <2>6. CASE CancelUnqueued BY <2>6 DEF CancelUnqueued, Deactivate
  <2>7. CASE ReleaseOwnRetirement BY <2>7 DEF ReleaseOwnRetirement, ReleaseRetirement
  <2> QED BY <1>5, <2>1, <2>2, <2>3, <2>4, <2>5, <2>6, <2>7 DEF PoolStep
<1>6. ASSUME NEW th \in Threads, RetireStep(th) PROVE Typing'
  <2>1. CASE Retire(th) BY <2>1 DEF Retire, ClearExecution, CancelRetiring, Deactivate
  <2>2. CASE AdmitNext(th) BY <2>2 DEF AdmitNext, TakeNext
  <2>3. CASE Notify(th) BY <2>3 DEF Notify, RetireTask
  <2>4. CASE Start(th) BY <2>4 DEF Start, ToStart
  <2> QED BY <1>6, <2>1, <2>2, <2>3, <2>4 DEF RetireStep
<1>7. CASE UNCHANGED vars BY <1>7 DEF vars
<1> QED BY <1>1, <1>2, <1>3, <1>4, <1>5, <1>6, <1>7 DEF Next

(* The other parts, given the types of the next state. *)
LEMMA InvariantStep == IInv /\ Typing' /\ [Next]_vars => IInv'
<1> SUFFICES ASSUME IInv, Typing', [Next]_vars PROVE IInv'
  OBVIOUS
<1> USE DEF IInv, Typing, TypeOK, ThreadsHaveTasks, Threads, OwnerPlaces, PoolPlaces, RetirePlaces,
        AtWork, PlacesOf, AdmissionIsExact, InFlight, Retiring, Holders, OnePlace, Starting,
        Unreturned, Order, Settling, Retirement, Gone, Outside, Goto, ReadyToCall, taskState,
        queueState, executionState, relayState, ownerState, threadState
<1>1. ASSUME NEW t \in Tasks, OwnerCall(t) PROVE IInv'
  <2>1. CASE Schedule(t)
    <3> USE <2>1 DEF Schedule, TakeNext, FirstInLine
    <3>1. AdmissionIsExact'
      <4>1. CASE admitted # NoTask
        <5>1. /\ next' = next /\ admitted' = admitted
              /\ pc'[Pool] = pc[Pool] /\ task'[Pool] = task[Pool]
          BY <4>1
        <5>2. \A u \in Tasks, th \in Threads : Retiring(th, u)' = Retiring(th, u)
          OBVIOUS
        <5>3. \A u \in Tasks : InFlight(u)' = InFlight(u)
          BY <5>1, <5>2
        <5> QED BY <4>1, <5>1, <5>3
      <4>2. CASE admitted = NoTask
        <5>1. queued = {} /\ queued' = {} /\ admitted' = t /\ next'[Home[t]] = t
          BY <4>2
        <5>2. \A u \in Tasks \ {t} : ~InFlight(u)
          BY <4>2
        <5>3. \A u \in Tasks \ {t} : ~InFlight(u)'
          BY <5>1, <5>2
        <5> QED BY <5>1, <5>3
      <4> QED BY <4>1, <4>2
    <3>2. Holders' OBVIOUS
    <3>3. OnePlace' OBVIOUS
    <3>4. Order' OBVIOUS
    <3>5. Settling' OBVIOUS
    <3>6. Retirement' OBVIOUS
    <3> QED BY <3>1, <3>2, <3>3, <3>4, <3>5, <3>6
  <2>2. CASE ScheduleRefused(t) BY <2>2 DEF ScheduleRefused
  <2>3. CASE SetRetirementCallback(t)
    <3> USE <2>3 DEF SetRetirementCallback
    <3>1. AdmissionIsExact' OBVIOUS
    <3>2. Holders' OBVIOUS
    <3>3. OnePlace' OBVIOUS
    <3>4. Order' OBVIOUS
    <3>5. Settling' OBVIOUS
    <3>6. Retirement' OBVIOUS
    <3> QED BY <3>1, <3>2, <3>3, <3>4, <3>5, <3>6
  <2>4. CASE Cancel(t)
    <3> USE <2>4 DEF Cancel, Deactivate
    <3>1. AdmissionIsExact' OBVIOUS
    <3>2. Holders' OBVIOUS
    <3>3. OnePlace' OBVIOUS
    <3>4. Order' OBVIOUS
    <3>5. Settling' OBVIOUS
    <3>6. Retirement' OBVIOUS
    <3> QED BY <3>1, <3>2, <3>3, <3>4, <3>5, <3>6
  <2>5. CASE DestroyContext(t) BY <2>5 DEF DestroyContext
  <2> QED BY <1>1, <2>1, <2>2, <2>3, <2>4, <2>5 DEF OwnerCall
<1>2. ASSUME NEW t \in Tasks, OwnerStep(t) PROVE IInv'
  <2>1. CASE Receive(t) BY <2>1 DEF Receive, Deactivate, Deliverable
  <2>2. CASE ReleaseStoppedRelay(t) BY <2>2 DEF ReleaseStoppedRelay
  <2>3. CASE DiscardEvent(t)
    <3> USE <2>3 DEF DiscardEvent, ReleaseRetirement
    <3>facts. /\ Home[t] \in Owners /\ "event" \in retirement[t] /\ admitted = t
              /\ \A o \in Owners : delivering[o] # t
              /\ \A th \in Threads : next[th] # t /\ ~Retiring(th, t)
              /\ t \notin poolQueue /\ ~Unreturned(t)
      OBVIOUS
    <3>frame. /\ \A th \in Threads : th # Home[t] => pc'[th] = pc[th] /\ task'[th] = task[th]
              /\ pc'[Home[t]] \in {"retire", "idle"}
              /\ pc'[Home[t]] = "retire" => task'[Home[t]] = t
              /\ pc[Home[t]] = "idle" /\ Pool # Home[t] /\ relay[t] # "live"
              /\ \A u \in Tasks : u # t => retirement'[u] = retirement[u]
              /\ next' = next /\ poolQueue' = poolQueue /\ delivering' = delivering
      BY <3>facts
    <3>1. AdmissionIsExact'
      <4>1. InFlight(t)'
        <5>1. CASE retirement[t] = {"event"}
          <6>1. Retiring(Home[t], t)' BY <3>facts, <5>1
          <6> QED BY <3>facts, <6>1
        <5>2. CASE retirement[t] # {"event"}
          <6>1. retirement'[t] # {} BY <3>facts, <5>2
          <6> QED BY <6>1
        <5> QED BY <5>1, <5>2
      <4>2. ASSUME NEW u \in Tasks \ {t} PROVE ~InFlight(u)'
        <5>1. ~InFlight(u) BY <3>facts
        <5>2. ASSUME NEW th \in Threads PROVE ~Retiring(th, u)'
          <6>1. CASE th = Home[t] BY <3>frame, <6>1
          <6>2. CASE th # Home[t] BY <3>frame, <5>1, <6>2
          <6> QED BY <6>1, <6>2
        <5> QED BY <3>frame, <5>1, <5>2
      <4> QED BY <3>facts, <4>1, <4>2
    <3>2. Holders' OBVIOUS
    <3>3. OnePlace'
      <4>1. ASSUME NEW u \in Tasks, NEW th \in Threads PROVE
              /\ Starting(th, u)' = Starting(th, u)
              /\ Unreturned(u)' = Unreturned(u)
              /\ Retiring(th, u)' =>
                   Retiring(th, u) \/ (th = Home[t] /\ u = t /\ retirement'[t] = {})
        BY <3>facts
      <4>2. \A u \in Tasks \ {t} : retirement'[u] = retirement[u]
        OBVIOUS
      <4>3. retirement[t] # {}
        BY <3>facts
      <4> HIDE DEF Starting, Unreturned, Retiring
      <4> QED BY <3>facts, <4>1, <4>2, <4>3
    <3>4. Order' OBVIOUS
    <3>same. /\ active' = active /\ retired' = retired /\ stage' = stage /\ finishes' = finishes
             /\ queued' = queued /\ admitted' = admitted /\ relay' = relay
             /\ operation' = operation /\ completion' = completion
      OBVIOUS
    <3>before. Typing /\ Settling /\ Retirement
      OBVIOUS
    <3>5. Settling'
      <4> HIDE DEF IInv, Typing, DiscardEvent, ReleaseRetirement
      <4>1. \A u \in Tasks :
              /\ active'[u] => stage'[u] = "tracked" /\ finishes'[u] = 0
              /\ stage'[u] = "new" => finishes'[u] = 0
              /\ \A p \in Owners : delivering'[p] = u => ~active'[u] /\ relay'[u] # "live"
        BY <3>before, <3>frame, <3>same DEF Typing
      <4>2. pc'[Pool] = "release" /\ "event" \notin retirement'[task'[Pool]]
              => relay'[task'[Pool]] # "live"
        BY <3>before, <3>facts, <3>frame, <3>same DEF Typing
      <4>3. \A p \in Owners : pc'[p] \in {"withdraw", "withdrawn"} =>
              ~active'[task'[p]] /\ stage'[task'[p]] = "tracked"
        BY <3>before, <3>facts, <3>frame, <3>same DEF Typing
      <4> QED BY <4>1, <4>2, <4>3
    <3>6. Retirement'
      <4> HIDE DEF IInv, Typing, DiscardEvent, ReleaseRetirement
      <4>1. \A u : (Gone(u)' <=> Gone(u)) /\ (Outside(u)' <=> Outside(u))
        BY <3>same
      <4>2. ASSUME NEW th \in Threads, th # Home[t]
            PROVE  /\ pc'[th] \in {"retire", "admit"} => relay'[task'[th]] # "live"
                   /\ pc'[th] \in {"admit", "notify"} => Gone(task[th])'
                   /\ pc'[th] \in {"notify", "withdrawn"} => Outside(task[th])'
        <5>1. pc'[th] = pc[th] /\ task'[th] = task[th] /\ relay' = relay
          BY <3>frame, <3>same, <4>2
        <5>2. Gone(task[th])' <=> Gone(task[th])
          BY <3>same, <5>1
        <5>3. Outside(task[th])' <=> Outside(task[th])
          BY <3>same, <5>1
        <5> HIDE DEF Gone, Outside
        <5> QED BY <3>before, <5>1, <5>2, <5>3
      <4>3. /\ pc'[Home[t]] \in {"retire", "admit"} => relay'[task'[Home[t]]] # "live"
            /\ pc'[Home[t]] \notin {"admit", "notify", "withdrawn"}
        BY <3>before, <3>frame, <3>same DEF Typing
      <4>4. \A u \in Tasks : retired'[u] => Outside(u)' /\ Gone(u)'
        BY <3>before, <3>same, <4>1
      <4> HIDE DEF Gone, Outside
      <4> QED BY <4>2, <4>3, <4>4
    <3> QED BY <3>1, <3>2, <3>3, <3>4, <3>5, <3>6
  <2> QED BY <1>2, <2>1, <2>2, <2>3 DEF OwnerStep
<1>3. ASSUME NEW o \in Owners, OwnerReturn(o) PROVE IInv'
  <2>1. CASE CompletionReturns(o) BY <2>1 DEF CompletionReturns
  <2>2. CASE DropDelivery(o)
    <3> USE <2>2 DEF DropDelivery, ReleaseRetirement
    <3>1. AdmissionIsExact' OBVIOUS
    <3>2. Holders' OBVIOUS
    <3>3. OnePlace' OBVIOUS
    <3>4. Order' OBVIOUS
    <3>5. Settling'
      <4> DEFINE t == delivering[o]
      <4>1. /\ t \in Tasks /\ relay[t] # "live" /\ Pool # o
            /\ \A th \in Threads : th # o => pc'[th] = pc[th] /\ task'[th] = task[th]
            /\ pc'[o] \in {"retire", "idle"}
            /\ \A u \in Tasks : u # t => retirement'[u] = retirement[u]
            /\ \A p \in Owners : delivering'[p] \in {delivering[p], NoTask}
        OBVIOUS
      <4>2. /\ active' = active /\ stage' = stage /\ finishes' = finishes /\ relay' = relay
        OBVIOUS
      <4> HIDE <2>2 DEF t, DropDelivery, ReleaseRetirement, AdmissionIsExact, OnePlace, Order
      <4>3. \A u \in Tasks :
              /\ active'[u] => stage'[u] = "tracked" /\ finishes'[u] = 0
              /\ stage'[u] = "new" => finishes'[u] = 0
              /\ \A p \in Owners : delivering'[p] = u => ~active'[u] /\ relay'[u] # "live"
        BY <4>1, <4>2
      <4>4. pc'[Pool] = "release" /\ "event" \notin retirement'[task'[Pool]]
              => relay'[task'[Pool]] # "live"
        BY <4>1, <4>2
      <4>5. \A p \in Owners : pc'[p] \in {"withdraw", "withdrawn"} =>
              ~active'[task'[p]] /\ stage'[task'[p]] = "tracked"
        BY <4>1, <4>2
      <4> QED BY <4>3, <4>4, <4>5
    <3>6. Retirement' OBVIOUS
    <3> QED BY <3>1, <3>2, <3>3, <3>4, <3>5, <3>6
  <2>3. CASE Withdraw(o)
    <3> USE <2>3 DEF Withdraw
    <3>facts. /\ next' = next /\ pc'[Pool] = pc[Pool] /\ task'[Pool] = task[Pool]
              /\ \A th \in Threads, u \in Tasks : Retiring(th, u)' = Retiring(th, u)
      OBVIOUS
    <3>1. AdmissionIsExact'
      <4>1. \A u \in Tasks : InFlight(u)' = InFlight(u) BY <3>facts
      <4> HIDE DEF InFlight
      <4> QED BY <4>1
    <3>2. Holders' OBVIOUS
    <3>3. OnePlace'
      <4> HIDE DEF Retiring
      <4> QED BY <3>facts
    <3>4. Order' OBVIOUS
    <3>5. Settling'
      <4>1. /\ \A th \in Threads : th # o => pc'[th] = pc[th] /\ task'[th] = task[th]
            /\ pc[o] = "withdraw" /\ pc'[o] \in {"withdrawn", "idle"}
            /\ pc'[o] = "withdrawn" => task'[o] = task[o]
        OBVIOUS
      <4>2. /\ active' = active /\ stage' = stage /\ finishes' = finishes /\ relay' = relay
            /\ delivering' = delivering /\ retirement' = retirement
        OBVIOUS
      <4> HIDE DEF Withdraw, AdmissionIsExact, OnePlace, Order, Holders
      <4>3. \A u \in Tasks :
              /\ active'[u] => stage'[u] = "tracked" /\ finishes'[u] = 0
              /\ stage'[u] = "new" => finishes'[u] = 0
              /\ \A p \in Owners : delivering'[p] = u => ~active'[u] /\ relay'[u] # "live"
        BY <3>facts, <4>1, <4>2
      <4>4. pc'[Pool] = "release" /\ "event" \notin retirement'[task'[Pool]]
              => relay'[task'[Pool]] # "live"
        BY <3>facts, <4>1, <4>2
      <4>5. \A p \in Owners : pc'[p] \in {"withdraw", "withdrawn"} =>
              ~active'[task'[p]] /\ stage'[task'[p]] = "tracked"
        BY <3>facts, <4>1, <4>2
      <4> QED BY <4>3, <4>4, <4>5
    <3>6. Retirement' OBVIOUS
    <3> QED BY <3>1, <3>2, <3>3, <3>4, <3>5, <3>6
  <2>4. CASE RetireWithdrawn(o)
    <3> USE <2>4 DEF RetireWithdrawn, RetireTask
    <3>facts. /\ next' = next /\ pc'[Pool] = pc[Pool] /\ task'[Pool] = task[Pool]
              /\ \A th \in Threads, u \in Tasks : Retiring(th, u)' = Retiring(th, u)
      OBVIOUS
    <3>1. AdmissionIsExact'
      <4>1. \A u \in Tasks : InFlight(u)' = InFlight(u) BY <3>facts
      <4> HIDE DEF InFlight
      <4> QED BY <4>1
    <3>2. Holders' OBVIOUS
    <3>3. OnePlace' OBVIOUS
    <3>4. Order' OBVIOUS
    <3>5. Settling' OBVIOUS
    <3>6. Retirement' OBVIOUS
    <3> QED BY <3>1, <3>2, <3>3, <3>4, <3>5, <3>6
  <2> QED BY <1>3, <2>1, <2>2, <2>3, <2>4 DEF OwnerReturn
<1>4. ASSUME NEW o \in Owners, OwnerStops(o) PROVE IInv'
  <2> USE <1>4 DEF OwnerStops
  <2>1. AdmissionIsExact' OBVIOUS
  <2>2. Holders' OBVIOUS
  <2>3. OnePlace' OBVIOUS
  <2>4. Order' OBVIOUS
  <2>5. Settling' OBVIOUS
  <2>6. Retirement' OBVIOUS
  <2> QED BY <2>1, <2>2, <2>3, <2>4, <2>5, <2>6
<1>5. CASE PoolStep
  <2>1. ASSUME NEW t \in Tasks, Dequeue(t) PROVE IInv' BY <2>1 DEF Dequeue
  <2>2. CASE CheckBeforeWork BY <2>2 DEF CheckBeforeWork
  <2>3. CASE WorkReturns BY <2>3 DEF WorkReturns
  <2>4. CASE MakeRetirement BY <2>4 DEF MakeRetirement
  <2>5. CASE QueueDelivery BY <2>5 DEF QueueDelivery
  <2>6. CASE CancelUnqueued BY <2>6 DEF CancelUnqueued, Deactivate
  <2>7. CASE ReleaseOwnRetirement BY <2>7 DEF ReleaseOwnRetirement, ReleaseRetirement
  <2> QED BY <1>5, <2>1, <2>2, <2>3, <2>4, <2>5, <2>6, <2>7 DEF PoolStep
<1>6. ASSUME NEW th \in Threads, RetireStep(th) PROVE IInv'
  <2>1. CASE Retire(th) BY <2>1 DEF Retire, ClearExecution, CancelRetiring, Deactivate
  <2>2. CASE AdmitNext(th)
    <3> USE <2>2 DEF AdmitNext, TakeNext, FirstInLine
    <3> DEFINE t == task[th]
    <3>facts. /\ t \in Tasks /\ Retiring(th, t) /\ admitted = t /\ pc'[th] = "notify"
              /\ retirement[t] = {} /\ t \notin poolQueue \cup events /\ ~Unreturned(t)
              /\ \A o \in Owners : delivering[o] # t
              /\ \A other \in Threads : next[other] # t /\ (other # th => ~Retiring(other, t))
      OBVIOUS
    <3>1. AdmissionIsExact'
      <4>1. \A u \in Tasks \ {t} : ~InFlight(u)
        BY <3>facts
      <4>2. CASE queued = {}
        <5>1. \A u \in Tasks : ~InFlight(u)'
          BY <3>facts, <4>1, <4>2
        <5> QED BY <4>2, <5>1, <3>facts
      <4>3. ASSUME NEW n \in queued, queued' = queued \ {n}, admitted' = n,
                   next' = [next EXCEPT ![th] = n]
            PROVE  AdmissionIsExact'
        <5>1. InFlight(n)' BY <4>3
        <5>2. \A u \in Tasks \ {n} : ~InFlight(u)'
          BY <3>facts, <4>1, <4>3
        <5> QED BY <4>3, <5>1, <5>2
      <4> QED BY <3>facts, <4>2, <4>3
    <3>2. Holders' OBVIOUS
    <3>3. OnePlace' OBVIOUS
    <3>4. Order'
      <4>1. turn' = turn /\ stage' = stage /\ pushed' = pushed
        OBVIOUS
      <4>2. CASE queued = {} BY <3>facts, <4>1, <4>2
      <4>3. ASSUME NEW n \in queued, queued' = queued \ {n}, admitted' = n,
                   \A u \in queued : turn[n] <= turn[u]
            PROVE  Order'
        <5>1. ASSUME NEW u \in queued \ {n} PROVE turn[n] < turn[u]
          <6>1. turn[n] \in Nat /\ turn[u] \in Nat /\ turn[n] <= turn[u] BY <4>3
          <6>2. turn[n] # turn[u] OBVIOUS
          <6> HIDE <2>2 DEF IInv, Typing
          <6> QED BY <6>1, <6>2
        <5> QED BY <4>1, <4>3, <5>1
      <4> QED BY <3>facts, <4>1, <4>2, <4>3
    <3>5. Settling' OBVIOUS
    <3>6. Retirement' OBVIOUS
    <3> QED BY <3>1, <3>2, <3>3, <3>4, <3>5, <3>6
  <2>3. CASE Notify(th)
    <3> USE <2>3 DEF Notify, RetireTask
    <3>1. AdmissionIsExact' OBVIOUS
    <3>2. Holders' OBVIOUS
    <3>3. OnePlace' OBVIOUS
    <3>4. Order' OBVIOUS
    <3>5. Settling' OBVIOUS
    <3>6. Retirement' OBVIOUS
    <3> QED BY <3>1, <3>2, <3>3, <3>4, <3>5, <3>6
  <2>4. CASE Start(th)
    <3> USE <2>4 DEF Start, ToStart
    <3>1. AdmissionIsExact' OBVIOUS
    <3>2. Holders' OBVIOUS
    <3>3. OnePlace' OBVIOUS
    <3>4. Order' OBVIOUS
    <3>5. Settling' OBVIOUS
    <3>6. Retirement' OBVIOUS
    <3> QED BY <3>1, <3>2, <3>3, <3>4, <3>5, <3>6
  <2> QED BY <1>6, <2>1, <2>2, <2>3, <2>4 DEF RetireStep
<1>7. CASE UNCHANGED vars BY <1>7 DEF vars
<1> QED BY <1>1, <1>2, <1>3, <1>4, <1>5, <1>6, <1>7 DEF Next

(* The conjunction of the parts above is inductive. *)
THEOREM Inductive == Spec => []IInv
<1>1. Init => IInv
  BY DEF Init, IInv, Typing, TypeOK, ThreadsHaveTasks, Threads, OwnerPlaces, PoolPlaces,
         RetirePlaces, PlacesOf, AtWork, AdmissionIsExact, InFlight, Retiring, Holders, OnePlace,
         Starting, Unreturned, Order, Settling, Retirement, Gone, Outside
<1>2. IInv /\ [Next]_vars => IInv'
  BY TypeStep, InvariantStep DEF IInv
<1> QED BY <1>1, <1>2, PTL DEF Spec

(* Every variable of the queue keeps its type. *)
THEOREM TypeCorrect == Spec => []TypeOK
<1>1. IInv => TypeOK BY DEF IInv, Typing
<1> QED BY <1>1, Inductive, PTL

(* One execution is admitted at a time, from its admission to the moment its *)
(* last holder retires it, and no admission is lost.                         *)
THEOREM AdmissionExact == Spec => []AdmissionIsExact
<1>1. IInv => AdmissionIsExact BY DEF IInv
<1> QED BY <1>1, Inductive, PTL

(* Operations run in the order in which they were scheduled. *)
THEOREM InOrder == Spec => ServedInOrder
<1> DEFINE Served == pc[Pool] # "working" /\ pc'[Pool] = "working"
                       => \A u \in queued : turn[task[Pool]] < turn[u]
<1>1. IInv /\ [Next]_vars => [Served]_vars
  <2> SUFFICES ASSUME IInv, pc[Pool] # "working", pc'[Pool] = "working", Next,
                      NEW u \in queued
               PROVE  turn[task[Pool]] < turn[u]
    OBVIOUS
  <2>1. pc[Pool] = "dequeued"
    <3> USE DEF IInv, Typing, TypeOK, Threads, Goto
    <3>1. ASSUME NEW t \in Tasks, OwnerCall(t) \/ OwnerStep(t) PROVE FALSE
      BY <3>1 DEF OwnerCall, Schedule, ScheduleRefused, SetRetirementCallback, Cancel,
           DestroyContext, OwnerStep, Receive, ReleaseStoppedRelay, DiscardEvent,
           ReleaseRetirement, threadState
    <3>2. ASSUME NEW o \in Owners, OwnerReturn(o) \/ OwnerStops(o) PROVE FALSE
      BY <3>2 DEF OwnerReturn, CompletionReturns, DropDelivery, ReleaseRetirement, Withdraw,
           RetireWithdrawn, OwnerStops, threadState
    <3>3. ASSUME NEW th \in Threads, RetireStep(th) PROVE FALSE
      BY <3>3 DEF RetireStep, Retire, AdmitNext, Notify, Start
    <3>4. CASE PoolStep
      BY <3>4 DEF PoolStep, Dequeue, CheckBeforeWork, WorkReturns, MakeRetirement,
           QueueDelivery, CancelUnqueued, ReleaseOwnRetirement, ReleaseRetirement
    <3> QED BY <3>1, <3>2, <3>3, <3>4 DEF Next
  <2>2. task[Pool] \in Tasks /\ admitted = task[Pool]
    BY <2>1 DEF IInv, Typing, ThreadsHaveTasks, AtWork, AdmissionIsExact, InFlight
  <2> QED BY <2>2 DEF IInv, Order
<1> QED BY <1>1, Inductive, PTL DEF Spec, ServedInOrder

(* When a task retires, nothing of it is left. *)
THEOREM RetirementIsQuiescent == Spec => []RetiredIsQuiescent
<1>1. IInv => RetiredIsQuiescent
  BY DEF IInv, AdmissionIsExact, Retirement, Gone, Outside, RetiredIsQuiescent
<1> QED BY <1>1, Inductive, PTL

(* A task is settled before it retires, whatever becomes of its owner. *)
THEOREM SettledFirst == Spec => []SettledBeforeRetired
<1>1. IInv => SettledBeforeRetired
  BY DEF IInv, Retirement, Gone, SettledBeforeRetired
<1> QED BY <1>1, Inductive, PTL

-----------------------------------------------------------------------------
(* The refinement: a step of the queue is a step of the contract of one      *)
(* task, or changes no outcome and releases nothing.                         *)

(* A step that concerns one task changes one outcome. *)
LEMMA OutcomeOfOne ==
  ASSUME NEW t \in Tasks,
         \A u \in Tasks \ {t} : outcomeOf(u)' = outcomeOf(u)
  PROVE  outcome' = [outcome EXCEPT ![t] = outcomeOf(t)']
BY DEF outcome

(* Every step is a step of the contract or a stutter. *)
LEMMA ContractStep == IInv /\ [Next]_vars => [Contract!Next]_(Contract!vars)
<1> SUFFICES ASSUME IInv, [Next]_vars PROVE [Contract!Next]_(Contract!vars)
  OBVIOUS
<1> USE DEF IInv, Typing, TypeOK, Threads, RetirePlaces
<1>0. ASSUME stage' = stage, active' = active, retired' = retired, finishes' = finishes
      PROVE  Contract!vars' = Contract!vars
  BY <1>0 DEF Contract!vars, outcome, outcomeOf, held
<1>1. ASSUME NEW t \in Tasks, Deactivate(t), stage' = stage, retired' = retired,
             finishes' = finishes
      PROVE  Contract!Next \/ Contract!vars' = Contract!vars
  <2>1. CASE active[t]
    <3>1. outcomeOf(t) = "pending" /\ outcomeOf(t)' = "dropped"
      BY <1>1, <2>1 DEF outcomeOf, Deactivate, Settling
    <3>2. \A u \in Tasks \ {t} : outcomeOf(u)' = outcomeOf(u)
      BY <1>1 DEF outcomeOf, Deactivate
    <3>3. held' = held
      BY <1>1 DEF held
    <3>4. Contract!Drop(t)
      BY <3>1, <3>2, <3>3, OutcomeOfOne DEF Contract!Drop, Contract!Settle, outcome
    <3> QED BY <3>4 DEF Contract!Next
  <2>2. CASE ~active[t]
    <3>1. active' = active BY <1>1, <2>2 DEF Deactivate
    <3> QED BY <1>0, <1>1, <3>1
  <2> QED BY <2>1, <2>2
<1>2. ASSUME NEW t \in Tasks, RetireTask(t), stage[t] = "tracked", stage' = stage,
             active' = active, finishes' = finishes
      PROVE  Contract!Next \/ Contract!vars' = Contract!vars
  <2>1. Contract!Retire(t) \/ Contract!vars' = Contract!vars
    BY <1>2 DEF Contract!Retire, Contract!vars, RetireTask, outcome, outcomeOf, held
  <2> QED BY <2>1 DEF Contract!Next
<1>3. ASSUME NEW t \in Tasks, OwnerCall(t) PROVE Contract!Next \/ Contract!vars' = Contract!vars
  <2>1. CASE Schedule(t)
    <3> USE <2>1 DEF Schedule
    <3>1. ~retired[t] BY DEF Retirement, Outside
    <3>2. outcomeOf(t) = "absent" /\ outcomeOf(t)' = "pending"
      BY DEF outcomeOf
    <3>3. \A u \in Tasks \ {t} : outcomeOf(u)' = outcomeOf(u)
      BY DEF outcomeOf
    <3>4. held' = held \cup {t}
      BY <3>1 DEF held
    <3>5. Contract!Begin(t)
      BY <3>2, <3>3, <3>4, OutcomeOfOne DEF Contract!Begin, Contract!Settle, outcome
    <3> QED BY <3>5 DEF Contract!Next
  <2>2. CASE ScheduleRefused(t)
    <3> USE <2>2 DEF ScheduleRefused, taskState
    <3>1. outcomeOf(t) = "absent" /\ outcomeOf(t)' = "dropped"
      BY DEF outcomeOf, Settling
    <3>2. \A u \in Tasks \ {t} : outcomeOf(u)' = outcomeOf(u)
      BY DEF outcomeOf
    <3>3. held' = held
      BY DEF held
    <3>4. Contract!Decline(t)
      BY <3>1, <3>2, <3>3, OutcomeOfOne DEF Contract!Decline, Contract!Settle, outcome
    <3> QED BY <3>4 DEF Contract!Next
  <2>3. CASE SetRetirementCallback(t) BY <1>0, <2>3 DEF SetRetirementCallback
  <2>4. CASE Cancel(t) BY <1>1, <2>4 DEF Cancel
  <2>5. CASE DestroyContext(t) BY <1>0, <2>5 DEF DestroyContext, taskState
  <2> QED BY <1>3, <2>1, <2>2, <2>3, <2>4, <2>5 DEF OwnerCall
<1>4. ASSUME NEW t \in Tasks, OwnerStep(t) PROVE Contract!Next \/ Contract!vars' = Contract!vars
  <2>1. CASE Receive(t)
    <3> USE <2>1 DEF Receive
    <3>1. CASE Deliverable(t)
      <4>1. active[t] /\ finishes[t] = 0 /\ stage[t] = "tracked"
        BY <3>1 DEF Deliverable, Settling
      <4>2. ~retired[t]
        BY <4>1 DEF Retirement, Gone
      <4>3. outcomeOf(t) = "pending" /\ outcomeOf(t)' = "delivered"
        BY <3>1, <4>1 DEF outcomeOf, Deactivate
      <4>4. \A u \in Tasks \ {t} : outcomeOf(u)' = outcomeOf(u)
        BY <3>1 DEF outcomeOf, Deactivate
      <4>5. t \in held /\ held' = held
        BY <4>1, <4>2 DEF held
      <4>6. Contract!Deliver(t)
        BY <4>3, <4>4, <4>5, OutcomeOfOne DEF Contract!Deliver, Contract!Settle, outcome
      <4> QED BY <4>6 DEF Contract!Next
    <3>2. CASE ~Deliverable(t)
      <4>1. finishes' = finishes BY <3>2
      <4> QED BY <1>1, <4>1
    <3> QED BY <3>1, <3>2
  <2>2. CASE ReleaseStoppedRelay(t) BY <1>0, <2>2 DEF ReleaseStoppedRelay, taskState
  <2>3. CASE DiscardEvent(t) BY <1>0, <2>3 DEF DiscardEvent, taskState
  <2> QED BY <1>4, <2>1, <2>2, <2>3 DEF OwnerStep
<1>5. ASSUME NEW o \in Owners, OwnerReturn(o)
      PROVE  Contract!Next \/ Contract!vars' = Contract!vars
  <2>1. CASE CompletionReturns(o) BY <1>0, <2>1 DEF CompletionReturns, taskState
  <2>2. CASE DropDelivery(o) BY <1>0, <2>2 DEF DropDelivery, taskState
  <2>3. CASE Withdraw(o) BY <1>0, <2>3 DEF Withdraw, taskState
  <2>4. CASE RetireWithdrawn(o)
    <3>1. task[o] \in Tasks /\ stage[task[o]] = "tracked"
      BY <2>4 DEF RetireWithdrawn, ThreadsHaveTasks, Settling
    <3> QED BY <1>2, <2>4, <3>1 DEF RetireWithdrawn
  <2> QED BY <1>5, <2>1, <2>2, <2>3, <2>4 DEF OwnerReturn
<1>6. ASSUME NEW o \in Owners, OwnerStops(o) PROVE Contract!vars' = Contract!vars
  BY <1>0, <1>6 DEF OwnerStops, taskState
<1>7. CASE PoolStep
  <2>1. ASSUME NEW t \in Tasks, Dequeue(t) PROVE Contract!vars' = Contract!vars
    BY <1>0, <2>1 DEF Dequeue, taskState
  <2>2. CASE CheckBeforeWork BY <1>0, <2>2 DEF CheckBeforeWork, taskState
  <2>3. CASE WorkReturns BY <1>0, <2>3 DEF WorkReturns, taskState
  <2>4. CASE MakeRetirement BY <1>0, <2>4 DEF MakeRetirement, taskState
  <2>5. CASE QueueDelivery BY <1>0, <2>5 DEF QueueDelivery, taskState
  <2>6. CASE CancelUnqueued BY <1>1, <2>6 DEF CancelUnqueued, ThreadsHaveTasks, AtWork
  <2>7. CASE ReleaseOwnRetirement BY <1>0, <2>7 DEF ReleaseOwnRetirement, taskState
  <2> QED BY <1>7, <2>1, <2>2, <2>3, <2>4, <2>5, <2>6, <2>7 DEF PoolStep
<1>8. ASSUME NEW th \in Threads, RetireStep(th)
      PROVE  Contract!Next \/ Contract!vars' = Contract!vars
  <2>1. CASE Retire(th) BY <1>1, <2>1 DEF Retire, CancelRetiring, ThreadsHaveTasks
  <2>2. CASE AdmitNext(th) BY <1>0, <2>2 DEF AdmitNext, taskState
  <2>3. CASE Notify(th)
    <3>1. task[th] \in Tasks /\ stage[task[th]] = "tracked"
      BY <2>3 DEF Notify, ThreadsHaveTasks, Retirement, Outside
    <3> QED BY <1>2, <2>3, <3>1 DEF Notify
  <2>4. CASE Start(th) BY <1>0, <2>4 DEF Start, taskState
  <2> QED BY <1>8, <2>1, <2>2, <2>3, <2>4 DEF RetireStep
<1>9. CASE UNCHANGED vars BY <1>0, <1>9 DEF vars, taskState
<1> QED BY <1>3, <1>4, <1>5, <1>6, <1>7, <1>8, <1>9 DEF Next

(* The refinement scheduler keeps the same contract as runAsyncWorker. *)
THEOREM Refinement == Spec => ImplementsContract
<1>1. Init => Contract!Init
  BY DEF Init, Contract!Init, outcome, outcomeOf, held
<1> QED BY <1>1, ContractStep, Inductive, PTL DEF Spec, Contract!Spec, ImplementsContract
=============================================================================
