-------------------------- MODULE MediaEntrySource --------------------------
(***************************************************************************)
(* MediaEntrySourceRuntime (app/src/archive): the entries and the image    *)
(* data of the opened collection.  The runtime lives on one thread; the    *)
(* work of a batch runs on a worker and its completion is called there.    *)
(* Loads of the same collection wait for one batch.  Completions call out, *)
(* and what they call may load, switch, clear or destroy the runtime; the  *)
(* worker scheduler may complete a batch before its task is stored.        *)
(*                                                                         *)
(* A generation of the source has one runner, so a runner is named by the  *)
(* generation it belongs to.                                               *)
(***************************************************************************)
EXTENDS Naturals, Sequences, FiniteSets, Functions

CONSTANTS
  Loads,          \* the calls that load entries or read image data
  Scopes,         \* the collections
  NoScope,        \* no collection is open
  MaxGeneration   \* bound: switches and clearings

ConstantsAreSound == NoScope \notin Scopes /\ MaxGeneration \in Nat

None == 0
Generations == 0..MaxGeneration

VARIABLES
  alive,       \* m_callbackLifetime has not been reset
  scope,       \* the collection of m_runner, or NoScope
  generation,  \* m_sourceGeneration
  runner,      \* what each generation's runner holds: closed, failed, open, cached
  batch,       \* the active operation of MediaEntrySourceEntryLoadState
  pending,     \* m_pendingLoads
  batches,     \* the generation of each batch that was started
  work,        \* the worker's part of each batch: running, or its result
  tasks,       \* the batches whose completion may still be called
  stored,      \* the batch of m_entryLoadTask
  stopSource,  \* the batch of m_entryLoadStopSource
  stopped,     \* the batches whose stop token was triggered
  reads,       \* the generation of each unanswered image-data read
  outcome,     \* of each load: absent, pending, delivered, dropped
  wanted,      \* the collection each load asked for
  stack        \* the calls in progress: scheduler runs and answered batches

sourceState == <<scope, generation, runner>>
batchState == <<batch, pending, batches>>
workerState == <<work, tasks, stored, stopSource, stopped>>
callers == <<outcome, wanted, reads>>
vars == <<alive, sourceState, batchState, workerState, callers, stack>>

RunnerStates == {"closed", "failed", "open", "cached"}
Frames == [at : {"starting"}, batch : 1..Len(batches)]
          \cup [at : {"answering"}, batch : 1..Len(batches), rest : Seq(Loads)]

TypeOK ==
  /\ alive \in BOOLEAN
  /\ scope \in Scopes \cup {NoScope}
  /\ generation \in Generations
  /\ runner \in [Generations -> RunnerStates]
  /\ batches \in Seq(Generations)
  /\ {batch, stored, stopSource} \subseteq 0..Len(batches)
  /\ pending \in Seq(Loads)
  /\ work \in Seq({"running", "entries", "error"}) /\ Len(work) = Len(batches)
  /\ tasks \cup stopped \subseteq 1..Len(batches)
  /\ DOMAIN reads \subseteq Loads /\ \A l \in DOMAIN reads : reads[l] \in Generations
  /\ outcome \in [Loads -> {"absent", "pending", "delivered", "dropped"}]
  /\ wanted \in [Loads -> Scopes \cup {NoScope}]
  /\ stack \in Seq(Frames)

Init ==
  /\ alive = TRUE /\ scope = NoScope /\ generation = 0
  /\ runner = [g \in Generations |-> "closed"]
  /\ batch = None /\ pending = <<>> /\ batches = <<>>
  /\ work = <<>> /\ tasks = {} /\ stored = None /\ stopSource = None /\ stopped = {}
  /\ reads = <<>>
  /\ outcome = [l \in Loads |-> "absent"]
  /\ wanted = [l \in Loads |-> NoScope]
  /\ stack = <<>>

-----------------------------------------------------------------------------
(* Changing the collection cancels the batch and everything waiting for it. *)

Elements(s) == {s[i] : i \in DOMAIN s}
Top == stack[Len(stack)]
Pop == SubSeq(stack, 1, Len(stack) - 1)
SettleAll(L, how) ==
  [l \in Loads |-> IF l \in L /\ outcome[l] = "pending" THEN how ELSE outcome[l]]

CancelNone == {}  \* a mutation: reset() without cancelling the pending loads

CancelPending == Elements(pending)

CancelEntryLoadBatch ==
  /\ batch' = None
  /\ pending' = <<>>
  /\ stopped' = stopped \cup ({stopSource} \ {None})
  /\ tasks' = tasks \ {stored}
  /\ stored' = None

Replaced(s) ==  \* the runner of a new generation, or none
  /\ generation < MaxGeneration
  /\ generation' = generation + 1
  /\ scope' = s

Clear ==  \* clear()
  /\ alive
  /\ CancelEntryLoadBatch
  /\ outcome' = SettleAll(CancelPending, "dropped")
  /\ Replaced(NoScope)
  /\ UNCHANGED <<alive, runner, batches, work, stopSource, wanted, reads, stack>>

Destroy ==
  /\ alive
  /\ alive' = FALSE
  /\ CancelEntryLoadBatch
  /\ outcome' = SettleAll(CancelPending, "dropped")
  /\ Replaced(NoScope)
  /\ UNCHANGED <<runner, batches, work, stopSource, wanted, reads, stack>>

SwitchToOpenedCollectionScope(s) ==
  /\ alive
  /\ scope # s
  /\ CancelEntryLoadBatch
  /\ outcome' = SettleAll(CancelPending, "dropped")
  /\ Replaced(s)
  /\ UNCHANGED <<alive, runner, batches, work, stopSource, wanted, reads, stack>>

-----------------------------------------------------------------------------
(* Calls of the owner.  A load of another collection switches first, which *)
(* leaves no batch in progress and an unopened runner.                     *)

Ask(l, s) ==
  /\ alive
  /\ outcome[l] = "absent"
  /\ wanted' = [wanted EXCEPT ![l] = s]

JoinBatch(l) ==  \* a batch of the current collection is in progress
  /\ Ask(l, scope)
  /\ batch # None
  /\ pending' = Append(pending, l)
  /\ outcome' = [outcome EXCEPT ![l] = "pending"]
  /\ UNCHANGED <<alive, sourceState, batch, batches, workerState, reads, stack>>

LoadCached(l) ==
  /\ Ask(l, scope)
  /\ batch = None /\ scope # NoScope
  /\ runner[generation] = "cached"
  /\ outcome' = [outcome EXCEPT ![l] = "delivered"]
  /\ UNCHANGED <<alive, sourceState, batchState, workerState, reads, stack>>

StartUnqueued(g) ==  \* a mutation: the batch is in progress, its work is not handed over
  /\ batch' = Len(batches) + 1
  /\ batches' = Append(batches, g)
  /\ work' = work
  /\ stopSource' = Len(batches) + 1
  /\ stack' = Append(stack, [at |-> "starting", batch |-> Len(batches) + 1])

StartBatch(g) ==  \* addLoad, startBatch and startEntryLoad, up to the scheduler's run()
  /\ batch' = Len(batches) + 1
  /\ batches' = Append(batches, g)
  /\ work' = Append(work, "running")
  /\ stopSource' = Len(batches) + 1
  /\ stack' = Append(stack, [at |-> "starting", batch |-> Len(batches) + 1])

LoadCurrent(l) ==
  /\ Ask(l, scope)
  /\ batch = None /\ scope # NoScope
  /\ runner[generation] # "cached"
  /\ pending' = <<l>>
  /\ outcome' = [outcome EXCEPT ![l] = "pending"]
  /\ StartBatch(generation)
  /\ tasks' = tasks \cup {Len(batches) + 1}
  /\ UNCHANGED <<alive, sourceState, stored, stopped, reads>>

LoadOther(l, s) ==
  /\ Ask(l, s)
  /\ s # scope
  /\ Replaced(s)
  /\ outcome' = [SettleAll(CancelPending, "dropped") EXCEPT ![l] = "pending"]
  /\ pending' = <<l>>
  /\ stopped' = stopped \cup ({stopSource} \ {None})
  /\ stored' = None
  /\ StartBatch(generation + 1)
  /\ tasks' = (tasks \ {stored}) \cup {Len(batches) + 1}
  /\ UNCHANGED <<alive, runner, reads>>

Opened(g, stop) ==  \* ensureSource and loadEntries: what the runner may hold afterwards
  CASE runner[g] = "closed" -> IF stop THEN {"failed"} ELSE {"failed", "open", "cached"}
    [] runner[g] = "open" -> {"open", "cached"}
    [] OTHER -> {runner[g]}

LoadSynchronously ==  \* without a receiver; the caller waits for the runner's lock
  /\ alive
  /\ scope # NoScope
  /\ \E now \in Opened(generation, FALSE) : runner' = [runner EXCEPT ![generation] = now]
  /\ UNCHANGED <<alive, scope, generation, batchState, workerState, callers, stack>>

LoadImageData(l, s) ==
  /\ Ask(l, s)
  /\ IF s = scope
     THEN /\ outcome' = [outcome EXCEPT ![l] = "pending"]
          /\ reads' = [k \in DOMAIN reads \cup {l} |-> IF k = l THEN generation ELSE reads[k]]
     ELSE /\ outcome' = [outcome EXCEPT ![l] = "delivered"]  \* the error of another collection
          /\ reads' = reads
  /\ UNCHANGED <<alive, sourceState, batchState, workerState, stack>>

CancelLoad(l) ==  \* the caller cancels or drops its job
  /\ outcome[l] = "pending"
  /\ outcome' = [outcome EXCEPT ![l] = "dropped"]
  /\ reads' = Restrict(reads, DOMAIN reads \ {l})
  /\ UNCHANGED <<alive, sourceState, batchState, workerState, wanted, stack>>

-----------------------------------------------------------------------------
(* The worker, and the completions that are called on the owner's thread.  *)

WorkerLoads(b) ==
  /\ b \in DOMAIN work
  /\ work[b] = "running"
  /\ \E now \in Opened(batches[b], b \in stopped) :
       /\ runner' = [runner EXCEPT ![batches[b]] = now]
       /\ work' = [work EXCEPT ![b] = IF now = "cached" THEN "entries" ELSE "error"]
  /\ UNCHANGED <<alive, scope, generation, batchState, tasks, stored, stopSource, stopped,
                 callers, stack>>

AcceptsCollection(g) == alive /\ scope # NoScope  \* a mutation: any open collection will do

AcceptsGeneration(g) == alive /\ generation = g

Completed(b) ==
  /\ b \in tasks
  /\ work[b] # "running"
  /\ tasks' = tasks \ {b}

FinishEntryLoad(b) ==
  /\ Completed(b)
  /\ AcceptsGeneration(batches[b])
  /\ batch = b
  /\ batch' = None
  /\ pending' = <<>>
  /\ stack' = Append(stack, [at |-> "answering", batch |-> b, rest |-> pending])
  /\ UNCHANGED <<alive, sourceState, batches, work, stored, stopSource, stopped, callers>>

IgnoreCompletion(b) ==
  /\ Completed(b)
  /\ ~(AcceptsGeneration(batches[b]) /\ batch = b)
  /\ UNCHANGED <<alive, sourceState, batchState, work, stored, stopSource, stopped, callers,
                 stack>>

AnswerLoad ==  \* the next load of a finished batch: its callback is called, or it is cancelled
  /\ stack # <<>> /\ Top.at = "answering" /\ Top.rest # <<>>
  /\ LET l == Head(Top.rest)
     IN  outcome' = SettleAll({l}, IF AcceptsGeneration(batches[Top.batch])
                                   THEN "delivered" ELSE "dropped")
  /\ stack' = [stack EXCEPT ![Len(stack)].rest = Tail(@)]
  /\ UNCHANGED <<alive, sourceState, batchState, workerState, wanted, reads>>

BatchAnswered ==
  /\ stack # <<>> /\ Top.at = "answering" /\ Top.rest = <<>>
  /\ stack' = Pop
  /\ UNCHANGED <<alive, sourceState, batchState, workerState, callers>>

AcceptsAnyBatch(b) == batch # None  \* a mutation: the batch is not compared

AcceptsBatch(b) == batch = b

StoreTask ==  \* run() returned and the batch is still the one in progress
  /\ stack # <<>> /\ Top.at = "starting"
  /\ AcceptsGeneration(batches[Top.batch]) /\ AcceptsBatch(Top.batch)
  /\ stored' = Top.batch
  /\ stack' = Pop
  /\ UNCHANGED <<alive, sourceState, batchState, work, tasks, stopSource, stopped, callers>>

CancelTask ==  \* run() returned after its batch finished or was superseded inside it
  /\ stack # <<>> /\ Top.at = "starting"
  /\ ~(AcceptsGeneration(batches[Top.batch]) /\ AcceptsBatch(Top.batch))
  /\ tasks' = tasks \ {Top.batch}
  /\ stack' = Pop
  /\ UNCHANGED <<alive, sourceState, batchState, work, stored, stopSource, stopped, callers>>

FinishRead(l) ==  \* the bytes of a replaced collection are answered to nobody
  /\ l \in DOMAIN reads
  /\ outcome' = SettleAll({l}, IF AcceptsGeneration(reads[l]) THEN "delivered" ELSE "dropped")
  /\ reads' = Restrict(reads, DOMAIN reads \ {l})
  /\ UNCHANGED <<alive, sourceState, batchState, workerState, wanted, stack>>

-----------------------------------------------------------------------------

Load(l, s) ==
  \/ s = scope /\ (JoinBatch(l) \/ LoadCached(l) \/ LoadCurrent(l))
  \/ LoadOther(l, s)
  \/ LoadImageData(l, s)

Step == AnswerLoad \/ BatchAnswered \/ StoreTask \/ CancelTask

Complete(b) == FinishEntryLoad(b) \/ IgnoreCompletion(b)

Next ==
  \/ \E l \in Loads : (\E s \in Scopes : Load(l, s)) \/ CancelLoad(l) \/ FinishRead(l)
  \/ \E s \in Scopes : SwitchToOpenedCollectionScope(s)
  \/ Clear \/ Destroy \/ LoadSynchronously
  \/ \E b \in 1..Len(batches) : WorkerLoads(b) \/ Complete(b)
  \/ Step

\* Callbacks return, the worker works off its queue, and its completions are delivered.
Batches == 1..Cardinality(Loads)  \* every batch begins with a load
Fairness ==
  /\ WF_vars(Step)
  /\ \A b \in Batches : WF_vars(WorkerLoads(b)) /\ WF_vars(Complete(b))
  /\ \A l \in Loads : WF_vars(FinishRead(l))

Spec == Init /\ [][Next]_vars /\ Fairness

-----------------------------------------------------------------------------
(* Properties. *)

\* A load of entries or bytes is answered only while the collection it asked for is the open
\* one, however many switches happen inside the answers to the loads before it.
AnswersAreCurrent ==
  [][\A l \in Loads : outcome[l] = "pending" /\ outcome'[l] = "delivered" => wanted[l] = scope]_vars

\* Every waiting load has somebody left to answer it, and the batch that will can still be
\* cancelled: its task is stored, or the call that will store it is in progress.  A stop is
\* only ever seen by runners that were replaced, since a stopped opening fails for good.
BatchIsWatched ==
  /\ \A l \in Loads : outcome[l] = "pending" =>
       \/ l \in DOMAIN reads
       \/ l \in Elements(pending) /\ batch \in tasks
       \/ \E i \in DOMAIN stack : stack[i].at = "answering" /\ l \in Elements(stack[i].rest)
  /\ batch # None => \/ stored = batch
                     \/ \E i \in DOMAIN stack : stack[i] = [at |-> "starting", batch |-> batch]
  /\ scope # NoScope => \A b \in stopped : batches[b] # generation

\* Every load is answered or cancelled: again and again there is none left that waits.
EveryLoadSettles == []<>(\A l \in Loads : outcome[l] # "pending")
=============================================================================
