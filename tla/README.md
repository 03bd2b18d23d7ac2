# KiriView: specifications, model checking and proofs

KiriView is an image and video viewer for KDE (C++/Qt/QML, with a Rust support
library). This directory models its core logic in TLA+, checks small instances
of it with TLC, and proves theorems about it with TLAPS. Paths below are
relative to `app/src/` unless they start with `docs/` or `tests/` (of `app/`).

1. The system
2. Modules and how they correspond to the code
3. Runs: what is checked, bounds, fairness
4. What the checks found
5. Proofs
6. What is not modelled
7. Plan

## 1. The system

Nearly all of KiriView's logic runs on the GUI thread; decoding, archive reading
and refinement run on pool threads and come back as posted events. So the hard
behaviour is of two kinds. The few primitives that cross threads must survive
every interleaving of cancellation, destruction, delivery and a stopping owner
(`docs/architecture/async-lifecycle.md`). Everything above them is sequential
but re-entrant and late: results arrive after what asked for them was
superseded, callbacks call back in before their caller has finished, cancelled
work still holds memory and a thread until it has *physically retired*.

| Part (lines of C++) | State it keeps | Operations | Hard behaviour | What makes it correct |
|---|---|---|---|---|
| Async primitives, `async/` (1.9k) | a task's active/retired flags, the runnable's owner, the relay, the refinement queue and its admission | start, cancel, deliver, retire; admit the next refinement | cancel against dequeue, delivery and retirement on other threads; owner threads that stop | at most one outcome; retirement exactly once, last, and always; one refinement at a time |
| Predecode, `predecode/` (3.4k), `document/imagedocumentpredecodecontroller.cpp` | snapshot request, schedule generation, momentum, timers, window, queue, active and completed decodes | schedule, snapshot answer, debounce, neutral timer, power saver, finish, retire | late snapshots, superseded windows, decodes that still run after their cancellation | bounded parallelism; nothing under power saver; the latest selection wins; the neighbours end up prepared |
| Thumbnail strip, `session/activenavigationthumbnail*.cpp`, `session/thumbnailimagestore.cpp` (2.9k) | demand, work, residency per row; row sets by tier; background cursor; claims that retire | select, report demand, replace rows, complete, retire, lose residency, continue | effects applied one by one re-enter the scheduler; row sets kept by hand | bounded admission; foreground first; ledger agrees with the work; demand is served |
| Opened collections, `archive/` (3.7k) | current scope and generation, batch of entry loads, serialised runner | open, load entries, switch, clear | callbacks that switch the scope in the middle of a batch | only entries of the current generation; each request answered once |
| Page candidates, `navigation/` (5.5k) | directory entry: pending loads, subscribers, listing, watch | subscribe, list, change, idle erasure | erasure queued while a client comes back; failed refreshes | a subscriber sees the latest confirmed listing |
| Image open, display, spreads, `document/` (8.1k), `presentation/` (1.6k) | operation revision, load sessions, plans | open, load, apply plan, cancel | plans reported between two parts of an open | an older open never applies after a newer one |
| File deletion, `document/imagedocumentdeletion*.cpp` | the claimed operation, progress, fallback | delete, finish, cancel, open fallback | calls out while settling | one operation, settled once |
| Session routing and direct media, `session/` (14.3k in all) | route plan, navigation state | route, refresh, open, candidate changes | a mutation starts another route | the latest route wins |
| Video, `video/` (3.9k), `libs/video-thumbnail-extraction` (1.4k) | source transition, device, pending playback commands | set source, play, seek, backend callbacks | commands nested in callbacks of the backend | the latest source and command win; queues bounded |
| Display images, `rendering/` (5.4k), `libs/image-viewport` (23k) | leases, byte budget, provider requests | admit, lease, reclaim, request, answer | reclamation calls back into owners; late answers | budget; an answer only for a live request |
| Decoding, `decoding/` (16.9k), thumbnail files, `thumbnail/` (2.9k) | formats, colour, raster workspaces | decode | cooperative cancellation | pixel computation, out of scope |
| Location, presentation text, cache, system, application, facade, QML, Rust `support/` (~25k) | values and bindings | - | - | pure functions, user interface, foreign I/O |

How they interact: the session routes a source to a document; the document opens
images through the load workflow and asks predecode for the neighbours of the
page it shows; the page candidates come from directories or opened collections;
the thumbnail strip follows the same pages. Decodes, lookups and archive reads all
run as tasks of the primitives in `async/`, and refinements of an image already
shown run one at a time through the refinement scheduler. Components call each
other directly or through callbacks; threads share only the objects of `async/`.

`PROJECT.json` lists every component and, under `hazards`, what in it is hard to
test, each at its line, with the properties that cover it.

## 2. Modules and how they correspond to the code

    TaskContract                      what a cancellable task promises
      ^ implemented by                  (INSTANCE, refinement mapping)
    AsyncWorker      RefinementQueue  the two primitives
      ^                 ^
    AsyncWorkerProofs RefinementQueueProofs

    LatestRequest                     what a server of the latest request promises
      ^ implemented by
    VideoDocument                     source changes of the video document
      ^
    VideoDocumentProofs

    PredecodeLoads  <- PredecodeScheduler <- PredecodeSchedulerProofs
    ThumbnailScheduler <- ThumbnailWork <- ThumbnailWorkProofs
                                        operators; the state machine over them; its proofs

    PageCandidates   MediaEntrySource   ImageDeletion   ImageOpen     parts of a document
                                              ^            ^
                              ImageDeletionProofs  ImageOpenProofs

    DocumentProofs      the proofs of PageCandidates and MediaEntrySource, and what all four
                        parts promise, said of their composition MCDocument

    MCAsyncWorker, MCRefinementQueue, MCPredecode, MCThumbnailWork,
    MCVideoDocument, MCDocument (the four parts of a document)        instances for TLC

**TaskContract** is the abstract specification: per task an outcome (absent,
pending, delivered, dropped) and whether its work or result is still held. A
delivery happens only from pending and while held, a retirement once.

**AsyncWorker** (`async/imageasyncworker.h`: `ImageWorkerTaskState`,
`AsyncWorkerQueueState`, `AsyncWorkerDeliveryState`, `AsyncWorkerRetirement`,
`AsyncWorkerRunnable`, `runAsyncWorker`). One action is what happens between two
lock operations; each thread has a place in the code (`pc`) and the task it is
about. `payload[t]` is the set of holders of the `shared_ptr<DeliveryPayload>`;
its last holder retires the task. `object` says whether the QRunnable is
allocated, `runnable` is `m_runnable`, `disarmed` the disarm flag of the
retirement member. The thread pool's queue and the event queue are sets: order
among different tasks does not matter to any property, and sets allow every
order. External are the pool taking a runnable, destruction of the context
object and the owner thread's end.

**RefinementQueue** (`async/imagerefinementscheduler.cpp`, with the same task and
relay classes). Here the pool has one thread and the scheduler admits one
execution at a time: `admitted` is `m_active`, and an execution keeps it until
the last holder of its `RefinementDeliveryRetirement` has let it go, on the pool
thread or on the owner's. `m_queued` is a set with the turn at which each
execution was pushed, so that "first in line" is a comparison. `next` is the
local of `schedule` and `retire` between the lock and `start`. `retire` cancels
before it retires, so that, unlike in AsyncWorker, a task whose owner stopped
always ends inactive. Execution ids are the executions themselves; the queue is
a process-wide static and never destroyed.

**PredecodeLoads** (`predecodeloadcontroller`, `-loadstate`,
`-activedecodestore`, `-cache`) gives the state of the loads as a record and
each member function as an operator from record to record: opening a window,
enqueueing what is missing, the loop of `startNextLoads`, supersession, and what
a job's result and retirement do. **PredecodeScheduler** has the calls of the
document, the answers of the page-list snapshot, both timers, the power saver
and the job callbacks as actions, each a whole handler, as all run on one thread.
Elapsed time is one of four classes that the policy tells apart. The byte budget
and the retention ranking of `PredecodeCache` are left out: completed work stays
completed until the window that owns it goes.

**ThumbnailScheduler** (`activenavigationthumbnailscheduler.cpp`) is that class as
operators on a record of its members. What an operation decides is left as a
sequence in the field `effects`. **ThumbnailWork** applies those effects one at a
time (`activenavigationthumbnailworkcoordinator.cpp`) to the jobs
(`-jobexecutor.cpp`), the row store and the image store. `effects` is the call
stack: a nested entry's decisions are put before the rest of the outer loop's,
and nothing else happens until it is empty. The model differs from the code in
these points: the rejection of a snapshot only reconciles (`Reconcile`); ids are the
smallest unused rather than a counter, which keeps the state space finite
and changes nothing, as ids are only compared with those in use; pending,
unsupported and retention effects on the shown status are left out; the generation
also stands for the admission epoch, which advances with it, and is 0 between the
invalidation of the old rows and the reset to the new ones.

The remaining modules are about code that runs on the GUI thread and calls out in the
middle of its work. They share one form. The variable `stack` holds the calls in
progress (in PageCandidates the `plan` being applied plays its part); a frame names the call-out it waits in; what the code does between two
call-outs is one step of the top frame; and whoever may call again does so from the event
loop (empty stack) or from inside the top frame. A call, request, load or
deletion is named by its number, which stands for the `OperationState` or revision it
begins.

**LatestRequest** is the abstract specification of a component that serves one
request at a time: requests are admitted in order, only the latest
admitted one may become what is shown, and only about it anything is reported.

**VideoDocument** (`video/videodocumentruntime.cpp`, `videodocumentstate.cpp`) has
`setSourceUrl`, `setSourceDevice`, the destructor, the answers of the URL resolver, the
backend's status and error and the metadata worker. A change of source is a
frame that goes through `cancelling` (the resolver), `stopping` and `detaching` (the
retired backend), `replacing` (the playback controls), `resetting` (the subscribers of
the cleared state), and after the answer through `creating`, `loading`, `reporting` or
`failing`. At each of these places it returns if its transition is no
longer the accepted one (`Superseded`, `BackendSuperseded`). `transition`, `phase`,
`lifecycle`, `backend` and `device` are the members of the same meaning;
`shown`, `failure` and `metadata` name the call that the document's state is about.
External are the resolver, the backends and the subscribers. Seeking, the position
slider, volume and the pending playback commands are left out.

**PageCandidates** (`navigation/imagedocumentpagecandidatestore.cpp`,
`...watchcontroller.cpp`, and the refreshes of
`session/documentsessiondirectmedianavigationruntime.cpp`) is the shared listing
of one directory. `watch` is the controller that lists the directory again after a
notification (`phase`: scheduled, listing, listed, answering), `plan` the
notification plan being applied, `erases` the queued idle erasures. A listing reads the
directory at a moment of its own, so that it may be older or newer than a
notification. What a client was told is `shown`.

**MediaEntrySource** (`archive/mediaentrysourceruntime.cpp`, `...entryloadstate`) is
the opened collection: a batch of entry loads with its worker, stop token and stored
task, the pending loads, image-data reads and the runner of each generation.
Completions are called on the owner's thread, also inside the scheduler's
`run()` (`starting` frames) and between the answers of one batch (`answering` frames).

**ImageOpen** (`document/imageopencontroller.cpp`, `imageopenworkflow.cpp`,
`imageloader.cpp`, `imagedocumentruntimeworkflow.cpp`) opens a source: a load is a
plan of operations (`ops`) dispatched one by one; `beginOpen` runs the open
controller, whose report clears the old image and starts a session of the loader; the
session asks for page candidates, resolves the image to the viewport target and is
finished by the viewport. Because a revision is only compared for equality by calls in
progress, a frame holds just whether its revision is still `current`. Six sources stand
for the cases the plans tell apart: a file, a comic book, a page and a clip of it, a page
of a sibling book and that book.

**ImageDeletion** (`document/imagedocumentdeletioncontroller.cpp`, `-state`,
`-fallbackcontroller.cpp`) deletes the displayed file, publishes progress, claims the
provider's answer, clears the image and opens a fallback, which may try
several comic books. A provider may answer inside the call that asks it, and a job is
kept only if it is still wanted when that call returns.

**MCDocument** checks these four together. They share no state in the code, so
interleaving their steps would only multiply states: a behaviour exercises one of
them, its `focus`, and the others rest. DocumentProofs carries what is proved of ImageOpen
and ImageDeletion over to the composition, and proves PageCandidates and MediaEntrySource.

## 3. Runs

All runs set `CHECK_DEADLOCK FALSE`: the application may stop calling, and the
number of its calls is bounded.

| Run | States, time | Instance | Checks |
|---|---|---|---|
| `async_worker` | 145,152; 25 s | 2 tasks, 2 pool threads | `TypeOK` `RunnableOwnership` `RetiredIsQuiescent` `SettledBeforeRetired` `ImplementsContract` `EveryTaskRetires` |
| `async_worker_stopped_owner` | violation | 1 task, 1 thread | `StoppedOwnerCancels` (section 4) |
| `refinement_queue` | 67,000; 30 s | 2 executions of 2 owner threads | `TypeOK` `RetiredIsQuiescent` `SettledBeforeRetired` `ImplementsContract` `EveryTaskRetires` |
| `refinement_order` | 194,050; 9 s | 3 executions of 1 owner, symmetric | `AdmissionIsExact` `ServedInOrder` |
| `predecode` | 850,857; 70 s | 3 pages, limit 2, 3 calls, 2 generations | `TypeOK` `ParallelBound` `PowerSaverIsQuiet` `LatestSelectionWins` |
| `predecode_progress` | 376,991; 45 s | 4 pages, limit 2, 2 calls, 2 page lists | `StartsAreAdmitted` `NeighboursPrepared` |
| `thumbnails` | 682,869; 70 s | 2 rows, 2 buckets, 1 place, 2 calls, 1 eviction | `TypeOK` `RowSetsAgree` `AdmissionBound` `ForegroundFirst` `DemandIsServedByLedger` |
| `thumbnail_reprioritised`, `thumbnail_refused` | violation | 1 row, 2 places | `DemandIsServed` (section 4) |
| `video` | 126,543; 15 s | 1 location and none, 3 source calls | `TypeOK` `RestingStateIsWhole` `StatusIsCurrent` `DestroyedIsInert` `ImplementsLatestRequest` `SourceSettles` |
| `video_latest` | violation | as above | `LatestSourceWins` (section 4) |
| `document` | 261,000; 60 s | 2 clients of a directory; 2 loads, 2 collections; 3 loads of sources; 2 deletions | `EveryTypeOK` `ClientsAreServed` `BatchIsWatched` `NeverFatal` `LoadingIsServed` `RestingIsWhole` `SubscribersConverge` `AnswersAreCurrent` `EveryLoadSettles` `DeletionSettles` |

What the runs show:

* *Tasks.* A finish callback runs at most once, never after the cancellation or
  the retirement (`ImplementsContract`). The QRunnable has one owner while
  `cancel` tries to take it back and a pool thread takes it
  (`RunnableOwnership`). When retirement is signalled nothing of the task is
  left (`RetiredIsQuiescent`), the outcome is settled (`SettledBeforeRetired`), and
  the signal comes, even when the owner thread stops (`EveryTaskRetires`).
* *Refinement.* An execution is admitted exactly while it is in flight, up to the
  hand-over of its result (`AdmissionIsExact`), and operations run in the order
  scheduled, although admission and start are two steps that different threads
  take (`ServedInOrder`).
* *Predecode.* Superseded decodes are charged until they retire (`ParallelBound`)
  and keep their page from being decoded twice (`StartsAreAdmitted`); what they
  held back is prepared at last (`NeighboursPrepared`). No timer, answer or
  completion starts work under the power saver (`PowerSaverIsQuiet`), and a late
  snapshot never brings an earlier page back (`LatestSelectionWins`).
* *Thumbnails.* The five row sets agree with the rows (`RowSetsAgree`), cancelled
  work counts against the places and a source is never worked on twice
  (`AdmissionBound`), speculative work never runs beside waiting foreground work
  and no waiting row is forgotten (`ForegroundFirst`), and every demand is served
  as long as the scheduler's ledger names work that exists
  (`DemandIsServedByLedger`); section 4 says when it does not.

* *Video.* Among source calls nested in each other's call-outs, and answers, backend
  reports and metadata that arrive late, only the latest admitted call becomes visible
  (`ImplementsLatestRequest`). When all calls have returned the runtime is in one of its
  resting states, with no replaced backend still connected (`RestingStateIsWhole`) and
  with status and failure that belong to the shown source (`StatusIsCurrent`). A
  destructor inside any call-out leaves the calls below it without effect
  (`DestroyedIsInert`), and every change settles once the resolver answers
  (`SourceSettles`).
* *Page candidates.* However the clients come and go around queued erasures, a waiting
  load has an attempt that will answer it (`ClientsAreServed`), and when the directory
  stops changing every subscriber ends with what it holds (`SubscribersConverge`).
* *Opened collections.* Every waiting load has one who will answer it, and the batch can
  be cancelled even when it completes inside `run()` (`BatchIsWatched`); an answer is
  given only while the collection asked for is the open one, although answers themselves
  switch it (`AnswersAreCurrent`); every load is answered or dropped (`EveryLoadSettles`).
* *Opening.* No plan leaves a state the code aborts on (`NeverFatal`), and a
  document that loads has a session that will be answered (`LoadingIsServed`), except
  in the two cases under "Seen" in section 4.
* *Deletion.* At rest the subscribers were told the truth, the job that runs can be cancelled
  and no unwanted request is left (`RestingIsWhole`); the document does
  not stay busy (`DeletionSettles`).

**Bounds, and why they suffice.** Two tasks and two threads show every race
between a task's owner and the thread that runs it, with another task
reusing the pool thread meanwhile; tasks share nothing else. Two owner threads
let one refinement be retired by a thread other than the next one's owner; three
executions are needed for two to wait behind one, hence the second run. With
three predecode calls the momentum reaches its threshold of two moves and a window can
be superseded twice; the second instance has four pages so that a jump
scrubs, and a page list that changes. `MaxGeneration` stops schedules
(afterwards the power saver stays on) and `MaxListing` the revisions of the list.
One thumbnail place for two rows forces displacement, waiting and retirement;
two buckets stand for four and a scan budget of 2 for 16, so that one turn of the
background scan does not reach the end. `MaxCalls` and `MaxPressure` bound the
session's calls and the image store's events.
Three source calls let one be superseded inside a call-out of a second, which a third
supersedes in turn; locations matter only for being equal, empty or not, so one suffices.
In `document` a third call or another change after the first two does the same for
each part: a client returns between its idleness and the erasure (two entries, two
changes); an answer switches the collection while a second load waits (two loads, two
collections, `MaxGeneration` 2); a load inside an open inside a load (three
loads, of every kind of plan); a deletion started inside the settling of another, whose
fallback tries up to two books (three requests). The mutants listed in
`PROJECT.json`, one for each property of each passing run, show that every
property can be violated by a plausible error in the mapped code within these bounds.

**Fairness.** An event loop that runs serves its posted events; a thread does
not rest in the middle of a function; operations and callbacks return; the pool
starts each queued runnable (QThreadPool is FIFO at equal priority); started
timers fire; every job reports and retires; a stopped owner thread releases its
relays. call-outs return, resolvers, providers, listings and queued calls are answered or
run. Nothing obliges the application to call, cancel or destroy anything. ImageOpen has safety properties only and states no fairness.
In PredecodeScheduler and ThumbnailWork weak fairness is written out
as "infinitely often not enabled or infinitely often taken", as TLC evaluates
ENABLED of these large actions slowly; where the instance is small ThumbnailWork also
uses the usual form (`WeakFairness`).

## 4. What the checks found

1. **A stopped owner leaves a delivered-to-be task active**
   (`async_worker_stopped_owner`; `async/imageasyncworker.h:346`). When the owner
   thread stops after a result was posted to it, the event is discarded with its
   relay and the payload's destructor retires the task without cancelling it.
   `tests/cpp/tst_imageioworkerjob.cpp:186` expects `!task.isActive()` of a
   stopped owner; it stops the owner while the work still runs, so that
   this order never occurs in it. The refinement queue cancels in `retire()` and
   does not have the difference.
2. **A re-prioritised demand loses background work**
   (`thumbnail_reprioritised`; `session/activenavigationthumbnailscheduler.cpp:238`).
   A demand that changes only in priority overwrites the demand of background work
   for a larger bucket. The completion then fails the comparison of buckets and is
   dropped, the row stays claimed by work that has ended, and once that claim is
   cancelled it never leaves `m_retiringWork`: later demand is never served.
3. **A refused image cancels work before it starts**
   (`thumbnail_refused`; `session/activenavigationthumbnailworkcoordinator.cpp:300`).
   While the effects *accept R, start background R* are applied, the image is
   refused; reconciling inside the first effect cancels the claim whose start
   is still to be applied. The executor does not know it, the outer loop starts
   it, and its claim never retires.

4. **A source call that changes nothing does not win** (`video_latest`;
   `video/videodocumentruntime.cpp:241`). `tests/cpp/tst_videodocumentruntime.cpp:1310` expects of
   source calls nested in each other that the newest one wins. A call with the location that is
   still shown returns early although an outer call is about to replace it: called
   with the old location from inside the resolver cancellation of a change, the runtime
   ends with the source of the *outer*, earlier call. The tests nest calls
   with new locations only. `ImplementsLatestRequest` is therefore about the latest
   *admitted* call.

Seen, but not counted as findings: while the current row waits for a place
every admission displaces one more visible row; the background sweep is not
armed again by an expiry or readmission; a page queued for predecode
before it is displayed may be decoded redundantly.

Seen in ImageOpen, recorded by its variable `lost`, and excluded from `LoadingIsServed`:

* A load of the source that is still selected, made inside the call-outs between the
  cancellation of the old open and the selection of the new source, keeps the open
  in progress; but that one is cancelled already, and the plan that would begin another
  is superseded. The document stays loading (`CutOff`).
* Clearing the page tells subscribers before the viewport target is cleared, and does
  not compare afterwards (`document/imagedocumentruntimeworkflow.cpp:160`-`163`): the
  target of a load started inside the notification is cleared, and its session never
  finishes (`TargetCleared`).

No document or test of the repository speaks of either, so they are not findings.

## 5. Proofs

Eight modules hold proofs: every invariant and every action property that a passing run
checks, and the three refinements, are theorems; what stays with TLC is liveness. The bounds of
the instances are constants of the theorems: any numbers of tasks and pool threads
(`AsyncWorkerProofs`), executions and owner threads (`RefinementQueueProofs`), pages, windows
and decodes (`PredecodeSchedulerProofs`), rows, qualities and places
(`ThumbnailWorkProofs`), locations and source calls (`VideoDocumentProofs`), loads
(`ImageOpenProofs`), deletions and fallback requests (`ImageDeletionProofs`), clients,
directory contents, collections, reads and switches (`DocumentProofs`).

The primitives:

| | AsyncWorkerProofs | RefinementQueueProofs |
|---|---|---|
| `Spec => []IInv` | `Inductive` | `Inductive` |
| `TypeOK` | `TypeCorrect` | `TypeCorrect` |
| ownership, admission | `RunnableIsOwned` | `AdmissionExact`, `InOrder` |
| `RetiredIsQuiescent` | `RetirementIsQuiescent` | `RetirementIsQuiescent` |
| `SettledBeforeRetired` | `SettledFirst` | `SettledFirst` |
| `ImplementsContract` | `Refinement` | `Refinement` |

Preparation, thumbnails and video:

| PredecodeSchedulerProofs | ThumbnailWorkProofs | VideoDocumentProofs |
|---|---|---|
| `Inductive` | `Inductive` | `Inductive` |
| `TypeCorrect`: `TypeOK` | `TypeCorrect`: `TypeOK` | `TypeCorrect`: `TypeOK` |
| `DecodesAreBounded`: `ParallelBound` | `AdmissionCorrect`: `AdmissionBound` | `RestIsWhole`: `RestingStateIsWhole` |
| `PowerSaverQuiet`: `PowerSaverIsQuiet` | `RowSetsCorrect`: `RowSetsAgree` | `StatusCurrent`: `StatusIsCurrent` |
| `LatestSelection`: `LatestSelectionWins` | `ForegroundCorrect`: `ForegroundFirst` | `Inert`: `DestroyedIsInert` |
| `StartsAdmitted`: `StartsAreAdmitted` | `JobsAreKnown`: half of `LedgerAgrees` | `Refinement`: `ImplementsLatestRequest` |

`JobsAreKnown` is the part of `LedgerAgrees` that holds without exception: no job runs
that the ledger does not know, and a cancelled job is one the ledger knows to retire. The
findings 2 and 3 of section 4 are about the converse.

The parts of a document, and what is said of MCDocument, which the run `document` checks:

| Part | of the part | of the composition (`DocumentProofs`) |
|---|---|---|
| ImageOpen | `ImageOpenProofs`: `Inductive`, `TypeCorrect`, `NoFatalState`, `RestingIsServed` | `OpeningNeverFatal`, `OpeningIsServed` |
| ImageDeletion | `ImageDeletionProofs`: `Inductive`, `TypeCorrect`, `RestIsWhole` | `DeletionRestsWhole` |
| PageCandidates | `DocumentProofs`: `CandidatesInductive`, `CandidatesServed` | `ListingIsServed` |
| MediaEntrySource | proved as part of the composition | `EntriesInductive`, `EntriesAreWatched`, `EntriesAnswersAreCurrent` |
| all | | `EveryTypeCorrect` |

An invariant of a part is one of the composition, because every step of another part leaves
the part's variables alone (`Steps`); that the instance of the proofs and the composed one
say the same is `OpeningIsThat` and `DeletionIsThat`. `OpeningIsServed` is
about the states in which nothing was `lost` (section 4, "Seen").

**Assumptions** are those of the modules on their constants, which TLC evaluates on every
run: `NoTask` is no task and the pool's (the owner's) thread is none of the others; each
execution has a home; the empty location is none of the locations; `Nothing` and `Failure`
are no contents of a directory; no collection is the absent one; an empty optional is no
value of its type (`NoneAssumption`); there is a row, a quality and a place, and a limit of
decodes of at least one; the bounds are natural numbers. Where a part is instantiated rather
than extended they are one operator, `ConstantsAreSound`, and hypotheses of its theorems;
MCDocument assumes it of each part.

**The inductive invariants.** The checked properties are not inductive. *RetiredIsQuiescent*
speaks of retired tasks only; that a step which retires a task finds nothing of it elsewhere
needs to know where everything is before. `IInv` says that:

* AsyncWorker: threads inside the code have a task (`ThreadsHaveTasks`); the runnable is in
  exactly one of the pool's queue, a pool thread, a withdrawing thread
  (`Ownership`); a payload's holders are the thread at certain places and the posted
  event (`PayloadHolders`); the runnable's retirement is disarmed exactly
  once the payload has taken it over (`Disarming`); a task is retired only
  when neither is left (`Retirement`); an active task is tracked and its callback
  was not called, and whoever is about to retire a task finds it settled (`Settling`).
* RefinementQueue: what is in flight is what is admitted (`AdmissionIsExact`); the
  holders of the retirement object (`Holders`); an execution is in one place:
  queued, in the pool's queue, on the pool thread, with a retiring thread, or in `next` (`OnePlace`); turns
  respect the order of pushes and the admitted one precedes the queued
  (`Order`); relays and outcomes (`Settling`); what a retired execution leaves (`Retirement`).
* PredecodeScheduler: the decodes are finitely many and within the limit (`Held`), what is
  queued is of the open window and not for the page the foreground owns (`Avoids`), no schedule is pending
  under the power saver (`SavesQuietly`), and only the ask of the latest call bears its number
  (`Remembers`). The loops over a window or a queue are recursive functions; what they
  preserve is shown by the least length at which they would not (`Least`). Every operation of
  the loads is shown to keep these and to start only what may be started (`Starts`), so
  that `StartsAreAdmitted` comes with the invariant.
* ThumbnailWork: `Rested` is the scheduler's own part: what retires and what works is
  within the capacity, one claim for an id and one for a row's source (`LedgerSound`); the row
  sets (`ActiveListed`, `RowsSound`); no speculative work beside waiting rows of a higher tier
  and a cause for every wait (`Prompt`). `Agree` is about what was decided and not yet done:
  jobs and start effects are about work of the ledger and of different ids, and a
  cancelled job, or a cancel effect, is about work that retires. The difficulty is the
  nesting: an operation begins while effects of others are waiting. `Decided` relates the
  state reached to the one in which the operation was entered: it starts work only under ids that were free
  then, and cancels once, and only what was not retiring then; so what it decided can be put
  before what was waiting (`Resume`). An operation is a chain of small steps, each of which keeps `Kept`, and
  its loops over the rows are one lemma about recursive functions (`LoopResult`). `Ends`
  does the same for the operations that take work out of the ledger.
* VideoDocument: what holds at rest is only reached if every frame on the way kept it.
  Frames belong to different calls, none of which is also being resolved (`FramesAreCalls`,
  `RequestsAreCalls`); the transition is the latest admitted call or none
  (`TransitionIsLatest`); an accepted transition has a frame or a request that carries
  it on (`SomebodyContinues`), and at each place of that frame only certain state has been
  changed (`ChangeIsOrdered` with `PlaceIsReached`; `WaitingIsClean` while the resolver is
  asked); a backend that is accepted is that of the shown source (`PlayingIsShown`); every
  connected backend is the installed one or held by a frame that will disconnect it
  (`RetiredAreLetGo`); status and failure follow the backend (`StatusAgrees`).
* ImageOpen: what is left of each frame's plan is a rest of one of the plans the code builds
  (`Shapes`), and what its earlier operations established is still so, because above a plan that goes
  on there are only subscribers and the clearing of the target (`PlanInOrder`); the one
  open being reported has no session yet (`OpenIsReported`); a session is that of the load
  in progress (`SessionLoads`), and unless the load was cut off it has an answer to wait for or
  a call that goes on (`SomebodyLoads`); a load starts one session (`Budget`).
* ImageDeletion: a frame is about a deletion or request that was begun, and a deletion that is
  being cancelled is over (`FramesAreTheirs`); the deletion in progress is the latest
  (`BusyWithLatest`) and somebody settles it: its provider, once the job is kept; before, the
  call that starts it; after the claim, the call that opens the fallback, which may
  wait below calls that ask (`SomebodySettles`). What is published is in progress, or a call
  that cancelled it will take it back (`PublishedIsOwed`). The fallback's request is
  asked for and its job kept or about to be; any other that is asked belongs to a call that
  will cancel it (`FallbackIsAsked`). With nobody on the stack only the first
  alternatives are left: `RestingIsWhole`.
* PageCandidates: the watch controller lives and dies with its entry, and what the entry knows
  is what the controller's first attempt has answered (`WatchFollowsEntry`); a plan is
  applied exactly inside such an answer (`PlanIsAnswer`). With these `ClientsAreServed` is
  inductive (`CandidatesInv`).
* MediaEntrySource (`EntriesInv`): no batch or read is of a later generation than the source's, the active
  batch is of that generation and still to be completed, and without one nothing waits
  (`BatchIsCurrent`); whoever would be answered because its generation is the current one
  asked for the open collection (`AnswerableAreOurs`). Replacing the collection raises the
  generation, which takes every frame below out of the second part instead of
  breaking it. `AnswersAreCurrent` is an action property from these.

TLC checked each `IInv` as an invariant first. Each proof has a step per
action and below it one per conjunct of `IInv` the action can disturb. `Refinement` combines
a step lemma (every step maps to a step of the abstract specification or a stutter, under
`IInv`) with `Inductive`. `InOrder` is an action property from `Order` and `OnePlace`. In
`VideoDocumentProofs` the actions that only move a frame share lemmas about the stack;
`TransitionRefines`, `ResolverRefines`, `BackendsRefine` and `OwnerRefines` map its steps to
those of LatestRequest.

One proof attempt corrected the model: `RowSetsAgree` could not be proved for the
replacement of the rows, because the model kept the old rows' demand until the new ones
came. `invalidate` clears the rows before anything else can run, and so does the model now
(generation 0).

**Only model-checked** are the liveness properties, as the prover reasons neither about
ENABLED nor about fairness: `EveryTaskRetires` of both primitives, `NeighboursPrepared`,
`DemandIsServedByLedger`, `SourceSettles`, `SubscribersConverge`, `EveryLoadSettles` and
`DeletionSettles`. The expected violations of section 4 are TLC's as well.

## 6. What is not modelled

* Components with status `not_modelled` in `PROJECT.json`, each with its reason: pixel
  computation (decoding, thumbnail files, raster work), foreign input and output, pure
  functions, and the user interface. Most of the repository's lines are of
  these kinds.
* Of the modelled ones: byte budgets, retention ranking and generation of pixels;
  publishing of row status and notifications to QML; a second user of the
  predecode components, `MediaPredecodeCoordinator` of the session, which calls the
  same schedule state; wrap-around of 64-bit ids; `QCoreApplication::closingDown`;
  exceptions and failed allocation.
* In the thumbnails, a provider that reports from inside its own start; the
  foreground capacity is fixed.
* Video: seeking, slider previews, volume and the pending playback commands; the shared
  playback status of the controls.
* Page candidates: projection of a listing into candidates for one media kind, a watch
  that cannot be started, lists of comic books in a directory (the same store with
  another lister).
* Opening: two-page spreads and rotation of the displayed page, the target's pixels and its
  provider's requests, containers opened by the file dialogue.
* Memory ordering: every shared field is read and written under its mutex or by one
  thread, so steps between lock operations are atomic.

## 7. Plan

Order of what is left, most important behaviour first:

1. Session routing (`session/documentsessionrouteruntime.cpp` and the ports of
   `documentsessionruntimegraph.cpp`): a route is a plan of mutations, each of which may start
   another route. Promise: when all calls have returned, document kind, sources,
   cursor, identity and published projection belong to the latest route. A route opened
   by direct-media navigation is admitted from outside too, and may be
   abandoned half-way; what the session then shows is the open question.
   Two more questions come from reading the code and are not checked by any run: whether a
   publication nested in another one can leave the public snapshot behind the session
   (`publish` of `session/documentsessionprojectionruntime.cpp` records its dependency only
   after the call-out, so a nested publication equal to the recorded one is skipped), and
   whether a video whose source is still being replaced survives `leaveMode`, which decides
   from the cached public snapshot (`session/documentsessionruntimegraph.cpp:1254`).
2. The pending playback commands of the video runtime (64 per drain, 1024 pending).
3. `DisplayImages` (`rendering/displayimagestore.cpp`) with its budget and leases, then the
   request lifecycle of `libs/image-viewport/src/viewportproviderbridge.cpp`.
4. Retention in `PredecodeCache`.
