-------------------------- MODULE PredecodeScheduler --------------------------
(***************************************************************************)
(* When the neighbours of a page are prepared: the request for a candidate *)
(* snapshot (ImageDocumentPredecodeController), the schedule with its      *)
(* debounce and neutral timers, momentum and power saver                   *)
(* (PredecodeScheduleState, PredecodeScheduleRuntime) and the window it    *)
(* opens (ImagePredecodeCoordinator) over the loads of PredecodeLoads.     *)
(* Everything runs on one thread: an action is a whole call or callback.   *)
(***************************************************************************)
EXTENDS PredecodeLoads

CONSTANTS
  NeutralNext, NeutralPrevious, Biased,  \* PredecodeSourceProfile's page counts
  MaxRequests,    \* bound: the calls of the document
  MaxGeneration,  \* bound: the schedules after which the power saver stays on
  MaxListing      \* bound: the revisions of the page list

VARIABLES
  request,     \* m_candidateSnapshotRequestId
  asked,       \* the ensure-snapshot calls not yet answered, each with its context
  listing,     \* the revision of the confirmed page list (external)
  shown,       \* the pages displayed (external)
  selected,    \* the page of the latest call of the document (history)
  generation,  \* PredecodeScheduleState::m_generation
  context,     \* m_currentContext
  pending,     \* the generation of m_pendingSchedule, whose context is m_currentContext
  momentum,    \* m_momentumState
  powerSaver,  \* m_powerSaverEnabled
  timers,      \* the timers that run: "debounce", "neutral"
  loads        \* the state of PredecodeLoads

documentVars == <<request, asked, shown, selected>>
scheduleVars == <<generation, context, pending, momentum, timers>>
vars == <<documentVars, listing, scheduleVars, powerSaver, loads>>

Modes == {"neutral", "next", "previous", "scrubNext", "scrubPrevious"}
Elapsed == {"scrub", "biased", "moving", "long"}  \* <= 120 ms, <= 450, < 800, longer
Contexts == [page : Pages, displayed : SUBSET Pages, index : Pages \cup {-1},
             immediate : BOOLEAN, snapshot : Nat]  \* snapshot 0: none was obtained

ASSUME ProfileAssumption == {NeutralNext, NeutralPrevious, Biased} \subseteq Nat
ASSUME NoneAssumption == None \notin Contexts

StillMomentum == [mode |-> "neutral", last |-> -1, direction |-> "none", moves |-> 0]

TypeOK ==
  /\ request \in Nat
  /\ asked \subseteq [id : Nat, context : Contexts]
  /\ listing \in Nat
  /\ shown \subseteq Pages
  /\ selected \in Pages \cup {None}
  /\ generation \in Nat
  /\ context \in Contexts \cup {None}
  /\ pending \in 0 .. generation  \* 0: no pending schedule
  /\ pending > 0 => context # None
  /\ momentum \in [mode : Modes, last : Pages \cup {-1},
                   direction : {"none", "next", "previous"}, moves : 0 .. 2]
  /\ powerSaver \in BOOLEAN
  /\ timers \subseteq {"debounce", "neutral"}
  /\ loads \in LoadStates

Init ==
  /\ request = 0
  /\ asked = {}
  /\ listing = 1
  /\ shown = {}
  /\ selected = None
  /\ generation = 0
  /\ context = None
  /\ pending = 0
  /\ momentum = StillMomentum
  /\ powerSaver \in BOOLEAN  \* the monitor is read at construction
  /\ timers = {}
  /\ loads = NoLoads

-----------------------------------------------------------------------------
(* The preparation policy. *)

AtLeast(elapsed, class) == elapsed \in
  CASE class = "biased" -> {"scrub", "biased"}
    [] class = "moving" -> {"scrub", "biased", "moving"}

Moved(m, index, elapsed) ==  \* a navigation from page m.last to another page
  LET forward == index > m.last
      direction == IF forward THEN "next" ELSE "previous"
      jump == IF forward THEN index - m.last ELSE m.last - index
      moves == IF direction = m.direction /\ AtLeast(elapsed, "biased")
               THEN IF m.moves = 2 THEN 2 ELSE m.moves + 1  \* only >= 2 is ever asked
               ELSE 1
      scrubs == \/ moves = 2 /\ elapsed = "scrub"
                \/ jump >= 3 /\ AtLeast(elapsed, "biased")
      mode == CASE scrubs -> IF forward THEN "scrubNext" ELSE "scrubPrevious"
                [] ~scrubs /\ moves = 2 /\ AtLeast(elapsed, "biased") -> direction
                [] OTHER -> "neutral"
  IN [mode |-> mode, last |-> index, direction |-> direction, moves |-> moves]

UpdatedMomentum(m, index, elapsed) ==
  CASE index = -1 \/ index = m.last -> [m EXCEPT !.mode = "neutral"]
    [] index # -1 /\ m.last = -1 -> [m EXCEPT !.mode = "neutral", !.last = index]
    [] OTHER -> Moved(m, index, elapsed)

Scrubbing(m) == m.mode \in {"scrubNext", "scrubPrevious"}

LimitFor(m, saving) == IF Scrubbing(m) \/ saving THEN 0 ELSE ParallelLimit

WindowPages(m, page) ==  \* the page itself, then its neighbours by distance, next before previous
  LET next == CASE m.mode = "next" -> Biased [] m.mode = "previous" -> 1 [] OTHER -> NeutralNext
      previous ==
        CASE m.mode = "previous" -> Biased [] m.mode = "next" -> 1 [] OTHER -> NeutralPrevious
      reach == IF next > previous THEN next ELSE previous
      places == [k \in 1 .. 2 * reach |->
                   [offset |-> (k + 1) \div 2, forward |-> k % 2 = 1]]
      Within(q) == IF q.forward THEN q.offset <= next /\ page + q.offset \in Pages
                                ELSE q.offset <= previous /\ page - q.offset \in Pages
      within == Kept(places, {q \in Elements(places) : Within(q)})
  IN <<page>> \o [i \in 1 .. Len(within) |->
                    IF within[i].forward THEN page + within[i].offset
                                         ELSE page - within[i].offset]

(* ImagePredecodeCoordinator::scheduleAdjacentImagePredecode: without a      *)
(* snapshot, or with no load admitted, the window has no pages.              *)
StartAdjacent(l, c, m, gen, saving) ==
  LET limit == LimitFor(m, saving)
      usable == limit > 0 /\ c.snapshot > 0
      scope == IF usable THEN SnapshotScope(c.snapshot) ELSE FallbackScope(gen)
      window == [foreground |-> c.page, scope |-> scope, generation |-> gen,
                 limit |-> limit]
  IN StartWindow(l, window, IF usable THEN WindowPages(m, c.page) ELSE <<>>, c.displayed)

(* PredecodeScheduleState::schedule and the operations it plans. *)
Schedule(l, c, elapsed, saving) ==
  LET m == UpdatedMomentum(momentum, c.index, elapsed)
      gen == generation + 1
      kept == CacheDisplayed(l, c.displayed)
      now == ~saving /\ c.immediate
  IN /\ momentum' = m
     /\ generation' = gen
     /\ context' = c
     /\ pending' = IF saving THEN 0 ELSE gen
     /\ timers' = IF saving \/ now THEN {} ELSE {"debounce", "neutral"}
     /\ loads' = CASE saving -> ClearWindow(kept)
                   [] now -> StartAdjacent(kept, c, m, gen, FALSE)
                   [] OTHER -> kept

-----------------------------------------------------------------------------
(* The calls of the image document. *)

DropContextOnly ==  \* a mutation: the pending schedule survives its context
  /\ context' = None
  /\ pending' = pending
  /\ timers' = {}

DropSchedule ==  \* PredecodeScheduleState::supersede, both timers stopped
  /\ context' = None
  /\ pending' = 0
  /\ timers' = {}

AskFor(page, displayed, index, immediate) ==
  asked' = asked \cup
    {[id |-> request',
      context |-> [page |-> page, displayed |-> displayed, index |-> index,
                   immediate |-> immediate, snapshot |-> 0]]}

ShownWith(page) == {{page}, {page, page + 1} \cap Pages}  \* alone, or with a secondary page

PageIndices(page) ==  \* no page number is known before the page list is first confirmed
  IF generation = 0 THEN {-1, page} ELSE {page}

ScheduleAdjacent(page, displayed, index) ==  \* the displayed page changed
  /\ request < MaxRequests
  /\ request' = request + 1
  /\ selected' = page
  /\ shown' = displayed
  /\ AskFor(page, displayed, index, FALSE)
  /\ UNCHANGED <<listing, scheduleVars, powerSaver, loads>>

ScheduleTarget(page) ==  \* navigation to a page was accepted
  /\ request < MaxRequests
  /\ request' = request + 1
  /\ selected' = page
  /\ DropSchedule
  /\ loads' = RetireBackgroundLoad(CancelBackground(loads), page)
  /\ \/ shown # {} /\ AskFor(page, shown, page, TRUE)
     \/ shown = {} /\ asked' = asked  \* no displayed image to schedule with
  /\ UNCHANGED <<listing, shown, generation, momentum, powerSaver>>

AcceptAny(a) == TRUE  \* a mutation: the request identity is not compared

Accepts(a) == a.id = request

SnapshotArrives(a, succeeded, elapsed) ==
  /\ a \in asked
  /\ asked' = asked \ {a}
  /\ UNCHANGED <<request, shown, selected, listing, powerSaver>>
  /\ IF Accepts(a)
     THEN LET c == [a.context EXCEPT !.snapshot = IF succeeded THEN listing ELSE 0]
              taken == IF c.immediate
                       THEN RetireBackgroundLoad(CancelBackground(loads), c.page) ELSE loads
          IN Schedule(taken, c, elapsed, powerSaver)
     ELSE UNCHANGED <<scheduleVars, loads>>

StopSchedule ==  \* ImagePredecodeCoordinator::cancel
  /\ request < MaxRequests
  /\ request' = request + 1
  /\ selected' = None
  /\ shown' = {}
  /\ DropSchedule
  /\ momentum' = StillMomentum
  /\ UNCHANGED <<asked, listing, generation, powerSaver>>

Cancel == StopSchedule /\ loads' = CancelBackground(CancelDecodes(loads))

Clear == StopSchedule /\ loads' = ClearLoads(loads)

ListingChanges ==  \* the page list of the collection was confirmed again
  /\ listing < MaxListing
  /\ listing' = listing + 1
  /\ UNCHANGED <<documentVars, scheduleVars, powerSaver, loads>>

-----------------------------------------------------------------------------
(* The power saver, the timers and the decode jobs. *)

PowerSaverLoads(l) == ClearWindow(CancelBackground(l))  \* a mutation: running decodes go on

SuspendLoads(l) == ClearWindow(CancelBackground(CancelDecodes(l)))

EnablePowerSaver ==
  /\ ~powerSaver
  /\ powerSaver' = TRUE
  /\ pending' = 0
  /\ timers' = {}
  /\ loads' = SuspendLoads(loads)
  /\ UNCHANGED <<documentVars, listing, generation, context, momentum>>

DisablePowerSaver(elapsed) ==  \* the schedule of the current context is made again
  /\ powerSaver
  /\ powerSaver' = FALSE
  /\ IF context = None THEN UNCHANGED <<scheduleVars, loads>>
     ELSE generation < MaxGeneration /\ Schedule(loads, context, elapsed, FALSE)
  /\ UNCHANGED <<documentVars, listing>>

DebounceFires ==
  /\ "debounce" \in timers
  /\ timers' = timers \ {"debounce"}
  /\ loads' = IF pending = 0 THEN loads ELSE 
                      StartAdjacent(loads, context, momentum, pending, powerSaver)
  /\ UNCHANGED <<documentVars, listing, generation, context, pending, momentum, powerSaver>>

Settles == pending # 0 /\ momentum.mode # "neutral"

NeutralFires ==
  /\ "neutral" \in timers
  /\ UNCHANGED <<documentVars, listing, context, powerSaver>>
  /\ \/ /\ Settles
        /\ momentum' = [momentum EXCEPT !.mode = "neutral"]
        /\ generation' = generation + 1
        /\ pending' = generation'
        /\ timers' = {}
        /\ loads' = StartAdjacent(loads, context, momentum', generation', powerSaver)
     \/ /\ ~Settles
        /\ timers' = timers \ {"neutral"}
        /\ UNCHANGED <<generation, pending, momentum, loads>>

FinishDecode(e) ==  \* finishDecode or finishLoadError: of a canceled decode, neither acts
  /\ e \in loads.active
  /\ ~e.retiring
  /\ loads' = FinishPublishing(loads, e)
  /\ UNCHANGED <<documentVars, listing, scheduleVars, powerSaver>>

JobRetires(e) ==  \* queued to the owner after the job's last callback
  /\ e \in loads.active
  /\ e.retiring
  /\ loads' = FinishRetirement(loads, e)
  /\ UNCHANGED <<documentVars, listing, scheduleVars, powerSaver>>

-----------------------------------------------------------------------------
DocumentCall ==
  \/ \E page \in Pages : \E displayed \in ShownWith(page) :
       \E index \in PageIndices(page) : ScheduleAdjacent(page, displayed, index)
  \/ \E page \in Pages : ScheduleTarget(page)
  \/ Cancel \/ Clear

Answer == \E a \in asked, succeeded \in BOOLEAN, elapsed \in Elapsed :
            SnapshotArrives(a, succeeded, elapsed)

JobStep == \E e \in loads.active : FinishDecode(e) \/ JobRetires(e)

Next ==
  \/ DocumentCall
  \/ Answer
  \/ ListingChanges
  \/ EnablePowerSaver
  \/ \E elapsed \in Elapsed : DisablePowerSaver(elapsed)
  \/ DebounceFires \/ NeutralFires
  \/ JobStep

Spec == Init /\ [][Next]_vars

(* Every snapshot request is answered, started timers fire, and a decode job *)
(* reports its result and its retirement.  (Weak fairness, spelled out with  *)
(* what enables each action: TLC evaluates ENABLED of these actions slowly.) *)
Fairness ==
  /\ []<>(asked = {}) \/ []<><<Answer>>_vars
  /\ []<>("debounce" \notin timers) \/ []<><<DebounceFires>>_vars
  /\ []<>("neutral" \notin timers) \/ []<><<NeutralFires>>_vars
  /\ []<>(loads.active = {}) \/ []<><<JobStep>>_vars

FairSpec == Spec /\ Fairness

-----------------------------------------------------------------------------
(* The decodes that hold memory and a thread, canceled ones included, never  *)
(* exceed the limit, whatever windows were opened and superseded meanwhile.  *)
ParallelBound == Cardinality(loads.active) <= ParallelLimit

(* A decode starts only for a page that no canceled decode still occupies    *)
(* (preparation-cache.md: canceled work "cannot admit replacement work       *)
(* early"), that the foreground does not own, and whose work was not         *)
(* completed in the same scope, and never under power saver.                 *)
Started == {e \in loads'.active \ loads.active : ~e.retiring}
StartsAreAdmitted ==
  [][\A e \in Started :
       /\ ~\E old \in loads.active \cap loads'.active : old.page = e.page /\ old.retiring
       /\ e.page # loads'.window.foreground
       /\ Work(e.page, e.scope) \notin loads.completed
       /\ ~powerSaver']_vars

(* Under power saver nothing is prepared: no window is open and every decode *)
(* still present was canceled, in whatever order calls, answers, timers and  *)
(* completions come.                                                         *)
PowerSaverIsQuiet ==
  powerSaver => loads.window = None /\ \A e \in loads.active : e.retiring

(* Once the latest call was answered, the schedule is for the page that call *)
(* named: a snapshot that arrives late never brings back an earlier page.    *)
LatestSelectionWins ==
  context # None /\ (\A a \in asked : a.id # request) => context.page = selected

(* When the calls cease, the pages next to the scheduled one are displayed,  *)
(* owned by the foreground or prepared from the scheduled page list: no      *)
(* superseded window, canceled decode or stopped timer loses them.  (A       *)
(* scrubbing jump that is scheduled immediately prepares nothing.)           *)
NeighboursReady ==
  \/ context = None \/ powerSaver \/ context.snapshot = 0
  \/ context.immediate /\ Scrubbing(momentum)
  \/ \A p \in {context.page - 1, context.page + 1} \cap Pages :
       \/ p \in loads.displayed
       \/ Work(p, SnapshotScope(context.snapshot)) \in loads.completed
NeighboursPrepared == <>[]NeighboursReady
=============================================================================
