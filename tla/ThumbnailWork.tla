----------------------------- MODULE ThumbnailWork -----------------------------
(***************************************************************************)
(* The thumbnails of the navigation strip at work: the scheduler's         *)
(* decisions applied by ActiveNavigationThumbnailWorkCoordinator to        *)
(* ActiveNavigationThumbnailJobExecutor, whose jobs look a thumbnail up    *)
(* and then generate it, and to the row store and its images.  All of it   *)
(* runs on one thread, but not in one piece: applying an effect may cancel *)
(* a job that retires at once, or fail to install an image, and then the   *)
(* scheduler is entered again before the remaining effects are applied.    *)
(* scheduler.effects is that stack: what a nested entry decides comes      *)
(* before what is left.  Nothing else runs until it is empty.              *)
(***************************************************************************)
EXTENDS ThumbnailScheduler

CONSTANTS
  Cacheable,   \* the rows whose plan looks the thumbnail cache up first
  Wanted,      \* the demands the strip reports for a row
  MaxCalls,    \* bound: the calls of the session
  MaxPressure, \* bound: the events of the image store
  Refusals     \* {TRUE} if the image store may refuse an image, else {}

ASSUME CacheableAssumption == Cacheable \subseteq Rows
ASSUME WantedAssumption == Wanted \subseteq Demands
ASSUME BoundsAssumption == MaxCalls \in Nat /\ MaxPressure \in Nat

VARIABLES
  scheduler,    \* the state of ThumbnailScheduler
  records,      \* ActiveNavigationThumbnailJobExecutor::State::records
  continuations,\* the admission epochs of the continuations in the event queue
  ready,        \* the rows whose image is in the image store
  losses,       \* ActiveNavigationThumbnailRowStore::m_residencyLosses
  opportunity,  \* m_admissionOpportunity
  calls, pressure  \* the events so far (bounds)

storeVars == <<ready, losses, opportunity>>
bounds == <<calls, pressure>>
vars == <<scheduler, records, continuations, storeVars, bounds>>

effects == scheduler.effects

Records ==
  [claim : Claims, phase : {"lookup", "generation"}, canceled : BOOLEAN, retired : BOOLEAN,
   staged : {"none", "missing", "ready", "failed"}]

(* The row sets the scheduler keeps by hand agree with the rows they are     *)
(* about, whatever order demands, completions, losses and selections took.   *)
RowSetsAgree ==
  LET s == scheduler
      waiting == {r \in Rows : s.demand[r] # None /\ r \notin s.blocked /\ ~DemandComplete(s, r)}
      isHigh(r) == TierFor(s, r, s.demand[r]) \in {"current", "visible"}
  IN /\ s.high = {r \in waiting : isHigh(r)}
     /\ s.nearby = {r \in waiting : ~isHigh(r)}
     /\ s.activeNearby = {r \in Rows : s.work[r] # None /\ s.work[r].tier = "nearby"}
     /\ {r \in Rows : s.work[r] # None /\ s.work[r].tier = "background"}
          = {r \in Rows : r = s.activeBackground}

TypeOK ==
  /\ scheduler \in SchedulerStates
  /\ records \subseteq Records
  /\ continuations \subseteq Nat
  /\ ready \subseteq Rows
  /\ losses \subseteq Rows
  /\ opportunity \in BOOLEAN
  /\ calls \in 0 .. MaxCalls
  /\ pressure \in 0 .. MaxPressure

Init ==
  /\ scheduler = NewRows(1, {})
  /\ records = {}
  /\ continuations = {}
  /\ ready = {}
  /\ losses = {}
  /\ opportunity = FALSE
  /\ calls = 0
  /\ pressure = 0

-----------------------------------------------------------------------------
(* Entering the scheduler. *)

Entered(s) == [s EXCEPT !.effects = <<>>]  \* with the remaining effects set aside

Nested(s, rest) == [s EXCEPT !.effects = @ \o rest]

Returned(s) == Nested(s, Tail(effects))  \* from the entry of the first effect

Idle == effects = <<>>

(* A call takes the residency change of the row store with it: the losses    *)
(* before the operation, the admission opportunity after it.  A snapshot the *)
(* scheduler rejects changes nothing else (Reconcile).                       *)
Call(Operation(_)) ==
  LET done == Operation(LoseResidency(scheduler, losses))
  IN /\ Idle
     /\ scheduler' = IF opportunity THEN Readmit(done) ELSE done
     /\ losses' = {}
     /\ opportunity' = FALSE
     /\ UNCHANGED <<records, continuations, ready>>

Counted ==
  /\ calls < MaxCalls
  /\ calls' = calls + 1
  /\ pressure' = pressure

SelectRow(r) == Counted /\ Call(LAMBDA s : SetCurrentNumber(s, r))

ReportDemand(demands) == Counted /\ Call(LAMBDA s : ReplaceDemand(s, demands))

RefreshSource(r) ==  \* a source refresh, then the current number once more
  Counted /\ Call(LAMBDA s : SetCurrentNumber(RefreshRow(s, r), s.current))

ReplaceRows(r) ==  \* an identity replacement; the new rows follow the cancels
  /\ Counted
  /\ Idle
  /\ scheduler' = Nested(Invalidate(scheduler),
                        <<[kind |-> "rows", generation |-> scheduler.generation + 1,
                           current |-> r]>>)
  /\ losses' = {}
  /\ ready' = {}
  /\ opportunity' = (opportunity \/ ready # {})  \* the images of the old rows are released
  /\ UNCHANGED <<records, continuations>>

Reconcile ==  \* reconcileResidencyChange
  /\ losses # {} \/ opportunity
  /\ Call(LAMBDA s : s)
  /\ UNCHANGED bounds

-----------------------------------------------------------------------------
(* Applying the first effect. *)

RetirePhase(rec, s) ==  \* the records and the scheduler after retirePhase
  LET rest == records \ {rec}
      generating == [rec EXCEPT !.phase = "generation", !.staged = "none", !.retired = FALSE]
  IN CASE rec.canceled -> <<rest, AcceptRetirement(s, rec.claim.id)>>
       [] ~rec.canceled /\ rec.staged \in {"ready", "failed"} ->
            <<rest, AcceptCompletion(s, rec.claim, rec.staged)>>
       [] ~rec.canceled /\ rec.staged = "missing" -> <<rest \cup {generating}, s>>
       [] OTHER -> <<rest \cup {[rec EXCEPT !.retired = TRUE]}, s>>

Canceled(rec) == [rec EXCEPT !.canceled = TRUE, !.staged = "none"]

ApplyCancel(withdrawn) ==  \* withdrawn: the job was still queued and retires within cancel()
  /\ ~Idle
  /\ Head(effects).kind = "cancel"
  /\ LET mine == {rec \in records : rec.claim.id = Head(effects).id}
         gone == {rec \in mine : rec.retired \/ withdrawn}
     IN /\ records' = (records \ mine) \cup {Canceled(rec) : rec \in mine \ gone}
        /\ scheduler' = Returned(IF gone = {} THEN Entered(scheduler)
                                 ELSE AcceptRetirement(Entered(scheduler), Head(effects).id))
  /\ UNCHANGED <<continuations, storeVars, bounds>>

ApplyStart ==
  /\ ~Idle
  /\ Head(effects).kind = "start"
  /\ LET claim == Head(effects).work
         phase == IF claim.row \in Cacheable THEN "lookup" ELSE "generation"
     IN records' = records \cup {[claim |-> claim, phase |-> phase, canceled |-> FALSE,
                                  retired |-> FALSE, staged |-> "none"]}
  /\ scheduler' = Returned(Entered(scheduler))
  /\ UNCHANGED <<continuations, storeVars, bounds>>

ApplyContinue ==
  /\ ~Idle
  /\ Head(effects).kind = "continue"
  /\ continuations' = continuations \cup {Head(effects).epoch}
  /\ scheduler' = Returned(Entered(scheduler))
  /\ UNCHANGED <<records, storeVars, bounds>>

ApplyRows ==
  /\ ~Idle
  /\ Head(effects).kind = "rows"
  /\ LET rows == NewRows(Head(effects).generation, scheduler.retiring)
         done == SetCurrentNumber(rows, Head(effects).current)
     IN scheduler' = IF opportunity THEN Readmit(done) ELSE done
  /\ opportunity' = FALSE
  /\ UNCHANGED <<records, continuations, ready, losses, bounds>>

KeepsImage(e) == e.tier = "background" /\ e.row \in ready

InstallImage(evicted) ==  \* it may evict the image of another row, and releases the row's own
  /\ ready' = (ready \cup {Head(effects).row}) \ evicted
  /\ losses' = (losses \ {Head(effects).row}) \cup evicted
  /\ pressure' = pressure + Cardinality(evicted)
  /\ opportunity' = (opportunity \/ Head(effects).row \in ready)
  /\ scheduler' = Returned(Entered(scheduler))

ApplyAccept ==  \* publishCompletion
  LET e == Head(effects) IN
  /\ ~Idle
  /\ e.kind = "accept"
  /\ \/ /\ e.result = "failed" \/ KeepsImage(e)
        /\ scheduler' = Returned(Entered(scheduler))
        /\ UNCHANGED <<storeVars, pressure>>
     \/ /\ e.result = "ready" /\ ~KeepsImage(e)
        /\ \E evicted \in {S \in SUBSET (ready \ {e.row}) :
                              Cardinality(S) <= 1 /\ pressure + Cardinality(S) <= MaxPressure} :
             InstallImage(evicted)
     \/ /\ e.result = "ready" /\ ~KeepsImage(e)
        /\ Refusals # {} /\ pressure < MaxPressure
        /\ pressure' = pressure + 1
        /\ scheduler' = Returned(LoseResidency(Entered(scheduler), {e.row}))
        /\ UNCHANGED storeVars
  /\ UNCHANGED <<records, continuations, calls>>

ApplyEffect ==
  \/ \E withdrawn \in BOOLEAN : ApplyCancel(withdrawn)
  \/ ApplyStart \/ ApplyContinue \/ ApplyRows \/ ApplyAccept

-----------------------------------------------------------------------------
(* The jobs, the event queue and the image store. *)

Results(rec) == IF rec.phase = "lookup" THEN {"ready", "missing", "failed"} ELSE {"ready", "failed"}

JobReports(rec, result) ==  \* finishLookup, finishGeneration; a canceled job's result is dropped
  /\ Idle
  /\ rec \in records
  /\ ~rec.canceled
  /\ rec.staged = "none"
  /\ LET staged == [rec EXCEPT !.staged = result] IN
     \E after \in {IF rec.retired THEN RetirePhase(staged, scheduler)
                                  ELSE <<records \cup {staged}, scheduler>>} :
       records' = after[1] \ {rec} /\ scheduler' = after[2]
  /\ UNCHANGED <<continuations, storeVars, bounds>>

JobRetires(rec) ==
  /\ Idle
  /\ rec \in records
  /\ ~rec.retired
  /\ \E after \in {RetirePhase(rec, scheduler)} :
       records' = after[1] /\ scheduler' = after[2]
  /\ UNCHANGED <<continuations, storeVars, bounds>>

Continue(epoch) ==
  /\ Idle
  /\ epoch \in continuations
  /\ continuations' = continuations \ {epoch}
  /\ scheduler' = ContinueAdmission(scheduler, epoch)
  /\ UNCHANGED <<records, storeVars, bounds>>

CapacityFrees ==  \* images were released, or are retained at a lower priority
  /\ Idle
  /\ ~opportunity
  /\ pressure < MaxPressure
  /\ pressure' = pressure + 1
  /\ opportunity' = TRUE
  /\ UNCHANGED <<scheduler, records, continuations, ready, losses, calls>>

-----------------------------------------------------------------------------
SessionCall ==
  \/ \E r \in Rows \cup {0} : SelectRow(r) \/ ReplaceRows(r)
  \/ \E demands \in [Rows -> Wanted \cup {None}] : ReportDemand(demands)
  \/ \E r \in Rows : RefreshSource(r)

JobStep == \E rec \in records :
  JobRetires(rec) \/ \E result \in Results(rec) : JobReports(rec, result)

QueuedCall == Reconcile \/ \E epoch \in continuations : Continue(epoch)

Next == SessionCall \/ ApplyEffect \/ JobStep \/ QueuedCall \/ CapacityFrees

Spec == Init /\ [][Next]_vars

(* Effects are applied, every job reports and retires, and queued calls are  *)
(* served: weak fairness of three actions.  In Fairness what enables each of *)
(* them is spelled out, because TLC evaluates ENABLED slowly here;           *)
(* WeakFairness is the same in the usual form where an instance affords it.  *)
JobFairness == []<>(~Idle \/ records = {}) \/ []<><<JobStep>>_vars

Fairness ==
  /\ []<>Idle \/ []<><<ApplyEffect>>_vars
  /\ []<>(~Idle \/ (losses = {} /\ ~opportunity /\ continuations = {})) \/ []<><<QueuedCall>>_vars
  /\ JobFairness

WeakFairness == WF_vars(ApplyEffect) /\ WF_vars(QueuedCall) /\ JobFairness

FairSpec == Spec /\ Fairness

WeakFairSpec == Spec /\ WeakFairness

-----------------------------------------------------------------------------
(* The work admitted, canceled work that still runs included, is bounded,    *)
(* and no source is worked on twice at a time.                               *)
AdmissionBound ==
  /\ Cardinality(records) <= Capacity
  /\ \A a, b \in records : a # b =>
       a.claim.row # b.claim.row \/ a.claim.generation # b.claim.generation

(* Between calls, speculative work never runs beside a row of a higher tier  *)
(* that waits, and a waiting row of the tier in turn does wait for a place   *)
(* or for its own canceled work: no admission is forgotten.                  *)
WaitsForCause(r) ==
  scheduler.work[r] = None =>
    Charge(scheduler) >= Capacity \/ RetiringFor(scheduler, r)
ForegroundFirst == Idle =>
  LET s == scheduler IN
  /\ s.high # {} => s.activeNearby = {} /\ s.activeBackground = None
  /\ s.nearby # {} => s.activeBackground = None
  /\ \A r \in s.high : WaitsForCause(r)
  /\ s.high = {} => \A r \in s.nearby : WaitsForCause(r)

(* Between calls the scheduler's ledger is about work that exists.           *)
LedgerAgrees == Idle =>
  /\ {scheduler.work[r].id : r \in {x \in Rows : scheduler.work[x] # None}}
       = {rec.claim.id : rec \in {x \in records : ~x.canceled}}
  /\ {c.id : c \in scheduler.retiring} = {rec.claim.id : rec \in {x \in records : x.canceled}}

(* When the calls cease, every demand for a supported row is met, or blocked *)
(* until the image store has room.                                           *)
Served ==
  \A r \in Supported :
    scheduler.demand[r] # None => DemandComplete(scheduler, r) \/ r \in scheduler.blocked
DemandIsServed == <>[]Served

(* The same, as long as the ledger never names work that does not exist.     *)
DemandIsServedByLedger == []LedgerAgrees => DemandIsServed
=============================================================================
