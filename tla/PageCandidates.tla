--------------------------- MODULE PageCandidates ---------------------------
(***************************************************************************)
(* The listing of one local directory that all navigations share           *)
(* (app/src/navigation): ImageDocumentPageCandidateStore with its entry,   *)
(* the CandidateWatchController that lists the directory again after every *)
(* notification, and the refreshes of DocumentSessionDirectMediaNavigation *)
(* Runtime that subscribe to the entry and load it.  Everything runs on    *)
(* one thread; deliveries call out, and what they call may refresh, stop   *)
(* or destroy the store.                                                   *)
(***************************************************************************)
EXTENDS Naturals

CONSTANTS
  Clients,     \* the navigations
  Contents,    \* what the directory may hold
  Empty,       \* a directory without media
  MaxChanges,  \* bound: changes of the directory
  MaxEntries   \* bound: entries the store creates

ASSUME EmptyAssumption == Empty \in Contents
ASSUME BoundsAssumption == MaxChanges \in Nat /\ MaxEntries \in Nat

Nothing == "nothing"
Failure == "failure"
ASSUME SnapshotAssumption == {Nothing, Failure} \cap Contents = {}

VARIABLES
  alive,        \* the store exists
  dir,          \* what the directory holds
  changes,      \* how often it changed
  unseen,       \* a notification of the watched directory is on its way
  created,      \* m_nextEntryIdentity
  entry,        \* the directory's entry: identity (0: none), failed, listed, candidates
  watch,        \* its watch controller: phase, refresh requested, snapshot, first attempt handled
  loads,        \* m_pendingLoads of the entry
  subscribers,  \* m_subscribers of the entry
  erases,       \* identities whose idle erasure is queued; equal posts are one
  plan,         \* the notification plan being applied
  shown,        \* what each navigation was told last (RefreshStreamState)
  changed       \* the navigations that were told of a change since their refresh

directory == <<dir, changes>>
clients == <<loads, subscribers, shown, changed>>
vars == <<alive, directory, unseen, created, entry, watch, clients, erases, plan>>

Snapshots == Contents \cup {Failure}
NoEntry == [id |-> 0, failed |-> FALSE, listed |-> FALSE, candidates |-> Empty]
NoWatch == [phase |-> "off", requested |-> FALSE, snapshot |-> Failure, handled |-> FALSE]
NoPlan == [at |-> "none", loads |-> {}, subscribers |-> {}, tells |-> Failure]

TypeOK ==
  /\ alive \in BOOLEAN /\ unseen \in BOOLEAN
  /\ dir \in Contents /\ changes \in 0..MaxChanges /\ created \in 0..MaxEntries
  /\ entry \in [id : 0..created, failed : BOOLEAN, listed : BOOLEAN, candidates : Contents]
  /\ watch \in [phase : {"off", "idle", "scheduled", "listing", "listed", "answering"},
                requested : BOOLEAN, snapshot : Snapshots, handled : BOOLEAN]
  /\ loads \subseteq Clients /\ subscribers \subseteq Clients /\ changed \subseteq Clients
  /\ erases \subseteq 1..created
  /\ plan \in [at : {"none", "made", "applying"}, loads : SUBSET Clients,
               subscribers : SUBSET Clients, tells : Snapshots]
  /\ shown \in [Clients -> Snapshots \cup {Nothing}]

Init ==
  /\ alive = TRUE /\ dir \in Contents /\ changes = 0 /\ unseen = FALSE /\ created = 0
  /\ entry = NoEntry /\ watch = NoWatch /\ plan = NoPlan
  /\ loads = {} /\ subscribers = {} /\ erases = {} /\ changed = {}
  /\ shown = [c \in Clients |-> Nothing]

-----------------------------------------------------------------------------
(* The navigations.  They call from the event loop or from a delivery.     *)

EventLoop == plan = NoPlan
CanCall == alive /\ plan.at # "made"

ReportIdle(active, id) == IF active = {} THEN erases \cup {id} ELSE erases

WithoutClient(c) == [plan EXCEPT !.loads = @ \ {c}, !.subscribers = @ \ {c}]

StartWatching ==  \* entryForLocalDirectory: a new entry and its controller's start()
  /\ created < MaxEntries
  /\ created' = created + 1
  /\ entry' = [NoEntry EXCEPT !.id = created + 1]
  /\ watch' = [NoWatch EXCEPT !.phase = "scheduled", !.requested = TRUE]
  /\ unseen' = FALSE

\* refresh(): the earlier subscription and load are cancelled, and the entry, an existing or a
\* new one, is subscribed to (unless only a load is asked for) and loaded.
RefreshFrom(c, e, watching) ==
  /\ subscribers' = (subscribers \ {c}) \cup (IF watching THEN {c} ELSE {})
  /\ loads' = (loads \ {c}) \cup (IF e.failed \/ e.listed THEN {} ELSE {c})
  /\ shown' = [shown EXCEPT ![c] = IF e.failed THEN Failure
                                   ELSE IF e.listed THEN e.candidates ELSE Nothing]
  /\ changed' = IF e.failed /\ watching THEN changed \cup {c} ELSE changed \ {c}
  /\ plan' = WithoutClient(c)

Refresh(c, watching) ==
  /\ CanCall /\ entry # NoEntry
  /\ RefreshFrom(c, entry, watching)
  /\ erases' = IF c \in subscribers \cup loads
               THEN IF watching THEN ReportIdle((subscribers \ {c}) \cup loads, entry.id)
                                ELSE ReportIdle((subscribers \cup loads) \ {c}, entry.id)
               ELSE erases
  /\ UNCHANGED <<alive, directory, unseen, created, entry, watch>>

RefreshNew(c, watching) ==
  /\ CanCall /\ entry = NoEntry
  /\ StartWatching
  /\ RefreshFrom(c, entry', watching)
  /\ UNCHANGED <<alive, directory, erases>>

Stop(c) ==  \* cancel() of the navigation
  /\ CanCall
  /\ c \in subscribers \cup loads \cup plan.loads
  /\ subscribers' = subscribers \ {c}
  /\ loads' = loads \ {c}
  /\ plan' = WithoutClient(c)
  /\ erases' = IF entry # NoEntry THEN ReportIdle((subscribers \cup loads) \ {c}, entry.id)
                                  ELSE erases
  /\ shown' = [shown EXCEPT ![c] = Nothing]
  /\ changed' = changed \ {c}
  /\ UNCHANGED <<alive, directory, unseen, created, entry, watch>>

DestroyStore ==
  /\ CanCall
  /\ alive' = FALSE
  /\ entry' = NoEntry /\ watch' = NoWatch /\ plan' = NoPlan
  /\ loads' = {} /\ subscribers' = {} /\ erases' = {} /\ unseen' = FALSE
  /\ UNCHANGED <<directory, created, shown, changed>>

EraseWithoutAsking == TRUE  \* a mutation: the clients that came meanwhile are not looked at

HasNoActiveClients == subscribers \cup loads = {}

EraseIdle(i) ==  \* the queued call of scheduleIdleErase
  /\ EventLoop /\ i \in erases
  /\ erases' = erases \ {i}
  /\ IF entry.id = i /\ HasNoActiveClients
     THEN entry' = NoEntry /\ watch' = NoWatch /\ unseen' = FALSE
     ELSE UNCHANGED <<entry, watch, unseen>>
  /\ UNCHANGED <<alive, directory, created, clients, plan>>

-----------------------------------------------------------------------------
(* The directory and the watch controller.                                 *)

ChangeDirectory ==
  /\ changes < MaxChanges
  /\ changes' = changes + 1
  /\ \E d \in Contents \ {dir} : dir' = d
  /\ unseen' = (watch.phase # "off")
  /\ UNCHANGED <<alive, created, entry, watch, clients, erases, plan>>

RequestRefresh ==  \* the notification arrives
  /\ EventLoop /\ unseen
  /\ unseen' = FALSE
  /\ watch' = [watch EXCEPT !.requested = TRUE,
                            !.phase = IF @ = "idle" THEN "scheduled" ELSE @]
  /\ UNCHANGED <<alive, directory, created, entry, clients, erases, plan>>

RunRefresh ==  \* the timer; beginRefresh() forgets the request before the listing starts
  /\ EventLoop /\ watch.phase = "scheduled"
  /\ watch' = [watch EXCEPT !.phase = "listing", !.requested = FALSE]
  /\ UNCHANGED <<alive, directory, unseen, created, entry, clients, erases, plan>>

ListDirectory ==  \* the lister reads the directory at some moment, or fails
  /\ watch.phase = "listing"
  /\ \E s \in {dir, Failure} : watch' = [watch EXCEPT !.phase = "listed", !.snapshot = s]
  /\ UNCHANGED <<alive, directory, unseen, created, entry, clients, erases, plan>>

Answer(newEntry, told, takenLoads) ==
  /\ EventLoop /\ watch.phase = "listed"
  /\ watch' = [watch EXCEPT !.phase = "answering", !.handled = TRUE]
  /\ entry' = newEntry
  /\ loads' = loads \ takenLoads
  /\ plan' = [at |-> "made", loads |-> takenLoads, subscribers |-> told,
              tells |-> watch.snapshot]
  /\ erases' = ReportIdle(subscribers \cup loads', entry.id)
  /\ UNCHANGED <<alive, directory, unseen, created, subscribers, shown, changed>>

HandleItems ==  \* completeListing() for the first attempt, updateListing() for the others
  /\ watch.snapshot # Failure
  /\ LET differs == entry.candidates # watch.snapshot
         tells == IF watch.handled THEN ~entry.listed \/ entry.failed \/ differs
                  ELSE entry.failed \/ (entry.listed /\ differs)
     IN  Answer([entry EXCEPT !.listed = TRUE, !.failed = FALSE, !.candidates = watch.snapshot],
                IF tells THEN subscribers ELSE {}, IF watch.handled THEN {} ELSE loads)

HandleFailure ==
  /\ watch.snapshot = Failure
  /\ Answer([entry EXCEPT !.failed = TRUE, !.candidates = Empty], subscribers, loads)

-----------------------------------------------------------------------------
(* Applying the plan: first the loads, then the subscribers that are still *)
(* active, in any order.  A load that was overtaken by a change is dropped *)
(* by the stream of its refresh.                                           *)

Deliver ==
  /\ alive
  /\ \/ \E c \in plan.loads :
          /\ plan' = [plan EXCEPT !.at = "applying", !.loads = @ \ {c}]
          /\ shown' = IF c \in changed THEN shown ELSE [shown EXCEPT ![c] = plan.tells]
          /\ UNCHANGED changed
     \/ \E c \in plan.subscribers :
          /\ plan.loads = {}
          /\ plan' = [plan EXCEPT !.at = "applying", !.subscribers = @ \ {c}]
          /\ shown' = [shown EXCEPT ![c] = plan.tells]
          /\ changed' = changed \cup {c}
  /\ UNCHANGED <<alive, directory, unseen, created, entry, watch, loads, subscribers, erases>>

FinishForgetting == "idle"  \* a mutation: a change during the listing is forgotten

FinishRefresh == IF watch.requested THEN "scheduled" ELSE "idle"

PlanApplied ==
  /\ plan.at # "none" /\ plan.loads = {} /\ plan.subscribers = {}
  /\ plan' = NoPlan
  /\ watch' = [watch EXCEPT !.phase = FinishRefresh]
  /\ UNCHANGED <<alive, directory, unseen, created, entry, clients, erases>>

Watching == RequestRefresh \/ RunRefresh \/ ListDirectory \/ HandleItems \/ HandleFailure

Next ==
  \/ \E c \in Clients : (\E watching \in BOOLEAN : Refresh(c, watching) \/ RefreshNew(c, watching))
                        \/ Stop(c)
  \/ DestroyStore
  \/ ChangeDirectory
  \/ \E i \in 1..MaxEntries : EraseIdle(i)
  \/ Watching \/ Deliver \/ PlanApplied

\* Notifications arrive, timers fire, listings are answered, callbacks return, and queued
\* calls run.
Fairness ==
  /\ WF_vars(RequestRefresh) /\ WF_vars(RunRefresh) /\ WF_vars(ListDirectory)
  /\ WF_vars(HandleItems \/ HandleFailure)
  /\ WF_vars(Deliver) /\ WF_vars(PlanApplied)
  /\ \A i \in 1..MaxEntries : WF_vars(EraseIdle(i))

Spec == Init /\ [][Next]_vars /\ Fairness

-----------------------------------------------------------------------------
(* Properties. *)

\* A load that waits has an entry whose first attempt will still answer it; a subscription has
\* an entry; and an entry nobody uses has its erasure queued, however often the clients came
\* and went before the queued call ran.
ClientsAreServed ==
  /\ loads # {} => entry # NoEntry /\ ~watch.handled
                   /\ watch.phase \in {"scheduled", "listing", "listed"}
  /\ subscribers # {} => entry # NoEntry
  /\ entry # NoEntry /\ subscribers \cup loads = {} => entry.id \in erases

\* When the directory stops changing, every subscribed navigation ends with what it holds, or
\* with the failure of the last listing: no change that fell into a listing is lost, and no
\* late load hides a newer change.
SubscribersConverge ==
  <>[](alive => \A c \in subscribers : shown[c] = IF entry.failed THEN Failure ELSE dir)
=============================================================================
