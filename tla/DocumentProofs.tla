--------------------------- MODULE DocumentProofs ---------------------------
(***************************************************************************)
(* Proofs about the composition MCDocument, which the runs check: about    *)
(* the listing of a directory (PageCandidates) here, with what is proved   *)
(* elsewhere of the other parts, because a step of another part leaves the *)
(* variables of a part alone.  For any number of navigations, contents,    *)
(* changes, loads and deletions.  That the subscribers converge is         *)
(* liveness and stays with TLC.                                            *)
(***************************************************************************)
EXTENDS MCDocument, Sequences, TLAPS

OpeningProofs == INSTANCE ImageOpenProofs WITH loads <- opens, stack <- openStack
DeletionProofs == INSTANCE ImageDeletionProofs WITH alive <- deletionAlive, stack <- deletionStack

-----------------------------------------------------------------------------
(* The listing of a directory. *)

\* The watch controller lives and dies with its entry, and what the entry knows is what the
\* first attempt of its controller has answered.
WatchFollowsEntry ==
  /\ (entry.id = 0) <=> (watch.phase = "off")
  /\ entry.id = 0 => entry = NoEntry
  /\ watch.handled <=> (entry.failed \/ entry.listed)
  /\ watch.phase \in {"idle", "answering"} => watch.handled

\* A plan is applied exactly inside the answer of the controller that made it.
PlanIsAnswer ==
  /\ plan.at = "none" => plan.loads = {} /\ plan.subscribers = {}
  /\ plan.at # "none" <=> watch.phase = "answering"

CandidatesInv == TypeOK /\ WatchFollowsEntry /\ PlanIsAnswer /\ ClientsAreServed

-----------------------------------------------------------------------------
(* What the initial state and the helpers of the actions establish.        *)

LEMMA RestingTypes ==
  /\ \A n \in Nat :
       NoEntry \in [id : 0..n, failed : BOOLEAN, listed : BOOLEAN, candidates : Contents]
  /\ NoWatch \in [phase : {"off", "idle", "scheduled", "listing", "listed", "answering"},
                  requested : BOOLEAN, snapshot : Snapshots, handled : BOOLEAN]
  /\ NoPlan \in [at : {"none", "made", "applying"}, loads : SUBSET Clients,
                 subscribers : SUBSET Clients, tells : Snapshots]
  BY EmptyAssumption DEF NoEntry, NoWatch, NoPlan, Snapshots

LEMMA CandidatesInitHolds == Init => CandidatesInv
<1> SUFFICES ASSUME Init PROVE CandidatesInv
  OBVIOUS
<1>1. TypeOK
  <2>1. 0 \in Nat /\ created = 0 /\ entry = NoEntry
    BY DEF Init
  <2>2. entry \in [id : 0..created, failed : BOOLEAN, listed : BOOLEAN, candidates : Contents]
    BY <2>1, RestingTypes
  <2>3. shown \in [Clients -> Snapshots \cup {Nothing}]
    BY DEF Init
  <2>4. changes \in 0..MaxChanges /\ created \in 0..MaxEntries
    BY BoundsAssumption DEF Init
  <2> QED
    BY <2>2, <2>3, <2>4, RestingTypes DEF Init, TypeOK
<1>2. WatchFollowsEntry /\ PlanIsAnswer /\ ClientsAreServed
  BY DEF Init, WatchFollowsEntry, PlanIsAnswer, ClientsAreServed, NoEntry, NoWatch, NoPlan
<1> QED
  BY <1>1, <1>2 DEF CandidatesInv

\* The plan loses a client and stays what it was otherwise; no plan loses none.
LEMMA WithoutClientKeepsPlan ==
  ASSUME TypeOK, NEW c \in Clients
  PROVE  /\ WithoutClient(c) \in [at : {"none", "made", "applying"}, loads : SUBSET Clients,
                                  subscribers : SUBSET Clients, tells : Snapshots]
         /\ WithoutClient(c).at = plan.at
         /\ WithoutClient(c).loads = plan.loads \ {c}
         /\ WithoutClient(c).subscribers = plan.subscribers \ {c}
  BY DEF TypeOK, WithoutClient

LEMMA EntryIsCreated ==
  ASSUME CandidatesInv, entry # NoEntry
  PROVE  entry.id \in 1..created /\ entry.candidates \in Contents
<1>1. entry.id \in 0..created /\ entry.candidates \in Contents /\ created \in Nat
  BY BoundsAssumption DEF CandidatesInv, TypeOK
<1>2. entry.id # 0
  BY DEF CandidatesInv, WatchFollowsEntry
<1> QED
  BY <1>1, <1>2

\* A refresh from an entry keeps the clients and what they were shown typed.
LEMMA RefreshKeepsTypes ==
  ASSUME TypeOK, NEW c \in Clients, NEW watching \in BOOLEAN, NEW e,
         e.candidates \in Contents, RefreshFrom(c, e, watching)
  PROVE  /\ loads' \subseteq Clients /\ subscribers' \subseteq Clients
         /\ changed' \subseteq Clients
         /\ shown' \in [Clients -> Snapshots \cup {Nothing}]
         /\ plan' = WithoutClient(c)
  BY DEF TypeOK, RefreshFrom, Snapshots

-----------------------------------------------------------------------------
(* The navigations. *)

LEMMA RefreshPreserves ==
  ASSUME CandidatesInv, NEW c \in Clients, NEW watching \in BOOLEAN, Refresh(c, watching)
  PROVE  CandidatesInv'
<1> USE DEF CandidatesInv
<1>1. RefreshFrom(c, entry, watching) /\ entry # NoEntry
      /\ UNCHANGED <<alive, dir, changes, unseen, created, entry, watch>>
  BY DEF Refresh, directory
<1>2. entry.candidates \in Contents /\ entry.id \in 1..created
  BY <1>1, EntryIsCreated
<1>3. TypeOK'
  <2>1. erases' \subseteq 1..created
    BY <1>2 DEF Refresh, ReportIdle, TypeOK
  <2> QED
    BY <1>1, <1>2, <2>1, RefreshKeepsTypes, WithoutClientKeepsPlan DEF TypeOK, Snapshots
<1>4. WatchFollowsEntry'
  BY <1>1 DEF WatchFollowsEntry
<1>5. PlanIsAnswer'
  BY <1>1, WithoutClientKeepsPlan DEF PlanIsAnswer, RefreshFrom
<1>6. ClientsAreServed'
  <2>1. loads' # {} => ~watch'.handled /\ watch'.phase \in {"scheduled", "listing", "listed"}
    BY <1>1 DEF RefreshFrom, ClientsAreServed, WatchFollowsEntry, TypeOK
  <2>2. subscribers' \cup loads' = {} => entry.id \in erases'
    BY <1>1 DEF Refresh, RefreshFrom, ReportIdle, ClientsAreServed
  <2> QED
    BY <1>1, <2>1, <2>2 DEF ClientsAreServed
<1> QED
  BY <1>3, <1>4, <1>5, <1>6

LEMMA RefreshNewPreserves ==
  ASSUME CandidatesInv, NEW c \in Clients, NEW watching \in BOOLEAN, RefreshNew(c, watching)
  PROVE  CandidatesInv'
<1> USE DEF CandidatesInv
<1>1. /\ RefreshFrom(c, entry', watching)
      /\ entry' = [NoEntry EXCEPT !.id = created + 1]
      /\ watch' = [NoWatch EXCEPT !.phase = "scheduled", !.requested = TRUE]
      /\ created' = created + 1 /\ created' \in 1..MaxEntries /\ unseen' = FALSE
      /\ UNCHANGED <<alive, dir, changes, erases>>
  BY BoundsAssumption DEF RefreshNew, StartWatching, directory, TypeOK
<1>2. /\ entry'.id = created' /\ entry'.candidates = Empty
      /\ ~entry'.failed /\ ~entry'.listed /\ ~watch'.handled /\ watch'.phase = "scheduled"
  BY <1>1 DEF NoEntry, NoWatch
<1>3. watch.phase = "off" /\ plan.at = "none"
  BY DEF RefreshNew, NoEntry, WatchFollowsEntry, PlanIsAnswer
<1>4. TypeOK'
  <2>1. entry' \in [id : 0..created', failed : BOOLEAN, listed : BOOLEAN, candidates : Contents]
    <3>1. entry' = [id |-> created', failed |-> FALSE, listed |-> FALSE, candidates |-> Empty]
      BY <1>1 DEF NoEntry
    <3>2. created' \in 0..created'
      BY <1>1, BoundsAssumption
    <3> QED
      BY <3>1, <3>2, EmptyAssumption
  <2>2. /\ loads' \subseteq Clients /\ subscribers' \subseteq Clients
        /\ changed' \subseteq Clients
        /\ shown' \in [Clients -> Snapshots \cup {Nothing}]
        /\ plan' = WithoutClient(c)
    BY <1>1, <1>2, EmptyAssumption, RefreshKeepsTypes
  <2>3. erases' \subseteq 1..created'
    BY <1>1 DEF TypeOK
  <2>4. watch' \in [phase : {"off", "idle", "scheduled", "listing", "listed", "answering"},
                    requested : BOOLEAN, snapshot : Snapshots, handled : BOOLEAN]
    BY <1>1 DEF NoWatch, Snapshots
  <2>5. created' \in 0..MaxEntries /\ changes' \in 0..MaxChanges
    BY <1>1, BoundsAssumption DEF TypeOK
  <2>6. plan' \in [at : {"none", "made", "applying"}, loads : SUBSET Clients,
                   subscribers : SUBSET Clients, tells : Snapshots]
    BY <2>2, WithoutClientKeepsPlan
  <2>7. alive' \in BOOLEAN /\ unseen' \in BOOLEAN /\ dir' \in Contents
    BY <1>1 DEF TypeOK
  <2> QED
    BY <2>1, <2>2, <2>3, <2>4, <2>5, <2>6, <2>7 DEF TypeOK
<1>5. WatchFollowsEntry'
  BY <1>1, <1>2 DEF WatchFollowsEntry
<1>6. PlanIsAnswer'
  BY <1>1, <1>2, <1>3, WithoutClientKeepsPlan DEF PlanIsAnswer, RefreshFrom, NoPlan
<1>7. ClientsAreServed'
  BY <1>1, <1>2 DEF RefreshFrom, ClientsAreServed, NoEntry
<1> QED
  BY <1>4, <1>5, <1>6, <1>7

LEMMA StopPreserves ==
  ASSUME CandidatesInv, NEW c \in Clients, Stop(c)
  PROVE  CandidatesInv'
<1> USE DEF CandidatesInv
<1>1. /\ UNCHANGED <<alive, dir, changes, unseen, created, entry, watch>>
      /\ plan' = WithoutClient(c)
      /\ subscribers' = subscribers \ {c} /\ loads' = loads \ {c}
      /\ erases' = IF entry # NoEntry THEN ReportIdle((subscribers \cup loads) \ {c}, entry.id)
                                      ELSE erases
  BY DEF Stop, directory
<1>2. TypeOK'
  <2>1. erases' \subseteq 1..created
    BY <1>1, EntryIsCreated DEF ReportIdle, TypeOK
  <2> QED
    <3>1. shown' \in [Clients -> Snapshots \cup {Nothing}] /\ changed' \subseteq Clients
      BY DEF Stop, TypeOK
    <3>2. plan' \in [at : {"none", "made", "applying"}, loads : SUBSET Clients,
                     subscribers : SUBSET Clients, tells : Snapshots]
      BY <1>1, WithoutClientKeepsPlan
    <3> QED
      BY <1>1, <2>1, <3>1, <3>2 DEF TypeOK
<1>3. WatchFollowsEntry' /\ PlanIsAnswer'
  BY <1>1, WithoutClientKeepsPlan DEF WatchFollowsEntry, PlanIsAnswer
<1>4. ClientsAreServed'
  BY <1>1 DEF ClientsAreServed, ReportIdle
<1> QED
  BY <1>2, <1>3, <1>4

LEMMA DestroyPreserves ==
  ASSUME CandidatesInv, DestroyStore
  PROVE  CandidatesInv'
<1>1. /\ entry' = NoEntry /\ watch' = NoWatch /\ plan' = NoPlan
      /\ loads' = {} /\ subscribers' = {} /\ erases' = {}
      /\ alive' = FALSE /\ unseen' = FALSE
      /\ UNCHANGED <<dir, changes, created, shown, changed>>
  BY DEF DestroyStore, directory
<1>2. entry' \in [id : 0..created', failed : BOOLEAN, listed : BOOLEAN, candidates : Contents]
  BY <1>1, BoundsAssumption, RestingTypes DEF CandidatesInv, TypeOK
<1>3. TypeOK'
  BY <1>1, <1>2, RestingTypes DEF CandidatesInv, TypeOK
<1>4. WatchFollowsEntry' /\ PlanIsAnswer' /\ ClientsAreServed'
  BY <1>1 DEF WatchFollowsEntry, PlanIsAnswer, ClientsAreServed, NoEntry, NoWatch, NoPlan
<1> QED
  BY <1>3, <1>4 DEF CandidatesInv

LEMMA EraseIdlePreserves ==
  ASSUME CandidatesInv, NEW i \in 1..MaxEntries, EraseIdle(i)
  PROVE  CandidatesInv'
<1> USE DEF CandidatesInv
<1>1. /\ plan = NoPlan /\ erases' = erases \ {i}
      /\ UNCHANGED <<alive, dir, changes, created, loads, subscribers, shown, changed, plan>>
  BY DEF EraseIdle, EventLoop, directory, clients
<1>2. watch.phase # "answering"
  BY <1>1 DEF PlanIsAnswer, NoPlan
<1>3. CASE entry.id = i /\ HasNoActiveClients
  <2>1. entry' = NoEntry /\ watch' = NoWatch /\ unseen' = FALSE
        /\ subscribers \cup loads = {}
    BY <1>3 DEF EraseIdle, HasNoActiveClients
  <2>2. TypeOK'
    <3>1. entry' \in [id : 0..created', failed : BOOLEAN, listed : BOOLEAN,
                      candidates : Contents]
      BY <1>1, <2>1, BoundsAssumption, RestingTypes DEF TypeOK
    <3> QED
      BY <1>1, <2>1, <3>1, RestingTypes DEF TypeOK
  <2>3. WatchFollowsEntry' /\ PlanIsAnswer' /\ ClientsAreServed'
    BY <1>1, <2>1
       DEF WatchFollowsEntry, PlanIsAnswer, ClientsAreServed, NoEntry, NoWatch, NoPlan
  <2> QED
    BY <2>2, <2>3
<1>4. CASE ~(entry.id = i /\ HasNoActiveClients)
  <2>1. UNCHANGED <<entry, watch, unseen>>
    BY <1>4 DEF EraseIdle
  <2>2. TypeOK' /\ WatchFollowsEntry' /\ PlanIsAnswer'
    BY <1>1, <2>1 DEF TypeOK, WatchFollowsEntry, PlanIsAnswer
  <2>3. ClientsAreServed'
    BY <1>1, <1>4, <2>1 DEF ClientsAreServed, HasNoActiveClients
  <2> QED
    BY <2>2, <2>3
<1> QED
  BY <1>3, <1>4

-----------------------------------------------------------------------------
(* The directory, its controller and the deliveries. *)

LEMMA ChangeDirectoryPreserves ==
  ASSUME CandidatesInv, ChangeDirectory
  PROVE  CandidatesInv'
  BY BoundsAssumption
     DEF ChangeDirectory, CandidatesInv, TypeOK, WatchFollowsEntry, PlanIsAnswer,
       ClientsAreServed, clients

LEMMA WatchingPreserves ==
  ASSUME CandidatesInv, RequestRefresh \/ RunRefresh \/ ListDirectory
  PROVE  CandidatesInv'
<1> USE DEF CandidatesInv
<1>1. /\ UNCHANGED <<alive, dir, changes, created, entry, loads, subscribers, shown, changed,
                     erases, plan>>
      /\ unseen' \in BOOLEAN
      /\ watch' \in [phase : {"off", "idle", "scheduled", "listing", "listed", "answering"},
                      requested : BOOLEAN, snapshot : Snapshots, handled : BOOLEAN]
      /\ watch'.handled = watch.handled
      /\ (watch'.phase = "off") <=> (watch.phase = "off")
      /\ (watch'.phase = "answering") <=> (watch.phase = "answering")
      /\ watch.phase = "idle" => watch'.phase \in {"idle", "scheduled"}
      /\ watch'.phase = "idle" => watch.phase = "idle"
      /\ watch.phase \in {"scheduled", "listing", "listed"}
           => watch'.phase \in {"scheduled", "listing", "listed"}
  BY DEF RequestRefresh, RunRefresh, ListDirectory, directory, clients, TypeOK, Snapshots
<1>2. TypeOK'
  BY <1>1 DEF TypeOK
<1>3. WatchFollowsEntry' /\ PlanIsAnswer'
  BY <1>1 DEF WatchFollowsEntry, PlanIsAnswer
<1>4. ClientsAreServed'
  BY <1>1 DEF ClientsAreServed
<1> QED
  BY <1>2, <1>3, <1>4

\* An answer takes all loads that wait, or there were none, and makes the entry known.
LEMMA AnswerPreserves ==
  ASSUME CandidatesInv, HandleItems \/ HandleFailure
  PROVE  CandidatesInv'
<1> USE DEF CandidatesInv
<1>1. PICK e, told, taken :
        /\ Answer(e, told, taken)
        /\ told \in SUBSET subscribers /\ taken \in SUBSET loads
        /\ ~watch.handled => taken = loads
        /\ e \in [id : 0..created, failed : BOOLEAN, listed : BOOLEAN, candidates : Contents]
        /\ e.id = entry.id /\ (e.failed \/ e.listed)
  <2>1. CASE HandleItems
    <3>1. PICK told \in {subscribers, {}}, taken \in {loads, {}} :
            /\ watch.snapshot # Failure /\ (~watch.handled => taken = loads)
            /\ Answer([entry EXCEPT !.listed = TRUE, !.failed = FALSE,
                                    !.candidates = watch.snapshot], told, taken)
      BY <2>1 DEF HandleItems
    <3>2. watch.snapshot \in Contents
      BY <3>1 DEF TypeOK, Snapshots
    <3>3. [entry EXCEPT !.listed = TRUE, !.failed = FALSE, !.candidates = watch.snapshot]
            \in [id : 0..created, failed : BOOLEAN, listed : BOOLEAN, candidates : Contents]
      BY <3>2 DEF TypeOK
    <3> QED
      BY <3>1, <3>3 DEF TypeOK
  <2>2. CASE HandleFailure
    <3>1. Answer([entry EXCEPT !.failed = TRUE, !.candidates = Empty], subscribers, loads)
      BY <2>2 DEF HandleFailure
    <3>2. [entry EXCEPT !.failed = TRUE, !.candidates = Empty]
            \in [id : 0..created, failed : BOOLEAN, listed : BOOLEAN, candidates : Contents]
      BY EmptyAssumption DEF TypeOK
    <3> QED
      BY <3>1, <3>2 DEF TypeOK
  <2> QED
    BY <2>1, <2>2
<1>2. /\ watch.phase = "listed"
      /\ watch' = [watch EXCEPT !.phase = "answering", !.handled = TRUE]
      /\ entry' = e /\ loads' = loads \ taken /\ subscribers' = subscribers
      /\ plan' = [at |-> "made", loads |-> taken, subscribers |-> told,
                  tells |-> watch.snapshot]
      /\ erases' = ReportIdle(subscribers \cup loads', entry.id)
      /\ UNCHANGED <<alive, dir, changes, unseen, created, shown, changed>>
  BY <1>1 DEF Answer, directory
<1>3. entry.id \in 1..created /\ loads' = {}
  BY <1>1, <1>2, BoundsAssumption DEF TypeOK, WatchFollowsEntry, ClientsAreServed
<1>4. TypeOK'
  <2>1. erases' \subseteq 1..created
    BY <1>2, <1>3 DEF ReportIdle, TypeOK
  <2>2. watch' \in [phase : {"off", "idle", "scheduled", "listing", "listed", "answering"},
                    requested : BOOLEAN, snapshot : Snapshots, handled : BOOLEAN]
    BY <1>2 DEF TypeOK
  <2>3. plan' \in [at : {"none", "made", "applying"}, loads : SUBSET Clients,
                   subscribers : SUBSET Clients, tells : Snapshots]
    BY <1>1, <1>2 DEF TypeOK
  <2> QED
    BY <1>1, <1>2, <2>1, <2>2, <2>3 DEF TypeOK
<1>5. WatchFollowsEntry' /\ PlanIsAnswer'
  BY <1>1, <1>2, <1>3 DEF TypeOK, WatchFollowsEntry, PlanIsAnswer
<1>6. ClientsAreServed'
  BY <1>1, <1>2, <1>3 DEF ClientsAreServed, ReportIdle, NoEntry
<1> QED
  BY <1>4, <1>5, <1>6

LEMMA DeliverPreserves ==
  ASSUME CandidatesInv, Deliver
  PROVE  CandidatesInv'
<1> USE DEF CandidatesInv
<1>1. UNCHANGED <<alive, dir, changes, unseen, created, entry, watch, loads, subscribers, erases>>
  BY DEF Deliver, directory
<1>2. PICK c \in Clients :
        /\ \/ plan' = [plan EXCEPT !.at = "applying", !.loads = @ \ {c}] /\ c \in plan.loads
           \/ plan' = [plan EXCEPT !.at = "applying", !.subscribers = @ \ {c}]
              /\ c \in plan.subscribers
        /\ shown' \in {shown, [shown EXCEPT ![c] = plan.tells]}
        /\ changed' \in {changed, changed \cup {c}}
  BY DEF Deliver, TypeOK
<1>3. plan' \in [at : {"none", "made", "applying"}, loads : SUBSET Clients,
                subscribers : SUBSET Clients, tells : Snapshots]
      /\ plan'.at = "applying"
  <2>1. CASE plan' = [plan EXCEPT !.at = "applying", !.loads = @ \ {c}]
    BY <2>1 DEF TypeOK
  <2>2. CASE plan' = [plan EXCEPT !.at = "applying", !.subscribers = @ \ {c}]
    BY <2>2 DEF TypeOK
  <2> QED
    BY <1>2, <2>1, <2>2
<1>4. shown' \in [Clients -> Snapshots \cup {Nothing}] /\ changed' \subseteq Clients
  BY <1>2 DEF TypeOK
<1>5. TypeOK' /\ WatchFollowsEntry' /\ ClientsAreServed'
  BY <1>1, <1>3, <1>4 DEF TypeOK, WatchFollowsEntry, ClientsAreServed
<1>6. PlanIsAnswer'
  BY <1>1, <1>2, <1>3 DEF PlanIsAnswer
<1> QED
  BY <1>5, <1>6

LEMMA PlanAppliedPreserves ==
  ASSUME CandidatesInv, PlanApplied
  PROVE  CandidatesInv'
<1> USE DEF CandidatesInv
<1>1. /\ watch.phase = "answering" /\ plan' = NoPlan
      /\ watch' = [watch EXCEPT !.phase = FinishRefresh]
      /\ FinishRefresh \in {"scheduled", "idle"}
      /\ UNCHANGED <<alive, dir, changes, unseen, created, entry, loads, subscribers, shown,
                     changed, erases>>
  BY DEF PlanApplied, FinishRefresh, PlanIsAnswer, directory, clients
<1>2. watch' \in [phase : {"off", "idle", "scheduled", "listing", "listed", "answering"},
                  requested : BOOLEAN, snapshot : Snapshots, handled : BOOLEAN]
      /\ watch'.phase = FinishRefresh /\ watch'.handled = watch.handled
  BY <1>1 DEF TypeOK
<1>3. TypeOK'
  BY <1>1, <1>2 DEF TypeOK, NoPlan, Snapshots
<1>4. WatchFollowsEntry' /\ PlanIsAnswer' /\ ClientsAreServed'
  BY <1>1, <1>2 DEF WatchFollowsEntry, PlanIsAnswer, ClientsAreServed, NoPlan
<1> QED
  BY <1>3, <1>4

LEMMA CandidatesNextPreserves == CandidatesInv /\ [Next]_vars => CandidatesInv'
<1> SUFFICES ASSUME CandidatesInv, [Next]_vars PROVE CandidatesInv'
  OBVIOUS
<1>1. CASE \E c \in Clients :
             (\E watching \in BOOLEAN : Refresh(c, watching) \/ RefreshNew(c, watching))
             \/ Stop(c)
  BY <1>1, RefreshPreserves, RefreshNewPreserves, StopPreserves
<1>2. CASE DestroyStore
  BY <1>2, DestroyPreserves
<1>3. CASE ChangeDirectory
  BY <1>3, ChangeDirectoryPreserves
<1>4. CASE \E i \in 1..MaxEntries : EraseIdle(i)
  BY <1>4, EraseIdlePreserves
<1>5. CASE Watching
  BY <1>5, WatchingPreserves, AnswerPreserves DEF Watching
<1>6. CASE Deliver
  BY <1>6, DeliverPreserves
<1>7. CASE PlanApplied
  BY <1>7, PlanAppliedPreserves
<1>8. CASE UNCHANGED vars
  BY <1>8 DEF vars, directory, clients, CandidatesInv, TypeOK, WatchFollowsEntry, PlanIsAnswer,
              ClientsAreServed
<1> QED
  BY <1>1, <1>2, <1>3, <1>4, <1>5, <1>6, <1>7, <1>8 DEF Next

\* The strengthened invariant of the listing holds in every reachable state: the controller, the
\* entry and the plan agree, and no client is left without somebody who serves it.
THEOREM CandidatesInductive == Spec => []CandidatesInv
<1>1. Init => CandidatesInv
  BY CandidatesInitHolds
<1>2. CandidatesInv /\ [Next]_vars => CandidatesInv'
  BY CandidatesNextPreserves
<1> QED
  BY <1>1, <1>2, PTL DEF Spec

\* A load that waits will be answered by the first attempt of its entry, a subscription has an
\* entry, and an entry without clients has its erasure queued (scheduleIdleErase).
THEOREM CandidatesServed == Spec => []ClientsAreServed
<1>1. CandidatesInv => ClientsAreServed
  BY DEF CandidatesInv
<1> QED
  BY <1>1, CandidatesInductive, PTL

-----------------------------------------------------------------------------
(* The entries of an opened collection.                                    *)

\* Loads that asked for the collection that is open.
Ours(L) == \A l \in L : outcome[l] # "absent" /\ wanted[l] = scope

\* Nothing is of a later generation than the source, and the active batch is of the
\* source's own: it is still to be completed, and only it keeps loads waiting.
BatchIsCurrent ==
  /\ \A b \in DOMAIN batches : batches[b] <= generation
  /\ \A l \in DOMAIN reads : reads[l] <= generation
  /\ batch # Entries!None => sourceAlive /\ batches[batch] = generation /\ batch \in tasks
  /\ batch = Entries!None => pending = <<>>

\* Whoever a step may answer, because its generation is the current one, is one of ours.
AnswerableAreOurs ==
  /\ Ours(Entries!Elements(pending))
  /\ \A l \in DOMAIN reads : reads[l] = generation => Ours({l})
  /\ \A i \in DOMAIN sourceStack :
       sourceStack[i].at = "answering" /\ batches[sourceStack[i].batch] = generation
         => Ours(Entries!Elements(sourceStack[i].rest))

EntriesInv == Entries!TypeOK /\ BatchIsCurrent /\ AnswerableAreOurs /\ Entries!BatchIsWatched

-----------------------------------------------------------------------------
(* What the helpers of the actions return. *)

LEMMA ElementsOf ==
  ASSUME NEW S, NEW s \in Seq(S)
  PROVE  /\ Entries!Elements(s) \subseteq S
         /\ \A x \in S : Entries!Elements(Append(s, x)) = Entries!Elements(s) \cup {x}
         /\ s # <<>> => /\ Head(s) \in S /\ Tail(s) \in Seq(S)
                        /\ Entries!Elements(s) = {Head(s)} \cup Entries!Elements(Tail(s))
<1>1. Entries!Elements(s) \subseteq S
  BY DEF Entries!Elements
<1>2. ASSUME NEW x \in S PROVE Entries!Elements(Append(s, x)) = Entries!Elements(s) \cup {x}
  <2>1. /\ DOMAIN Append(s, x) = 1..(Len(s) + 1) /\ DOMAIN s = 1..Len(s) /\ Len(s) \in Nat
        /\ \A i \in 1..Len(s) : Append(s, x)[i] = s[i]
        /\ Append(s, x)[Len(s) + 1] = x
    OBVIOUS
  <2> QED
    BY <2>1 DEF Entries!Elements
<1>3. ASSUME s # <<>>
      PROVE  /\ Head(s) \in S /\ Tail(s) \in Seq(S)
             /\ Entries!Elements(s) = {Head(s)} \cup Entries!Elements(Tail(s))
  <2>1. /\ Len(s) \in Nat \ {0} /\ DOMAIN s = 1..Len(s)
        /\ Head(s) = s[1] /\ Tail(s) \in Seq(S)
        /\ DOMAIN Tail(s) = 1..(Len(s) - 1)
        /\ \A i \in 1..(Len(s) - 1) : Tail(s)[i] = s[i + 1]
    BY <1>3
  <2>2. Entries!Elements(s) \subseteq {Head(s)} \cup Entries!Elements(Tail(s))
    <3> SUFFICES ASSUME NEW i \in 1..Len(s), i # 1 PROVE s[i] \in Entries!Elements(Tail(s))
      BY <2>1 DEF Entries!Elements
    <3>1. i - 1 \in 1..(Len(s) - 1) /\ Tail(s)[i - 1] = s[i]
      BY <2>1
    <3> QED
      BY <2>1, <3>1 DEF Entries!Elements
  <2>3. {Head(s)} \cup Entries!Elements(Tail(s)) \subseteq Entries!Elements(s)
    BY <2>1 DEF Entries!Elements
  <2> QED
    BY <2>1, <2>2, <2>3
<1> QED
  BY <1>1, <1>2, <1>3

\* A call is entered on top of those in progress.
LEMMA Pushed ==
  ASSUME NEW S, NEW s \in Seq(S), NEW f \in S
  PROVE  /\ Append(s, f) \in Seq(S)
         /\ DOMAIN Append(s, f) = DOMAIN s \cup {Len(s) + 1}
         /\ \A i \in DOMAIN s : Append(s, f)[i] = s[i]
         /\ Append(s, f)[Len(s) + 1] = f
  OBVIOUS

\* The topmost call returns.
LEMMA Popped ==
  ASSUME Entries!TypeOK, sourceStack # <<>>
  PROVE  /\ Len(sourceStack) \in DOMAIN sourceStack /\ Entries!Top \in Entries!Frames
         /\ Entries!Pop \in Seq(Entries!Frames)
         /\ DOMAIN Entries!Pop = DOMAIN sourceStack \ {Len(sourceStack)}
         /\ \A i \in DOMAIN Entries!Pop : Entries!Pop[i] = sourceStack[i]
  BY DEF Entries!TypeOK, Entries!Top, Entries!Pop

LEMMA Replacing ==
  ASSUME Entries!ConstantsAreSound, Entries!TypeOK, NEW s, Entries!Replaced(s)
  PROVE  generation' \in Entries!Generations /\ generation' = generation + 1 /\ generation \in Nat
  BY DEF Entries!ConstantsAreSound, Entries!TypeOK, Entries!Replaced, Entries!Generations

\* The frames of the past are frames when a batch is started.
LEMMA EntryFramesGrow ==
  ASSUME Entries!TypeOK, NEW g \in Entries!Generations, batches' = Append(batches, g)
  PROVE  /\ batches' \in Seq(Entries!Generations) /\ Len(batches') = Len(batches) + 1
         /\ Len(batches) \in Nat
         /\ DOMAIN batches = 1..Len(batches)
         /\ DOMAIN batches' = 1..(Len(batches) + 1)
         /\ \A b \in DOMAIN batches : batches'[b] = batches[b]
         /\ batches'[Len(batches) + 1] = g
         /\ Entries!Frames \subseteq Entries!Frames'
         /\ sourceStack \in Seq(Entries!Frames')
<1>1. /\ batches' \in Seq(Entries!Generations) /\ Len(batches') = Len(batches) + 1
      /\ Len(batches) \in Nat
      /\ DOMAIN batches = 1..Len(batches)
      /\ DOMAIN batches' = 1..(Len(batches) + 1)
      /\ \A b \in DOMAIN batches : batches'[b] = batches[b]
      /\ batches'[Len(batches) + 1] = g
  BY DEF Entries!TypeOK
<1>2. 1..Len(batches) \subseteq 1..Len(batches')
  BY <1>1
<1>3. Entries!Frames \subseteq Entries!Frames'
  BY <1>2 DEF Entries!Frames
<1>4. sourceStack \in Seq(Entries!Frames')
  BY <1>3 DEF Entries!TypeOK
<1> QED
  BY <1>1, <1>3, <1>4

LEMMA OpenedTypes ==
  ASSUME Entries!TypeOK, NEW g \in Entries!Generations, NEW stop \in BOOLEAN
  PROVE  Entries!Opened(g, stop) \subseteq Entries!RunnerStates
  BY DEF Entries!TypeOK, Entries!Opened, Entries!RunnerStates

LEMMA EntriesInitHolds == Entries!ConstantsAreSound /\ Entries!Init => EntriesInv
<1> SUFFICES ASSUME Entries!ConstantsAreSound, Entries!Init PROVE EntriesInv
  OBVIOUS
<1>1. Entries!TypeOK
  BY DEF Entries!ConstantsAreSound, Entries!Init, Entries!TypeOK, Entries!Generations,
      Entries!RunnerStates, Entries!None
<1>2. BatchIsCurrent /\ AnswerableAreOurs /\ Entries!BatchIsWatched
  BY DEF Entries!Init, BatchIsCurrent, AnswerableAreOurs, Entries!BatchIsWatched, Ours,
      Entries!Elements, Entries!None
<1> QED
  BY <1>1, <1>2 DEF EntriesInv

-----------------------------------------------------------------------------
(* The collection is replaced. *)

\* Whatever was of the old generation is of an earlier one afterwards.
LEMMA ReplacementPreserves ==
  ASSUME Entries!ConstantsAreSound, EntriesInv, NEW s \in Scopes \cup {NoScope},
         Entries!CancelEntryLoadBatch, outcome' = Entries!SettleAll(Entries!CancelPending,
           "dropped"), Entries!Replaced(s),
         sourceAlive' \in BOOLEAN, UNCHANGED <<runner, batches, work, stopSource, wanted, reads,
           sourceStack>>
  PROVE  EntriesInv'
<1>1. Entries!TypeOK /\ BatchIsCurrent /\ AnswerableAreOurs /\ Entries!BatchIsWatched
  BY DEF EntriesInv
<1>2. generation' \in Entries!Generations /\ generation' = generation + 1 /\ generation \in Nat
  BY <1>1, Replacing
<1>3. /\ batch' = Entries!None /\ pending' = <<>> /\ stored' = Entries!None
      /\ stopped' = stopped \cup ({stopSource} \ {Entries!None}) /\ tasks' = tasks \ {stored}
  BY DEF Entries!CancelEntryLoadBatch
<1>4. Len(batches) \in Nat /\ DOMAIN batches = 1..Len(batches)
      /\ \A b \in DOMAIN batches : batches[b] \in Nat
  BY <1>1 DEF Entries!ConstantsAreSound, Entries!TypeOK, Entries!Generations
<1>5. Entries!TypeOK'
  <2>1. Entries!Frames' = Entries!Frames
    BY DEF Entries!Frames
  <2>2. outcome' \in [Loads -> {"absent", "pending", "delivered", "dropped"}]
    BY <1>1 DEF Entries!SettleAll, Entries!TypeOK
  <2>3. {batch', stored', stopSource'} \subseteq 0..Len(batches')
    BY <1>1, <1>3, <1>4 DEF Entries!TypeOK, Entries!None
  <2>4. tasks' \cup stopped' \subseteq 1..Len(batches')
    BY <1>1, <1>3, <1>4 DEF Entries!TypeOK, Entries!None
  <2>5. scope' \in Scopes \cup {NoScope} /\ pending' \in Seq(Loads)
    BY <1>3 DEF Entries!Replaced
  <2> QED
    BY <1>1, <1>2, <2>1, <2>2, <2>3, <2>4, <2>5 DEF Entries!TypeOK
<1>6. BatchIsCurrent'
  <2>1. \A b \in DOMAIN batches' : batches'[b] <= generation'
    BY <1>1, <1>2, <1>4 DEF BatchIsCurrent
  <2>2. \A l \in DOMAIN reads' : reads'[l] <= generation'
    BY <1>1, <1>2 DEF BatchIsCurrent, Entries!TypeOK, Entries!Generations
  <2> QED
    BY <2>1, <2>2, <1>3 DEF BatchIsCurrent
<1>7. AnswerableAreOurs'
  <2>1. Ours(Entries!Elements(pending))'
    BY <1>3 DEF Ours, Entries!Elements
  <2>2. \A l \in DOMAIN reads' : reads'[l] # generation'
    BY <1>1, <1>2 DEF BatchIsCurrent, Entries!TypeOK, Entries!Generations
  <2>3. \A i \in DOMAIN sourceStack' : batches'[sourceStack'[i].batch] # generation'
    <3> SUFFICES ASSUME NEW i \in DOMAIN sourceStack
          PROVE batches[sourceStack[i].batch] # generation'
      OBVIOUS
    <3>1. sourceStack[i].batch \in DOMAIN batches
      BY <1>1, <1>4 DEF Entries!TypeOK, Entries!Frames
    <3> QED
      BY <3>1, <1>1, <1>2, <1>4 DEF BatchIsCurrent
  <2> QED
    BY <2>1, <2>2, <2>3 DEF AnswerableAreOurs
<1>8. Entries!BatchIsWatched'
  <2>1. \A l \in Loads : outcome'[l] = "pending" =>
          outcome[l] = "pending" /\ l \notin Entries!Elements(pending)
    BY DEF Entries!SettleAll, Entries!CancelPending
  <2>2. \A b \in stopped' : batches'[b] # generation'
    BY <1>1, <1>2, <1>3, <1>4 DEF Entries!TypeOK, BatchIsCurrent, Entries!None
  <2>3. \A l \in Loads : outcome'[l] = "pending" =>
          \/ l \in DOMAIN reads'
          \/ \E i \in DOMAIN sourceStack' : sourceStack'[i].at = "answering" /\
               l \in Entries!Elements(sourceStack'[i].rest)
    BY <1>1, <2>1 DEF Entries!BatchIsWatched
  <2> QED
    BY <1>3, <2>2, <2>3 DEF Entries!BatchIsWatched
<1> QED
  BY <1>5, <1>6, <1>7, <1>8 DEF EntriesInv

LEMMA ClearPreserves == ASSUME Entries!ConstantsAreSound, EntriesInv, Entries!Clear
  PROVE EntriesInv'
<1>1. sourceAlive' \in BOOLEAN
  BY DEF Entries!Clear, EntriesInv, Entries!TypeOK
<1> QED
  BY <1>1, ReplacementPreserves DEF Entries!Clear

LEMMA EntriesDestroyPreserves == ASSUME Entries!ConstantsAreSound, EntriesInv, Entries!Destroy
  PROVE EntriesInv'
  BY ReplacementPreserves DEF Entries!Destroy

LEMMA SwitchPreserves ==
  ASSUME Entries!ConstantsAreSound, EntriesInv, NEW s \in Scopes,
    Entries!SwitchToOpenedCollectionScope(s)
  PROVE  EntriesInv'
<1>1. sourceAlive' \in BOOLEAN
  BY DEF Entries!SwitchToOpenedCollectionScope, EntriesInv, Entries!TypeOK
<1> QED
  BY <1>1, ReplacementPreserves DEF Entries!SwitchToOpenedCollectionScope

-----------------------------------------------------------------------------
(* The owner loads. *)

\* A load that nobody waited for concerns nobody who is answered.
LEMMA AskedAnew ==
  ASSUME EntriesInv, NEW l \in Loads, NEW s, Entries!Ask(l, s)
  PROVE  /\ sourceAlive /\ wanted' = [wanted EXCEPT ![l] = s]
         /\ outcome[l] = "absent"
         /\ \A L : Ours(L) => l \notin L
  BY DEF Entries!Ask, Ours

LEMMA JoinBatchPreserves == ASSUME EntriesInv, NEW l \in Loads, Entries!JoinBatch(l)
  PROVE EntriesInv'
<1>1. Entries!TypeOK /\ BatchIsCurrent /\ AnswerableAreOurs /\ Entries!BatchIsWatched
  BY DEF EntriesInv
<1>2. /\ wanted' = [wanted EXCEPT ![l] = scope] /\ outcome[l] = "absent"
      /\ \A L : Ours(L) => l \notin L
  BY AskedAnew DEF Entries!JoinBatch
<1>3. /\ batch # Entries!None /\ pending' = Append(pending, l)
      /\ outcome' = [outcome EXCEPT ![l] = "pending"]
      /\ UNCHANGED <<sourceAlive, Entries!sourceState, batch, batches, Entries!workerState, reads,
           sourceStack>>
  BY DEF Entries!JoinBatch
<1>4. UNCHANGED <<scope, generation, runner, work, tasks, stored, stopSource, stopped>>
  BY <1>3 DEF Entries!sourceState, Entries!workerState
<1>5. Entries!Elements(pending') = Entries!Elements(pending) \cup {l} /\ pending' \in Seq(Loads)
  BY <1>1, <1>3, ElementsOf DEF Entries!TypeOK
<1>6. Entries!TypeOK'
  <2>1. Entries!Frames' = Entries!Frames
    BY <1>3 DEF Entries!Frames
  <2>2. /\ outcome' \in [Loads -> {"absent", "pending", "delivered", "dropped"}]
        /\ wanted' \in [Loads -> Scopes \cup {NoScope}]
    BY <1>1, <1>2, <1>3 DEF Entries!TypeOK
  <2> QED
    BY <1>1, <1>3, <1>4, <1>5, <2>1, <2>2 DEF Entries!TypeOK
<1>7. BatchIsCurrent'
  BY <1>1, <1>3, <1>4 DEF BatchIsCurrent
<1>8. \A L : Ours(L) => Ours(L)' /\ Ours(L \cup {l})'
  BY <1>1, <1>2, <1>3, <1>4 DEF Ours, Entries!TypeOK
<1>9. AnswerableAreOurs'
  <2>1. Ours(Entries!Elements(pending))'
    BY <1>1, <1>5, <1>8 DEF AnswerableAreOurs
  <2> QED
    BY <1>1, <1>3, <1>4, <1>8, <2>1 DEF AnswerableAreOurs
<1>10. Entries!BatchIsWatched'
  <2>1. \A k \in Loads : outcome'[k] = "pending" => k = l \/ outcome[k] = "pending"
    BY <1>1, <1>3 DEF Entries!TypeOK
  <2>2. batch \in tasks
    BY <1>1, <1>3 DEF BatchIsCurrent
  <2>3. \A k \in Loads : outcome'[k] = "pending" =>
         \/ k \in DOMAIN reads'
         \/ k \in Entries!Elements(pending') /\ batch' \in tasks'
         \/ \E i \in DOMAIN sourceStack' : sourceStack'[i].at = "answering" /\
              k \in Entries!Elements(sourceStack'[i].rest)
    BY <1>1, <1>3, <1>4, <1>5, <2>1, <2>2 DEF Entries!BatchIsWatched
  <2> QED
    BY <1>1, <1>3, <1>4, <2>3 DEF Entries!BatchIsWatched
<1> QED
  BY <1>6, <1>7, <1>9, <1>10 DEF EntriesInv

\* A load that is answered at once, or not at all, leaves the others as they are.
LEMMA AnsweredAtOncePreserves ==
  ASSUME EntriesInv, NEW l \in Loads, NEW s \in Scopes \cup {NoScope}, Entries!Ask(l, s),
         outcome' = [outcome EXCEPT ![l] = "delivered"],
         UNCHANGED <<sourceAlive, Entries!sourceState, Entries!batchState, Entries!workerState,
           reads, sourceStack>>
  PROVE  EntriesInv'
<1>1. Entries!TypeOK /\ BatchIsCurrent /\ AnswerableAreOurs /\ Entries!BatchIsWatched
  BY DEF EntriesInv
<1>2. /\ wanted' = [wanted EXCEPT ![l] = s] /\ outcome[l] = "absent"
      /\ \A L : Ours(L) => l \notin L
  BY AskedAnew
<1>3. UNCHANGED <<scope, generation, runner, batch, pending, batches, work, tasks, stored,
                  stopSource, stopped>>
  BY DEF Entries!sourceState, Entries!batchState, Entries!workerState
<1>4. Entries!TypeOK'
  <2>1. Entries!Frames' = Entries!Frames
    BY <1>3 DEF Entries!Frames
  <2>2. /\ outcome' \in [Loads -> {"absent", "pending", "delivered", "dropped"}]
        /\ wanted' \in [Loads -> Scopes \cup {NoScope}]
    BY <1>1, <1>2 DEF Entries!TypeOK
  <2> QED
    BY <1>1, <1>3, <2>1, <2>2 DEF Entries!TypeOK
<1>5. BatchIsCurrent'
  BY <1>1, <1>3 DEF BatchIsCurrent
<1>6. AnswerableAreOurs'
  <2>1. \A L : Ours(L) => Ours(L)'
    BY <1>1, <1>2, <1>3 DEF Ours, Entries!TypeOK
  <2> QED
    BY <1>1, <1>3, <2>1 DEF AnswerableAreOurs
<1>7. Entries!BatchIsWatched'
  <2>1. \A k \in Loads : outcome'[k] = "pending" => outcome[k] = "pending"
    BY <1>1 DEF Entries!TypeOK
  <2> QED
    BY <1>1, <1>3, <2>1 DEF Entries!BatchIsWatched
<1> QED
  BY <1>4, <1>5, <1>6, <1>7 DEF EntriesInv

LEMMA LoadCachedPreserves == ASSUME EntriesInv, NEW l \in Loads, Entries!LoadCached(l)
  PROVE EntriesInv'
<1>1. scope \in Scopes \cup {NoScope}
  BY DEF EntriesInv, Entries!TypeOK
<1> QED
  BY <1>1, AnsweredAtOncePreserves DEF Entries!LoadCached

LEMMA LoadImageDataPreserves ==
  ASSUME EntriesInv, NEW l \in Loads, NEW s \in Scopes, Entries!LoadImageData(l, s)
  PROVE  EntriesInv'
<1>0. CASE s # scope
  BY <1>0, AnsweredAtOncePreserves DEF Entries!LoadImageData
<1>1. CASE s = scope
  <2>1. Entries!TypeOK /\ BatchIsCurrent /\ AnswerableAreOurs /\ Entries!BatchIsWatched
    BY DEF EntriesInv
  <2>2. /\ wanted' = [wanted EXCEPT ![l] = scope] /\ outcome[l] = "absent"
        /\ \A L : Ours(L) => l \notin L
    BY <1>1, AskedAnew DEF Entries!LoadImageData
  <2>3. /\ outcome' = [outcome EXCEPT ![l] = "pending"]
        /\ DOMAIN reads' = DOMAIN reads \cup {l}
        /\ \A k \in DOMAIN reads' : reads'[k] = IF k = l THEN generation ELSE reads[k]
        /\ UNCHANGED <<sourceAlive, Entries!sourceState, Entries!batchState, Entries!workerState,
             sourceStack>>
    BY <1>1 DEF Entries!LoadImageData
  <2>4. UNCHANGED <<scope, generation, runner, batch, pending, batches, work, tasks, stored,
                    stopSource, stopped>>
    BY <2>3 DEF Entries!sourceState, Entries!batchState, Entries!workerState
  <2>5. generation \in Entries!Generations /\ generation \in Nat
    BY <2>1 DEF Entries!TypeOK, Entries!Generations
  <2>6. Entries!TypeOK'
    <3>1. Entries!Frames' = Entries!Frames
      BY <2>4 DEF Entries!Frames
    <3>2. /\ outcome' \in [Loads -> {"absent", "pending", "delivered", "dropped"}]
          /\ wanted' \in [Loads -> Scopes \cup {NoScope}]
      BY <2>1, <2>2, <2>3 DEF Entries!TypeOK
    <3>3. DOMAIN reads' \subseteq Loads /\
            \A k \in DOMAIN reads' : reads'[k] \in Entries!Generations
      BY <2>1, <2>3, <2>5 DEF Entries!TypeOK
    <3> QED
      BY <2>1, <2>3, <2>4, <3>1, <3>2, <3>3 DEF Entries!TypeOK
  <2>7. BatchIsCurrent'
    <3>1. \A k \in DOMAIN reads' : reads'[k] <= generation'
      BY <2>1, <2>3, <2>4, <2>5 DEF BatchIsCurrent
    <3> QED
      BY <2>1, <2>3, <2>4, <3>1 DEF BatchIsCurrent
  <2>8. AnswerableAreOurs'
    <3>1. \A L : Ours(L) => Ours(L)'
      BY <2>1, <2>2, <2>3, <2>4 DEF Ours, Entries!TypeOK
    <3>2. Ours({l})'
      BY <2>1, <2>2, <2>3, <2>4 DEF Ours, Entries!TypeOK
    <3>3. \A k \in DOMAIN reads' : reads'[k] = generation' => Ours({k})'
      BY <2>1, <2>3, <2>4, <3>1, <3>2 DEF AnswerableAreOurs
    <3> QED
      BY <2>1, <2>3, <2>4, <3>1, <3>3 DEF AnswerableAreOurs
  <2>9. Entries!BatchIsWatched'
    <3>1. \A k \in Loads : outcome'[k] = "pending" => k = l \/ outcome[k] = "pending"
      BY <2>1, <2>3 DEF Entries!TypeOK
    <3> QED
      BY <2>1, <2>3, <2>4, <3>1 DEF Entries!BatchIsWatched
  <2> QED
    BY <2>6, <2>7, <2>8, <2>9 DEF EntriesInv
<1> QED
  BY <1>0, <1>1

\* A batch is begun for a load: the only call that will store its task is in progress.
LEMMA LoadCurrentPreserves == ASSUME EntriesInv, NEW l \in Loads, Entries!LoadCurrent(l)
  PROVE EntriesInv'
<1> DEFINE b == Len(batches) + 1
           frame == [at |-> "starting", batch |-> b]
<1>1. Entries!TypeOK /\ BatchIsCurrent /\ AnswerableAreOurs /\ Entries!BatchIsWatched
  BY DEF EntriesInv
<1>2. /\ sourceAlive /\ wanted' = [wanted EXCEPT ![l] = scope] /\ outcome[l] = "absent"
      /\ \A L : Ours(L) => l \notin L
  BY AskedAnew DEF Entries!LoadCurrent
<1>3. /\ batch = Entries!None /\ scope # NoScope
      /\ batch' = b /\ batches' = Append(batches, generation) /\ pending' = <<l>>
      /\ work' = Append(work, "running") /\ stopSource' = b
      /\ sourceStack' = Append(sourceStack, frame)
      /\ outcome' = [outcome EXCEPT ![l] = "pending"]
      /\ tasks' = tasks \cup {b}
      /\ UNCHANGED <<sourceAlive, scope, generation, runner, stored, stopped, reads>>
  BY DEF Entries!LoadCurrent, Entries!StartBatch, Entries!sourceState
<1>4. generation \in Entries!Generations
  BY <1>1 DEF Entries!TypeOK
<1>5. /\ batches' \in Seq(Entries!Generations) /\ Len(batches') = b /\ b \in Nat \ {0}
      /\ Len(batches) \in Nat
      /\ DOMAIN batches = 1..Len(batches) /\ DOMAIN batches' = 1..b
      /\ \A c \in DOMAIN batches : batches'[c] = batches[c]
      /\ batches'[b] = generation
      /\ sourceStack \in Seq(Entries!Frames') /\ frame \in Entries!Frames'
  <2>1. /\ batches' \in Seq(Entries!Generations) /\ Len(batches') = b /\ b \in Nat \ {0}
        /\ Len(batches) \in Nat
        /\ DOMAIN batches = 1..Len(batches) /\ DOMAIN batches' = 1..b
        /\ \A c \in DOMAIN batches : batches'[c] = batches[c]
        /\ batches'[b] = generation
        /\ sourceStack \in Seq(Entries!Frames')
    BY <1>1, <1>3, <1>4, EntryFramesGrow
  <2> QED
    BY <2>1 DEF Entries!Frames
<1>6. /\ sourceStack' \in Seq(Entries!Frames')
      /\ DOMAIN sourceStack' = DOMAIN sourceStack \cup {Len(sourceStack) + 1}
      /\ \A i \in DOMAIN sourceStack : sourceStack'[i] = sourceStack[i]
      /\ sourceStack'[Len(sourceStack) + 1] = frame
  BY <1>3, <1>5, Pushed
<1>7. Entries!Elements(pending') = {l} /\ pending' \in Seq(Loads)
  BY <1>3 DEF Entries!Elements
<1>8. \A i \in DOMAIN sourceStack : sourceStack[i].batch \in DOMAIN batches
  BY <1>1, <1>5 DEF Entries!TypeOK, Entries!Frames
<1> HIDE DEF b, frame
<1>9. Entries!TypeOK'
  <2>1. /\ outcome' \in [Loads -> {"absent", "pending", "delivered", "dropped"}]
        /\ wanted' \in [Loads -> Scopes \cup {NoScope}]
    BY <1>1, <1>2, <1>3 DEF Entries!TypeOK
  <2>2. /\ {batch', stored', stopSource'} \subseteq 0..Len(batches')
        /\ tasks' \cup stopped' \subseteq 1..Len(batches')
    BY <1>1, <1>3, <1>5 DEF Entries!TypeOK, b
  <2>3. work' \in Seq({"running", "entries", "error"}) /\ Len(work') = Len(batches')
    BY <1>1, <1>3, <1>5 DEF Entries!TypeOK, b
  <2> QED
    BY <1>1, <1>3, <1>5, <1>6, <1>7, <2>1, <2>2, <2>3 DEF Entries!TypeOK
<1>10. BatchIsCurrent'
  <2>1. \A c \in DOMAIN batches' : batches'[c] <= generation'
    BY <1>1, <1>3, <1>4, <1>5 DEF BatchIsCurrent, b, Entries!Generations
  <2> QED
    BY <1>1, <1>2, <1>3, <1>5, <2>1 DEF BatchIsCurrent, Entries!None
<1>11. AnswerableAreOurs'
  <2>1. \A L : Ours(L) => Ours(L)'
    BY <1>1, <1>2, <1>3 DEF Ours, Entries!TypeOK
  <2>2. Ours({l})'
    BY <1>1, <1>2, <1>3 DEF Ours, Entries!TypeOK
  <2>3. (\A i \in DOMAIN sourceStack :
           sourceStack[i].at = "answering" /\ batches[sourceStack[i].batch] = generation
             => Ours(Entries!Elements(sourceStack[i].rest)))'
    <3>1. sourceStack'[Len(sourceStack) + 1].at = "starting"
      BY <1>6 DEF frame
    <3>2. ASSUME NEW i \in DOMAIN sourceStack, sourceStack'[i].at = "answering",
                 batches'[sourceStack'[i].batch] = generation'
          PROVE  Ours(Entries!Elements(sourceStack[i].rest))'
      <4>1. sourceStack[i].at = "answering" /\ batches[sourceStack[i].batch] = generation
        BY <1>3, <1>5, <1>6, <1>8, <3>2
      <4>2. Ours(Entries!Elements(sourceStack[i].rest))
        BY <1>1, <4>1 DEF AnswerableAreOurs
      <4>3. Entries!Elements(sourceStack'[i].rest) = Entries!Elements(sourceStack[i].rest)
        BY <1>6
      <4> QED
        BY <2>1, <4>2, <4>3 DEF Ours
    <3> QED
      BY <1>6, <3>1, <3>2
  <2>4. \A k \in DOMAIN reads' : reads'[k] = generation' => Ours({k})'
    BY <1>1, <1>3, <2>1 DEF AnswerableAreOurs
  <2> QED
    BY <1>7, <2>2, <2>3, <2>4 DEF AnswerableAreOurs
<1>12. Entries!BatchIsWatched'
  <2>1. \A k \in Loads : outcome'[k] = "pending" => k = l \/ outcome[k] = "pending"
    BY <1>1, <1>3 DEF Entries!TypeOK
  <2>2. Entries!Elements(pending) = {}
    BY <1>1, <1>3 DEF BatchIsCurrent, Entries!Elements
  <2>3. \A k \in Loads : outcome'[k] = "pending" =>
         \/ k \in DOMAIN reads'
         \/ k \in Entries!Elements(pending') /\ batch' \in tasks'
         \/ \E i \in DOMAIN sourceStack' : sourceStack'[i].at = "answering" /\
              k \in Entries!Elements(sourceStack'[i].rest)
    BY <1>1, <1>3, <1>6, <1>7, <2>1, <2>2 DEF Entries!BatchIsWatched
  <2>4. \E i \in DOMAIN sourceStack' : sourceStack'[i] = [at |-> "starting", batch |-> batch']
    BY <1>3, <1>6 DEF frame
  <2>5. \A c \in stopped' : batches'[c] # generation'
    BY <1>1, <1>3, <1>5 DEF Entries!TypeOK, Entries!BatchIsWatched
  <2> QED
    BY <2>3, <2>4, <2>5 DEF Entries!BatchIsWatched
<1> QED
  BY <1>9, <1>10, <1>11, <1>12 DEF EntriesInv

\* A load of another collection replaces the source and begins the first batch of the new.
LEMMA LoadOtherPreserves ==
  ASSUME Entries!ConstantsAreSound, EntriesInv, NEW l \in Loads, NEW s \in Scopes,
    Entries!LoadOther(l, s)
  PROVE  EntriesInv'
<1> DEFINE b == Len(batches) + 1
           frame == [at |-> "starting", batch |-> b]
<1>1. Entries!TypeOK /\ BatchIsCurrent /\ AnswerableAreOurs /\ Entries!BatchIsWatched
  BY DEF EntriesInv
<1>2. sourceAlive /\ wanted' = [wanted EXCEPT ![l] = s] /\ outcome[l] = "absent"
  BY AskedAnew DEF Entries!LoadOther
<1>3. /\ batch' = b /\ batches' = Append(batches, generation + 1) /\ pending' = <<l>>
      /\ work' = Append(work, "running") /\ stopSource' = b
      /\ sourceStack' = Append(sourceStack, frame)
      /\ outcome' = [Entries!SettleAll(Entries!CancelPending, "dropped") EXCEPT ![l] = "pending"]
      /\ tasks' = (tasks \ {stored}) \cup {b}
      /\ stopped' = stopped \cup ({stopSource} \ {Entries!None})
      /\ stored' = Entries!None /\ scope' = s /\ Entries!Replaced(s)
      /\ UNCHANGED <<sourceAlive, runner, reads>>
  BY DEF Entries!LoadOther, Entries!StartBatch, Entries!Replaced
<1>4. generation' \in Entries!Generations /\ generation' = generation + 1 /\ generation \in Nat
  BY <1>1, <1>3, Replacing
<1>5. /\ batches' \in Seq(Entries!Generations) /\ Len(batches') = b /\ b \in Nat \ {0}
      /\ Len(batches) \in Nat
      /\ DOMAIN batches = 1..Len(batches) /\ DOMAIN batches' = 1..b
      /\ \A c \in DOMAIN batches : batches'[c] = batches[c]
      /\ batches'[b] = generation'
      /\ sourceStack \in Seq(Entries!Frames') /\ frame \in Entries!Frames'
  <2>1. generation + 1 \in Entries!Generations /\ batches' = Append(batches, generation + 1)
    BY <1>3, <1>4
  <2>2. /\ batches' \in Seq(Entries!Generations) /\ Len(batches') = b /\ b \in Nat \ {0}
        /\ Len(batches) \in Nat
        /\ DOMAIN batches = 1..Len(batches) /\ DOMAIN batches' = 1..b
        /\ \A c \in DOMAIN batches : batches'[c] = batches[c]
        /\ batches'[b] = generation + 1
        /\ sourceStack \in Seq(Entries!Frames')
    BY <1>1, <2>1, EntryFramesGrow
  <2> QED
    BY <1>4, <2>2 DEF Entries!Frames
<1>6. /\ sourceStack' \in Seq(Entries!Frames')
      /\ DOMAIN sourceStack' = DOMAIN sourceStack \cup {Len(sourceStack) + 1}
      /\ \A i \in DOMAIN sourceStack : sourceStack'[i] = sourceStack[i]
      /\ sourceStack'[Len(sourceStack) + 1] = frame
  BY <1>3, <1>5, Pushed
<1>7. Entries!Elements(pending') = {l} /\ pending' \in Seq(Loads)
  BY <1>3 DEF Entries!Elements
<1>8. \A i \in DOMAIN sourceStack : sourceStack[i].batch \in DOMAIN batches
  BY <1>1, <1>5 DEF Entries!TypeOK, Entries!Frames
<1>9. \A c \in DOMAIN batches : batches[c] \in Nat /\ batches'[c] # generation'
  BY <1>1, <1>4, <1>5 DEF Entries!ConstantsAreSound, Entries!TypeOK, Entries!Generations,
      BatchIsCurrent
<1> HIDE DEF b, frame
<1>10. Entries!TypeOK'
  <2>1. /\ outcome' \in [Loads -> {"absent", "pending", "delivered", "dropped"}]
        /\ wanted' \in [Loads -> Scopes \cup {NoScope}]
    BY <1>1, <1>2, <1>3 DEF Entries!TypeOK, Entries!SettleAll
  <2>2. /\ {batch', stored', stopSource'} \subseteq 0..Len(batches')
        /\ tasks' \cup stopped' \subseteq 1..Len(batches')
    BY <1>1, <1>3, <1>5 DEF Entries!TypeOK, b, Entries!None
  <2>3. work' \in Seq({"running", "entries", "error"}) /\ Len(work') = Len(batches')
    BY <1>1, <1>3, <1>5 DEF Entries!TypeOK, b
  <2> QED
    BY <1>1, <1>3, <1>4, <1>5, <1>6, <1>7, <2>1, <2>2, <2>3 DEF Entries!TypeOK
<1>11. BatchIsCurrent'
  <2>1. \A c \in DOMAIN batches' : batches'[c] <= generation'
    BY <1>1, <1>3, <1>4, <1>5, <1>9 DEF BatchIsCurrent, b
  <2>2. \A k \in DOMAIN reads' : reads'[k] <= generation'
    BY <1>1, <1>3, <1>4 DEF BatchIsCurrent, Entries!ConstantsAreSound, Entries!TypeOK,
        Entries!Generations
  <2> QED
    BY <1>2, <1>3, <1>5, <2>1, <2>2 DEF BatchIsCurrent, Entries!None
<1>12. AnswerableAreOurs'
  <2>1. Ours({l})'
    BY <1>1, <1>2, <1>3 DEF Ours, Entries!TypeOK, Entries!SettleAll
  <2>2. \A k \in DOMAIN reads' : reads'[k] # generation'
    BY <1>1, <1>3, <1>4 DEF BatchIsCurrent, Entries!ConstantsAreSound, Entries!TypeOK,
        Entries!Generations
  <2>3. \A i \in DOMAIN sourceStack' : sourceStack'[i].at = "answering" =>
          batches'[sourceStack'[i].batch] # generation'
    <3>1. sourceStack'[Len(sourceStack) + 1].at = "starting"
      BY <1>6 DEF frame
    <3> QED
      BY <1>6, <1>8, <1>9, <3>1
  <2> QED
    BY <1>7, <2>1, <2>2, <2>3 DEF AnswerableAreOurs
<1>13. Entries!BatchIsWatched'
  <2>1. \A k \in Loads : outcome'[k] = "pending" =>
          k = l \/ (outcome[k] = "pending" /\ k \notin Entries!Elements(pending))
    BY <1>1, <1>3 DEF Entries!TypeOK, Entries!SettleAll, Entries!CancelPending
  <2>2. \A k \in Loads : outcome'[k] = "pending" =>
         \/ k \in DOMAIN reads'
         \/ k \in Entries!Elements(pending') /\ batch' \in tasks'
         \/ \E i \in DOMAIN sourceStack' : sourceStack'[i].at = "answering" /\
              k \in Entries!Elements(sourceStack'[i].rest)
    BY <1>1, <1>3, <1>6, <1>7, <2>1 DEF Entries!BatchIsWatched
  <2>3. \E i \in DOMAIN sourceStack' : sourceStack'[i] = [at |-> "starting", batch |-> batch']
    BY <1>3, <1>6 DEF frame
  <2>4. \A c \in stopped' : batches'[c] # generation'
    BY <1>1, <1>3, <1>5, <1>9 DEF Entries!TypeOK, Entries!None
  <2> QED
    BY <2>2, <2>3, <2>4 DEF Entries!BatchIsWatched
<1> QED
  BY <1>10, <1>11, <1>12, <1>13 DEF EntriesInv

-----------------------------------------------------------------------------
(* Work that is done for no load, and loads that are settled. *)

LEMMA LoadSynchronouslyPreserves == ASSUME EntriesInv, Entries!LoadSynchronously PROVE EntriesInv'
<1>1. Entries!TypeOK /\ BatchIsCurrent /\ AnswerableAreOurs /\ Entries!BatchIsWatched
  BY DEF EntriesInv
<1>2. UNCHANGED <<sourceAlive, scope, generation, batch, pending, batches, work, tasks, stored,
                  stopSource, stopped, outcome, wanted, reads, sourceStack>>
  BY DEF Entries!LoadSynchronously, Entries!batchState, Entries!workerState, Entries!callers
<1>3. Entries!TypeOK'
  <2>1. generation \in Entries!Generations
    BY <1>1 DEF Entries!TypeOK
  <2>2. Entries!Opened(generation, FALSE) \subseteq Entries!RunnerStates
    BY <1>1, <2>1, OpenedTypes
  <2>3. runner' \in [Entries!Generations -> Entries!RunnerStates]
    BY <1>1, <2>2 DEF Entries!LoadSynchronously, Entries!TypeOK
  <2>4. Entries!Frames' = Entries!Frames
    BY <1>2 DEF Entries!Frames
  <2> QED
    BY <1>1, <1>2, <2>3, <2>4 DEF Entries!TypeOK
<1>4. BatchIsCurrent' /\ AnswerableAreOurs' /\ Entries!BatchIsWatched'
  BY <1>1, <1>2 DEF BatchIsCurrent, AnswerableAreOurs, Entries!BatchIsWatched, Ours
<1> QED
  BY <1>3, <1>4 DEF EntriesInv

LEMMA WorkerLoadsPreserves ==
  ASSUME EntriesInv, NEW b \in 1..Len(batches), Entries!WorkerLoads(b) PROVE EntriesInv'
<1>1. Entries!TypeOK /\ BatchIsCurrent /\ AnswerableAreOurs /\ Entries!BatchIsWatched
  BY DEF EntriesInv
<1>2. UNCHANGED <<sourceAlive, scope, generation, batch, pending, batches, tasks, stored,
                  stopSource, stopped, outcome, wanted, reads, sourceStack>>
  BY DEF Entries!WorkerLoads, Entries!batchState, Entries!callers
<1>3. Entries!TypeOK'
  <2>1. batches[b] \in Entries!Generations
    BY <1>1 DEF Entries!TypeOK
  <2>2. Entries!Opened(batches[b], b \in stopped) \subseteq Entries!RunnerStates
    BY <1>1, <2>1 DEF Entries!TypeOK, Entries!Opened, Entries!RunnerStates
  <2>3. runner' \in [Entries!Generations -> Entries!RunnerStates]
    BY <1>1, <2>2 DEF Entries!WorkerLoads, Entries!TypeOK
  <2>4. Entries!Frames' = Entries!Frames
    BY <1>2 DEF Entries!Frames
  <2>5. work' \in Seq({"running", "entries", "error"}) /\ Len(work') = Len(work)
    BY <1>1 DEF Entries!WorkerLoads, Entries!TypeOK
  <2> QED
    BY <1>1, <1>2, <2>3, <2>4, <2>5 DEF Entries!TypeOK
<1>4. BatchIsCurrent' /\ AnswerableAreOurs' /\ Entries!BatchIsWatched'
  BY <1>1, <1>2 DEF BatchIsCurrent, AnswerableAreOurs, Entries!BatchIsWatched, Ours
<1> QED
  BY <1>3, <1>4 DEF EntriesInv

\* A waiting load is settled; who is ours stays ours.
LEMMA Settled ==
  ASSUME Entries!TypeOK, NEW l \in Loads, NEW how \in {"delivered", "dropped"},
         \/ outcome' = Entries!SettleAll({l}, how)
         \/ outcome[l] = "pending" /\ outcome' = [outcome EXCEPT ![l] = how],
         UNCHANGED <<scope, wanted>>
  PROVE  /\ outcome' \in [Loads -> {"absent", "pending", "delivered", "dropped"}]
         /\ \A k \in Loads : outcome'[k] = "pending" => outcome[k] = "pending" /\ k # l
         /\ \A k \in Loads : outcome[k] # "absent" => outcome'[k] # "absent"
         /\ \A L \in SUBSET Loads : Ours(L) => Ours(L)'
<1>1. /\ outcome' \in [Loads -> {"absent", "pending", "delivered", "dropped"}]
      /\ \A k \in Loads : outcome'[k] = "pending" => outcome[k] = "pending" /\ k # l
      /\ \A k \in Loads : outcome[k] # "absent" => outcome'[k] # "absent"
  BY DEF Entries!SettleAll, Entries!TypeOK
<1>2. \A L \in SUBSET Loads : Ours(L) => Ours(L)'
  BY <1>1 DEF Ours
<1> QED
  BY <1>1, <1>2

\* The loads in the frames and in the batch are loads.
LEMMA WaitingAreLoads ==
  ASSUME Entries!TypeOK
  PROVE  /\ Entries!Elements(pending) \subseteq Loads
         /\ \A i \in DOMAIN sourceStack : sourceStack[i] \in Entries!Frames
         /\ \A i \in DOMAIN sourceStack : sourceStack[i].at = "answering" =>
              sourceStack[i].rest \in Seq(Loads) /\
                Entries!Elements(sourceStack[i].rest) \subseteq Loads
<1>1. Entries!Elements(pending) \subseteq Loads
  BY ElementsOf DEF Entries!TypeOK
<1>2. \A i \in DOMAIN sourceStack : sourceStack[i] \in Entries!Frames
  BY DEF Entries!TypeOK
<1>3. \A i \in DOMAIN sourceStack : sourceStack[i].at = "answering"
        => sourceStack[i].rest \in Seq(Loads)
  BY <1>2 DEF Entries!Frames
<1> QED
  BY <1>1, <1>2, <1>3, ElementsOf

\* A load that waits for its bytes or its batch is settled, and reads it no more.
LEMMA SettledOutsidePreserves ==
  ASSUME EntriesInv, NEW l \in Loads, NEW how \in {"delivered", "dropped"},
         \/ outcome' = Entries!SettleAll({l}, how)
         \/ outcome[l] = "pending" /\ outcome' = [outcome EXCEPT ![l] = how],
         reads' = Entries!Restrict(reads, DOMAIN reads \ {l}),
         UNCHANGED <<sourceAlive, Entries!sourceState, Entries!batchState, Entries!workerState,
           wanted, sourceStack>>
  PROVE  EntriesInv'
<1>1. Entries!TypeOK /\ BatchIsCurrent /\ AnswerableAreOurs /\ Entries!BatchIsWatched
  BY DEF EntriesInv
<1>2. UNCHANGED <<scope, generation, runner, batch, pending, batches, work, tasks, stored,
                  stopSource, stopped>>
  BY DEF Entries!sourceState, Entries!batchState, Entries!workerState
<1>3. DOMAIN reads' = DOMAIN reads \ {l} /\ \A k \in DOMAIN reads' : reads'[k] = reads[k]
  BY DEF Entries!Restrict
<1>4. /\ outcome' \in [Loads -> {"absent", "pending", "delivered", "dropped"}]
      /\ \A k \in Loads : outcome'[k] = "pending" => outcome[k] = "pending" /\ k # l
      /\ \A L \in SUBSET Loads : Ours(L) => Ours(L)'
  BY <1>1, <1>2, Settled
<1>5. Entries!TypeOK'
  <2>1. Entries!Frames' = Entries!Frames
    BY <1>2 DEF Entries!Frames
  <2> QED
    BY <1>1, <1>2, <1>3, <1>4, <2>1 DEF Entries!TypeOK
<1>6. BatchIsCurrent'
  BY <1>1, <1>2, <1>3 DEF BatchIsCurrent
<1>7. AnswerableAreOurs'
  <2>1. Ours(Entries!Elements(pending))'
    BY <1>1, <1>2, <1>4, WaitingAreLoads DEF AnswerableAreOurs
  <2>2. \A k \in DOMAIN reads' : reads'[k] = generation' => Ours({k})'
    BY <1>1, <1>2, <1>3, <1>4 DEF AnswerableAreOurs, Entries!TypeOK
  <2>3. (\A i \in DOMAIN sourceStack :
           sourceStack[i].at = "answering" /\ batches[sourceStack[i].batch] = generation
             => Ours(Entries!Elements(sourceStack[i].rest)))'
    BY <1>1, <1>2, <1>4, WaitingAreLoads DEF AnswerableAreOurs
  <2> QED
    BY <2>1, <2>2, <2>3 DEF AnswerableAreOurs
<1>8. Entries!BatchIsWatched'
  BY <1>1, <1>2, <1>3, <1>4 DEF Entries!BatchIsWatched
<1> QED
  BY <1>5, <1>6, <1>7, <1>8 DEF EntriesInv

LEMMA CancelLoadPreserves == ASSUME EntriesInv, NEW l \in Loads, Entries!CancelLoad(l)
  PROVE EntriesInv'
  BY SettledOutsidePreserves DEF Entries!CancelLoad

LEMMA FinishReadPreserves == ASSUME EntriesInv, NEW l \in Loads, Entries!FinishRead(l)
  PROVE EntriesInv'
<1>1. PICK how \in {"delivered", "dropped"} : outcome' = Entries!SettleAll({l}, how)
  BY DEF Entries!FinishRead
<1> QED
  BY <1>1, SettledOutsidePreserves DEF Entries!FinishRead

-----------------------------------------------------------------------------
(* A batch is completed, and its loads are answered. *)

LEMMA IgnoreCompletionPreserves ==
  ASSUME EntriesInv, NEW b \in 1..Len(batches), Entries!IgnoreCompletion(b) PROVE EntriesInv'
<1>1. Entries!TypeOK /\ BatchIsCurrent /\ AnswerableAreOurs /\ Entries!BatchIsWatched
  BY DEF EntriesInv
<1>2. /\ tasks' = tasks \ {b}
      /\ UNCHANGED <<sourceAlive, scope, generation, runner, batch, pending, batches, work, stored,
                     stopSource, stopped, outcome, wanted, reads, sourceStack>>
  BY DEF Entries!IgnoreCompletion, Entries!Completed, Entries!sourceState, Entries!batchState,
      Entries!callers
<1>3. batch # Entries!None => batch # b
  BY <1>1 DEF Entries!IgnoreCompletion, Entries!AcceptsGeneration, BatchIsCurrent
<1>4. Entries!TypeOK'
  <2>1. Entries!Frames' = Entries!Frames
    BY <1>2 DEF Entries!Frames
  <2> QED
    BY <1>1, <1>2, <2>1 DEF Entries!TypeOK
<1>5. BatchIsCurrent' /\ AnswerableAreOurs'
  BY <1>1, <1>2, <1>3 DEF BatchIsCurrent, AnswerableAreOurs, Ours
<1>6. Entries!BatchIsWatched'
  <2>1. batch = Entries!None => Entries!Elements(pending) = {}
    BY <1>1 DEF BatchIsCurrent, Entries!Elements
  <2> QED
    BY <1>1, <1>2, <1>3, <2>1 DEF Entries!BatchIsWatched
<1> QED
  BY <1>4, <1>5, <1>6 DEF EntriesInv

\* The loads of the batch move from the waiting list into the call that answers them.
LEMMA FinishEntryLoadPreserves ==
  ASSUME EntriesInv, NEW b \in 1..Len(batches), Entries!FinishEntryLoad(b) PROVE EntriesInv'
<1> DEFINE frame == [at |-> "answering", batch |-> b, rest |-> pending]
<1>1. Entries!TypeOK /\ BatchIsCurrent /\ AnswerableAreOurs /\ Entries!BatchIsWatched
  BY DEF EntriesInv
<1>2. /\ tasks' = tasks \ {b} /\ sourceAlive /\ generation = batches[b] /\ batch = b
      /\ batch' = Entries!None /\ pending' = <<>> /\ sourceStack' = Append(sourceStack, frame)
      /\ UNCHANGED <<sourceAlive, scope, generation, runner, batches, work, stored, stopSource,
                     stopped, outcome, wanted, reads>>
  BY DEF Entries!FinishEntryLoad, Entries!Completed, Entries!AcceptsGeneration,
      Entries!sourceState, Entries!callers
<1>3. Entries!Frames' = Entries!Frames
  BY <1>2 DEF Entries!Frames
<1>4. frame \in Entries!Frames
  BY <1>1 DEF Entries!Frames, Entries!TypeOK
<1>5. /\ sourceStack' \in Seq(Entries!Frames)
      /\ DOMAIN sourceStack' = DOMAIN sourceStack \cup {Len(sourceStack) + 1}
      /\ \A i \in DOMAIN sourceStack : sourceStack'[i] = sourceStack[i]
      /\ sourceStack'[Len(sourceStack) + 1] = frame
  BY <1>1, <1>2, <1>4, Pushed DEF Entries!TypeOK
<1>6. frame.at = "answering" /\ frame.rest = pending
  OBVIOUS
<1>7. Entries!Elements(pending') = {}
  BY <1>2 DEF Entries!Elements
<1> HIDE DEF frame
<1>8. Entries!TypeOK'
  <2>1. pending' \in Seq(Loads) /\ batch' \in 0..Len(batches')
    BY <1>1, <1>2 DEF Entries!TypeOK, Entries!None
  <2> QED
    BY <1>1, <1>2, <1>3, <1>5, <2>1 DEF Entries!TypeOK
<1>9. BatchIsCurrent'
  BY <1>1, <1>2 DEF BatchIsCurrent
<1>10. AnswerableAreOurs'
  <2>1. Ours(Entries!Elements(pending))'
    BY <1>7 DEF Ours
  <2>2. \A k \in DOMAIN reads' : reads'[k] = generation' => Ours({k})'
    BY <1>1, <1>2 DEF AnswerableAreOurs, Ours
  <2>3. (\A i \in DOMAIN sourceStack :
           sourceStack[i].at = "answering" /\ batches[sourceStack[i].batch] = generation
             => Ours(Entries!Elements(sourceStack[i].rest)))'
    <3>1. ASSUME NEW i \in DOMAIN sourceStack, sourceStack'[i].at = "answering",
                 batches'[sourceStack'[i].batch] = generation'
          PROVE  Ours(Entries!Elements(sourceStack[i].rest))'
      <4>1. sourceStack'[i] = sourceStack[i] /\ Ours(Entries!Elements(sourceStack[i].rest))
        BY <1>1, <1>2, <1>5, <3>1 DEF AnswerableAreOurs
      <4> QED
        BY <1>2, <4>1 DEF Ours
    <3>2. \A k \in Entries!Elements(sourceStack'[Len(sourceStack) + 1].rest) :
            outcome'[k] # "absent" /\ wanted'[k] = scope'
      BY <1>1, <1>2, <1>5, <1>6 DEF AnswerableAreOurs, Ours
    <3> QED
      BY <1>5, <3>1, <3>2 DEF Ours
  <2> QED
    BY <2>1, <2>2, <2>3 DEF AnswerableAreOurs
<1>11. Entries!BatchIsWatched'
  <2>1. \A k \in Loads : outcome'[k] = "pending" =>
         \/ k \in DOMAIN reads'
         \/ \E i \in DOMAIN sourceStack' : sourceStack'[i].at = "answering" /\
              k \in Entries!Elements(sourceStack'[i].rest)
    BY <1>1, <1>2, <1>5, <1>6 DEF Entries!BatchIsWatched
  <2> QED
    BY <1>1, <1>2, <2>1 DEF Entries!BatchIsWatched
<1> QED
  BY <1>8, <1>9, <1>10, <1>11 DEF EntriesInv

\* The topmost call returns; the batch in progress has lost neither its loads nor its task.
LEMMA ReturnPreserves ==
  ASSUME EntriesInv, sourceStack # <<>>, sourceStack' = Entries!Pop,
         stored' \in {stored, batch},
         tasks' \in SUBSET tasks, batch # Entries!None => batch \in tasks',
         Entries!Top.at = "answering" => Entries!Top.rest = <<>> /\ stored' = stored,
         Entries!Top.at = "starting" => stored' = batch \/ Entries!Top.batch # batch,
         UNCHANGED <<sourceAlive, Entries!sourceState, Entries!batchState, work, stopSource,
           stopped, Entries!callers>>
  PROVE  EntriesInv'
<1>1. Entries!TypeOK /\ BatchIsCurrent /\ AnswerableAreOurs /\ Entries!BatchIsWatched
  BY DEF EntriesInv
<1>2. UNCHANGED <<sourceAlive, scope, generation, runner, batch, pending, batches, work, stopSource,
                  stopped, outcome, wanted, reads>>
  BY DEF Entries!sourceState, Entries!batchState, Entries!callers
<1>3. /\ Len(sourceStack) \in DOMAIN sourceStack /\ Entries!Top \in Entries!Frames
      /\ sourceStack' \in Seq(Entries!Frames)
      /\ DOMAIN sourceStack' = DOMAIN sourceStack \ {Len(sourceStack)}
      /\ \A i \in DOMAIN sourceStack' : sourceStack'[i] = sourceStack[i]
      /\ Entries!Top = sourceStack[Len(sourceStack)]
  BY <1>1, Popped DEF Entries!Top
<1>4. Entries!TypeOK'
  <2>1. Entries!Frames' = Entries!Frames
    BY <1>2 DEF Entries!Frames
  <2>2. stored' \in 0..Len(batches') /\ tasks' \subseteq 1..Len(batches')
    BY <1>1, <1>2 DEF Entries!TypeOK
  <2> QED
    BY <1>1, <1>2, <1>3, <2>1, <2>2 DEF Entries!TypeOK
<1>5. BatchIsCurrent'
  BY <1>1, <1>2 DEF BatchIsCurrent
<1>6. AnswerableAreOurs'
  BY <1>1, <1>2, <1>3 DEF AnswerableAreOurs, Ours
<1>7. Entries!BatchIsWatched'
  <2>1. Entries!Top.at \in {"starting", "answering"}
    BY <1>3 DEF Entries!Frames
  <2>2. Entries!Top.at = "answering" => Entries!Elements(Entries!Top.rest) = {}
    BY DEF Entries!Elements
  <2>3. \A k \in Loads : outcome'[k] = "pending" =>
         \/ k \in DOMAIN reads'
         \/ k \in Entries!Elements(pending') /\ batch' \in tasks'
         \/ \E i \in DOMAIN sourceStack' : sourceStack'[i].at = "answering" /\
              k \in Entries!Elements(sourceStack'[i].rest)
    <3> SUFFICES ASSUME NEW k \in Loads, outcome[k] = "pending", k \notin DOMAIN reads,
                        ~(k \in Entries!Elements(pending) /\ batch \in tasks')
                 PROVE  \E i \in DOMAIN sourceStack' :
                          sourceStack'[i].at = "answering" /\
                            k \in Entries!Elements(sourceStack'[i].rest)
      BY <1>2
    <3>1. ~(k \in Entries!Elements(pending) /\ batch \in tasks)
      BY <1>1 DEF BatchIsCurrent, Entries!Elements
    <3>2. PICK i \in DOMAIN sourceStack : sourceStack[i].at = "answering" /\
            k \in Entries!Elements(sourceStack[i].rest)
      BY <1>1, <3>1 DEF Entries!BatchIsWatched
    <3>3. i # Len(sourceStack)
      BY <1>3, <2>2, <3>2
    <3> QED
      BY <1>3, <3>2, <3>3
  <2>4. batch' # Entries!None =>
          \/ stored' = batch'
          \/ \E i \in DOMAIN sourceStack' : sourceStack'[i] = [at |-> "starting", batch |-> batch']
    <3> SUFFICES ASSUME batch # Entries!None, stored' # batch









































                                                                                                   PROVE  \E i \in DOMAIN sourceStack' : sourceStack'[i] = [at |-> "starting", batch |-> batch]
      BY <1>2
    <3>1. stored # batch
      OBVIOUS
    <3>2. PICK i \in DOMAIN sourceStack : sourceStack[i] = [at |-> "starting", batch |-> batch]
      BY <1>1, <3>1 DEF Entries!BatchIsWatched
    <3>3. i # Len(sourceStack)
      BY <1>3, <3>2
    <3> QED
      BY <1>3, <3>2, <3>3
  <2> QED
    BY <1>1, <1>2, <2>3, <2>4 DEF Entries!BatchIsWatched
<1> QED
  BY <1>4, <1>5, <1>6, <1>7 DEF EntriesInv

LEMMA BatchAnsweredPreserves == ASSUME EntriesInv, Entries!BatchAnswered PROVE EntriesInv'
<1>1. /\ sourceStack # <<>> /\ Entries!Top.at = "answering" /\ Entries!Top.rest = <<>> /\
           sourceStack' = Entries!Pop
      /\ UNCHANGED <<sourceAlive, Entries!sourceState, Entries!batchState, Entries!workerState,
           Entries!callers>>
  BY DEF Entries!BatchAnswered
<1>2. UNCHANGED <<work, tasks, stored, stopSource, stopped>>
  BY <1>1 DEF Entries!workerState
<1>3. batch # Entries!None => batch \in tasks
  BY DEF EntriesInv, BatchIsCurrent
<1> QED
  BY <1>1, <1>2, <1>3, ReturnPreserves

LEMMA StoreTaskPreserves == ASSUME EntriesInv, Entries!StoreTask PROVE EntriesInv'
<1>1. /\ sourceStack # <<>> /\ Entries!Top.at = "starting" /\ batch = Entries!Top.batch /\
           sourceStack' = Entries!Pop
      /\ stored' = batch
      /\ UNCHANGED <<sourceAlive, Entries!sourceState, Entries!batchState, work, tasks,
           stopSource, stopped, Entries!callers>>
  BY DEF Entries!StoreTask, Entries!AcceptsBatch
<1>2. batch # Entries!None => batch \in tasks
  BY DEF EntriesInv, BatchIsCurrent
<1> QED
  BY <1>1, <1>2, ReturnPreserves

LEMMA CancelTaskPreserves == ASSUME EntriesInv, Entries!CancelTask PROVE EntriesInv'
<1>1. /\ sourceStack # <<>> /\ Entries!Top.at = "starting" /\ sourceStack' = Entries!Pop /\
           tasks' = tasks \ {Entries!Top.batch}
      /\ ~(Entries!AcceptsGeneration(batches[Entries!Top.batch]) /\ batch = Entries!Top.batch)
      /\ UNCHANGED <<sourceAlive, Entries!sourceState, Entries!batchState, work, stored,
           stopSource, stopped, Entries!callers>>
  BY DEF Entries!CancelTask, Entries!AcceptsBatch
<1>2. Entries!Top.batch # Entries!None
  <2>1. Entries!Top \in Entries!Frames
    BY <1>1, Popped DEF EntriesInv
  <2> QED
    BY <2>1 DEF Entries!Frames, Entries!None
<1>3. batch # Entries!Top.batch
  BY <1>1, <1>2 DEF EntriesInv, BatchIsCurrent, Entries!AcceptsGeneration
<1>4. batch # Entries!None => batch \in tasks'
  BY <1>1, <1>3 DEF EntriesInv, BatchIsCurrent
<1> QED
  BY <1>1, <1>3, <1>4, ReturnPreserves

\* The next load of the batch is answered; the others wait on in the same call.
LEMMA AnswerLoadPreserves == ASSUME EntriesInv, Entries!AnswerLoad PROVE EntriesInv'
<1> DEFINE l == Head(Entries!Top.rest)
           f == [Entries!Top EXCEPT !.rest = Tail(@)]
<1>1. Entries!TypeOK /\ BatchIsCurrent /\ AnswerableAreOurs /\ Entries!BatchIsWatched
  BY DEF EntriesInv
<1>2. /\ sourceStack # <<>> /\ Entries!Top.at = "answering" /\ Entries!Top.rest # <<>>
      /\ sourceStack' = [sourceStack EXCEPT ![Len(sourceStack)].rest = Tail(@)]
      /\ UNCHANGED <<sourceAlive, scope, generation, runner, batch, pending, batches, work, tasks,
                     stored, stopSource, stopped, wanted, reads>>
  BY DEF Entries!AnswerLoad, Entries!sourceState, Entries!batchState, Entries!workerState
<1>3. /\ Len(sourceStack) \in DOMAIN sourceStack /\ Entries!Top \in Entries!Frames /\
           Entries!Top = sourceStack[Len(sourceStack)]
      /\ Entries!Top.rest \in Seq(Loads) /\ Entries!Top.batch \in 1..Len(batches)
  BY <1>1, <1>2, Popped DEF Entries!Top, Entries!Frames
<1>4. /\ l \in Loads /\ Tail(Entries!Top.rest) \in Seq(Loads)
      /\ Entries!Elements(Entries!Top.rest) = {l} \cup Entries!Elements(Tail(Entries!Top.rest))
  BY <1>2, <1>3, ElementsOf
<1>5. f = [at |-> "answering", batch |-> Entries!Top.batch, rest |-> Tail(Entries!Top.rest)]
  <2>1. Entries!Top \in [at : {"answering"}, batch : 1..Len(batches), rest : Seq(Loads)]
    BY <1>2, <1>3 DEF Entries!Frames
  <2>2. PICK b \in 1..Len(batches), r \in Seq(Loads) :
          Entries!Top = [at |-> "answering", batch |-> b, rest |-> r]
    BY <2>1
  <2>3. \A t : [[at |-> "answering", batch |-> b, rest |-> r] EXCEPT !.rest = t]
              = [at |-> "answering", batch |-> b, rest |-> t]
    OBVIOUS
  <2>4. f = [[at |-> "answering", batch |-> b, rest |-> r] EXCEPT !.rest = Tail(Entries!Top.rest)]
    BY <2>2
  <2>5. Entries!Top.batch = b
    BY <2>2
  <2> QED
    BY <2>3, <2>4, <2>5
<1>6. /\ sourceStack' \in Seq(Entries!Frames) /\ DOMAIN sourceStack' = DOMAIN sourceStack
      /\ \A i \in DOMAIN sourceStack : i # Len(sourceStack) => sourceStack'[i] = sourceStack[i]
      /\ sourceStack'[Len(sourceStack)] = f
  <2>1. sourceStack' = [sourceStack EXCEPT ![Len(sourceStack)] = f]
    BY <1>2 DEF Entries!Top
  <2>2. f \in Entries!Frames
    BY <1>3, <1>4, <1>5 DEF Entries!Frames
  <2> QED
    BY <1>1, <1>3, <2>1, <2>2 DEF Entries!TypeOK
<1>7. PICK how \in {"delivered", "dropped"} : outcome' = Entries!SettleAll({l}, how)
  BY DEF Entries!AnswerLoad
<1>8. /\ outcome' \in [Loads -> {"absent", "pending", "delivered", "dropped"}]
      /\ \A k \in Loads : outcome'[k] = "pending" => outcome[k] = "pending" /\ k # l
      /\ \A L \in SUBSET Loads : Ours(L) => Ours(L)'
  BY <1>1, <1>2, <1>4, <1>7, Settled
<1> HIDE DEF l, f
<1>9. Entries!TypeOK'
  <2>1. Entries!Frames' = Entries!Frames
    BY <1>2 DEF Entries!Frames
  <2> QED
    BY <1>1, <1>2, <1>6, <1>8, <2>1 DEF Entries!TypeOK
<1>10. BatchIsCurrent'
  BY <1>1, <1>2 DEF BatchIsCurrent
<1>11. AnswerableAreOurs'
  <2>1. Ours(Entries!Elements(pending))'
    BY <1>1, <1>2, <1>8, WaitingAreLoads DEF AnswerableAreOurs
  <2>2. \A k \in DOMAIN reads' : reads'[k] = generation' => Ours({k})'
    BY <1>1, <1>2, <1>8 DEF AnswerableAreOurs, Entries!TypeOK
  <2>3. (\A i \in DOMAIN sourceStack :
           sourceStack[i].at = "answering" /\ batches[sourceStack[i].batch] = generation
             => Ours(Entries!Elements(sourceStack[i].rest)))'
    <3> SUFFICES ASSUME NEW i \in DOMAIN sourceStack, sourceStack'[i].at = "answering",
                        batches'[sourceStack'[i].batch] = generation'
                 PROVE  Ours(Entries!Elements(sourceStack[i].rest))'
      BY <1>6
    <3>1. sourceStack[i].at = "answering" /\ sourceStack[i].batch = sourceStack'[i].batch
          /\ Entries!Elements(sourceStack'[i].rest) \subseteq Entries!Elements(sourceStack[i].rest)
      BY <1>2, <1>3, <1>4, <1>5, <1>6
    <3>2. Ours(Entries!Elements(sourceStack[i].rest)) /\
            Entries!Elements(sourceStack[i].rest) \subseteq Loads
      BY <1>1, <1>2, <3>1, WaitingAreLoads DEF AnswerableAreOurs
    <3>3. \A k \in Entries!Elements(sourceStack[i].rest) : outcome'[k] # "absent" /\
            wanted'[k] = scope'
      BY <1>8, <3>2 DEF Ours
    <3> QED
      BY <3>1, <3>3 DEF Ours
  <2> QED
    BY <2>1, <2>2, <2>3 DEF AnswerableAreOurs
<1>12. Entries!BatchIsWatched'
  <2>1. \A k \in Loads : outcome'[k] = "pending" =>
         \/ k \in DOMAIN reads'
         \/ k \in Entries!Elements(pending') /\ batch' \in tasks'
         \/ \E i \in DOMAIN sourceStack' : sourceStack'[i].at = "answering" /\
              k \in Entries!Elements(sourceStack'[i].rest)
    <3> SUFFICES ASSUME NEW k \in Loads, outcome'[k] = "pending", k \notin DOMAIN reads,
                        ~(k \in Entries!Elements(pending) /\ batch \in tasks)
                 PROVE  \E i \in DOMAIN sourceStack' :
                          sourceStack'[i].at = "answering" /\
                            k \in Entries!Elements(sourceStack'[i].rest)
      BY <1>2
    <3>1. outcome[k] = "pending" /\ k # l
      BY <1>8
    <3>2. PICK i \in DOMAIN sourceStack : sourceStack[i].at = "answering" /\
            k \in Entries!Elements(sourceStack[i].rest)
      BY <1>1, <3>1 DEF Entries!BatchIsWatched
    <3>3. CASE i = Len(sourceStack)
      <4>1. k \in Entries!Elements(Tail(Entries!Top.rest))
        BY <1>3, <1>4, <3>1, <3>2, <3>3
      <4>2. sourceStack'[Len(sourceStack)].at = "answering" /\
              sourceStack'[Len(sourceStack)].rest = Tail(Entries!Top.rest)
        BY <1>5, <1>6
      <4> QED
        BY <1>3, <1>6, <4>1, <4>2
    <3>4. CASE i # Len(sourceStack)
      BY <1>6, <3>2, <3>4
    <3> QED
      BY <3>3, <3>4
  <2>2. batch' # Entries!None =>
          \/ stored' = batch'
          \/ \E i \in DOMAIN sourceStack' : sourceStack'[i] = [at |-> "starting", batch |-> batch']
    <3> SUFFICES ASSUME batch # Entries!None, stored # batch









































                                                                                                   PROVE  \E i \in DOMAIN sourceStack' : sourceStack'[i] = [at |-> "starting", batch |-> batch]
      BY <1>2
    <3>1. PICK i \in DOMAIN sourceStack : sourceStack[i] = [at |-> "starting", batch |-> batch]
      BY <1>1 DEF Entries!BatchIsWatched
    <3>2. i # Len(sourceStack)
      BY <1>2, <1>3, <3>1
    <3> QED
      BY <1>6, <3>1, <3>2
  <2> QED
    BY <1>1, <1>2, <2>1, <2>2 DEF Entries!BatchIsWatched
<1> QED
  BY <1>9, <1>10, <1>11, <1>12 DEF EntriesInv

-----------------------------------------------------------------------------
(* The theorems. *)

LEMMA EntriesNextPreserves == ASSUME Entries!ConstantsAreSound, EntriesInv,
  [Entries!Next]_(Entries!vars) PROVE EntriesInv'
<1>1. CASE UNCHANGED Entries!vars
  <2>1. UNCHANGED <<sourceAlive, scope, generation, runner, batch, pending, batches, work, tasks,
                    stored, stopSource, stopped, outcome, wanted, reads, sourceStack>>
    BY <1>1 DEF Entries!vars, Entries!sourceState, Entries!batchState, Entries!workerState,
        Entries!callers
  <2>2. Entries!TypeOK'
    BY <2>1 DEF EntriesInv, Entries!TypeOK, Entries!Frames
  <2>3. BatchIsCurrent' /\ AnswerableAreOurs' /\ Entries!BatchIsWatched'
    BY <2>1 DEF EntriesInv, BatchIsCurrent, AnswerableAreOurs, Entries!BatchIsWatched, Ours
  <2> QED
    BY <2>2, <2>3 DEF EntriesInv
<1>2. ASSUME NEW l \in Loads, NEW s \in Scopes, Entries!Load(l, s) PROVE EntriesInv'
  BY <1>2, JoinBatchPreserves, LoadCachedPreserves, LoadCurrentPreserves, LoadOtherPreserves,
     LoadImageDataPreserves DEF Entries!Load
<1>3. ASSUME NEW l \in Loads, Entries!CancelLoad(l) \/ Entries!FinishRead(l) PROVE EntriesInv'
  BY <1>3, CancelLoadPreserves, FinishReadPreserves
<1>4. ASSUME NEW s \in Scopes, Entries!SwitchToOpenedCollectionScope(s) PROVE EntriesInv'
  BY <1>4, SwitchPreserves
<1>5. CASE Entries!Clear \/ Entries!Destroy \/ Entries!LoadSynchronously
  BY <1>5, ClearPreserves, EntriesDestroyPreserves, LoadSynchronouslyPreserves
<1>6. ASSUME NEW b \in 1..Len(batches), Entries!WorkerLoads(b) \/ Entries!Complete(b)
        PROVE EntriesInv'
  BY <1>6, WorkerLoadsPreserves, FinishEntryLoadPreserves, IgnoreCompletionPreserves
  DEF Entries!Complete
<1>7. CASE Entries!Step
  BY <1>7, AnswerLoadPreserves, BatchAnsweredPreserves, StoreTaskPreserves,
     CancelTaskPreserves DEF Entries!Step
<1> QED
  BY <1>1, <1>2, <1>3, <1>4, <1>5, <1>6, <1>7 DEF Entries!Next

\* A load is answered only while the collection it asked for is the open one.
LEMMA StepAnswersOurs ==
  ASSUME EntriesInv, Entries!Next, NEW l \in Loads, outcome[l] = "pending",
    outcome'[l] = "delivered"
  PROVE  wanted[l] = scope
<1>1. Entries!TypeOK /\ AnswerableAreOurs
  BY DEF EntriesInv
<1>2. outcome' # outcome
  OBVIOUS
<1>3. ASSUME NEW k \in Loads, NEW s \in Scopes, Entries!Load(k, s) PROVE FALSE
  <2>1. outcome[k] = "absent"
    BY <1>3 DEF Entries!Load, Entries!JoinBatch, Entries!LoadCached, Entries!LoadCurrent,
        Entries!LoadOther, Entries!LoadImageData, Entries!Ask
  <2>2. k # l
    BY <2>1
  <2> QED
    BY <1>1, <1>3, <2>2
    DEF Entries!Load, Entries!JoinBatch, Entries!LoadCached, Entries!LoadCurrent,
        Entries!LoadOther, Entries!LoadImageData, Entries!SettleAll, Entries!TypeOK
<1>4. ASSUME NEW k \in Loads, Entries!CancelLoad(k) PROVE FALSE
  BY <1>1, <1>4 DEF Entries!CancelLoad, Entries!TypeOK
<1>5. ASSUME NEW k \in Loads, Entries!FinishRead(k) PROVE wanted[l] = scope
  <2>1. k = l /\ reads[l] = generation /\ l \in DOMAIN reads
    BY <1>1, <1>5 DEF Entries!FinishRead, Entries!SettleAll, Entries!AcceptsGeneration,
        Entries!TypeOK
  <2> QED
    BY <1>1, <2>1 DEF AnswerableAreOurs, Ours
<1>6. CASE Entries!Clear \/ Entries!Destroy \/ \E s \in Scopes : Entries!SwitchToOpenedCollectionScope(s)
  BY <1>1, <1>6 DEF Entries!Clear, Entries!Destroy, Entries!SwitchToOpenedCollectionScope,
      Entries!SettleAll, Entries!TypeOK
<1>7. CASE Entries!AnswerLoad
  <2>1. /\ sourceStack # <<>> /\ Entries!Top.at = "answering" /\ Entries!Top.rest # <<>> /\
             l = Head(Entries!Top.rest)
        /\ batches[Entries!Top.batch] = generation
    BY <1>1, <1>7 DEF Entries!AnswerLoad, Entries!SettleAll, Entries!AcceptsGeneration,
        Entries!TypeOK
  <2>2. Len(sourceStack) \in DOMAIN sourceStack /\ Entries!Top = sourceStack[Len(sourceStack)]
    BY <1>1, <2>1, Popped DEF Entries!Top
  <2>3. l \in Entries!Elements(Entries!Top.rest)
    BY <1>1, <2>1, <2>2, WaitingAreLoads, ElementsOf
  <2> QED
    BY <1>1, <2>1, <2>2, <2>3 DEF AnswerableAreOurs, Ours
<1>8. CASE Entries!LoadSynchronously
  BY <1>2, <1>8 DEF Entries!LoadSynchronously, Entries!callers
<1>9. ASSUME NEW b \in 1..Len(batches), Entries!WorkerLoads(b) \/ Entries!Complete(b) PROVE FALSE
  BY <1>2, <1>9 DEF Entries!WorkerLoads, Entries!Complete, Entries!FinishEntryLoad,
      Entries!IgnoreCompletion, Entries!callers
<1>10. CASE Entries!BatchAnswered \/ Entries!StoreTask \/ Entries!CancelTask
  BY <1>2, <1>10 DEF Entries!BatchAnswered, Entries!StoreTask, Entries!CancelTask, Entries!callers
<1> QED
  BY <1>3, <1>4, <1>5, <1>6, <1>7, <1>8, <1>9, <1>10 DEF Entries!Next, Entries!Step

-----------------------------------------------------------------------------
(* The specification the proofs are about is the one that is composed.     *)

LEMMA DeletionIsThat ==
  /\ Deletion!ConstantsAreSound <=> DeletionProofs!ConstantsAreSound
  /\ Deletion!Init <=> DeletionProofs!Init
  /\ Deletion!Next <=> DeletionProofs!Next
  /\ Deletion!vars = DeletionProofs!vars /\ Deletion!vars' = DeletionProofs!vars'
<1>1. Deletion!ConstantsAreSound <=> DeletionProofs!ConstantsAreSound
  BY DEF Deletion!ConstantsAreSound, DeletionProofs!ConstantsAreSound
<1>2. Deletion!Init <=> DeletionProofs!Init
  BY Zenon DEF Deletion!Init, DeletionProofs!Init, Deletion!None, DeletionProofs!None,
               Deletion!Idle, DeletionProofs!Idle, Deletion!NoFallback,
               DeletionProofs!NoFallback
<1>3. Deletion!Next <=> DeletionProofs!Next
  BY Zenon DEF Deletion!None, DeletionProofs!None, Deletion!Deletions,
               DeletionProofs!Deletions, Deletion!controller, DeletionProofs!controller,
               Deletion!fallbackState, DeletionProofs!fallbackState, Deletion!vars,
               DeletionProofs!vars, Deletion!Idle, DeletionProofs!Idle, Deletion!NoFallback,
               DeletionProofs!NoFallback, Deletion!Frame, DeletionProofs!Frame,
               Deletion!EventLoop, DeletionProofs!EventLoop, Deletion!Top, DeletionProofs!Top,
               Deletion!Below, DeletionProofs!Below, Deletion!At, DeletionProofs!At,
               Deletion!Return, DeletionProofs!Return, Deletion!Continue,
               DeletionProofs!Continue, Deletion!CanCall, DeletionProofs!CanCall,
               Deletion!AcceptsFileDeletion, DeletionProofs!AcceptsFileDeletion,
               Deletion!AcceptsClaimedFileDeletion, DeletionProofs!AcceptsClaimedFileDeletion,
               Deletion!CancelFallback, DeletionProofs!CancelFallback, Deletion!PublishSettled,
               DeletionProofs!PublishSettled, Deletion!DeleteDisplayedFile,
               DeletionProofs!DeleteDisplayedFile, Deletion!PublishStarted,
               DeletionProofs!PublishStarted, Deletion!CallProvider,
               DeletionProofs!CallProvider, Deletion!KeepJob, DeletionProofs!KeepJob,
               Deletion!Answering, DeletionProofs!Answering, Deletion!FileDeleted,
               DeletionProofs!FileDeleted, Deletion!FileKept, DeletionProofs!FileKept,
               Deletion!Ask, DeletionProofs!Ask, Deletion!OpenFallback,
               DeletionProofs!OpenFallback, Deletion!OpenNoFallback,
               DeletionProofs!OpenNoFallback, Deletion!Settle, DeletionProofs!Settle,
               Deletion!StartCancelling, DeletionProofs!StartCancelling,
               Deletion!CancelDeletion, DeletionProofs!CancelDeletion,
               Deletion!CancelFileReturns, DeletionProofs!CancelFileReturns,
               Deletion!CancelFallbackReturns, DeletionProofs!CancelFallbackReturns,
               Deletion!SettledReturns, DeletionProofs!SettledReturns, Deletion!ShowImage,
               DeletionProofs!ShowImage, Deletion!Destroy, DeletionProofs!Destroy,
               Deletion!ClaimJobRequest, DeletionProofs!ClaimJobRequest,
               Deletion!FallbackFound, DeletionProofs!FallbackFound, Deletion!TryBook,
               DeletionProofs!TryBook, Deletion!NothingFound, DeletionProofs!NothingFound,
               Deletion!RetainIfCurrent, DeletionProofs!RetainIfCurrent, Deletion!AskReturns,
               DeletionProofs!AskReturns, Deletion!DeletionContinues,
               DeletionProofs!DeletionContinues, Deletion!FallbackContinues,
               DeletionProofs!FallbackContinues, Deletion!ProviderAnswers,
               DeletionProofs!ProviderAnswers, Deletion!CandidatesArrive,
               DeletionProofs!CandidatesArrive, Deletion!Next, DeletionProofs!Next
<1>4. Deletion!vars = DeletionProofs!vars /\ Deletion!vars' = DeletionProofs!vars'
  BY DEF Deletion!vars, DeletionProofs!vars, Deletion!controller, DeletionProofs!controller,
         Deletion!fallbackState, DeletionProofs!fallbackState
<1> QED
  BY <1>1, <1>2, <1>3, <1>4

LEMMA OpeningIsThat ==
  /\ Opening!ConstantsAreSound <=> OpeningProofs!ConstantsAreSound
  /\ Opening!Init <=> OpeningProofs!Init
  /\ Opening!Next <=> OpeningProofs!Next
  /\ Opening!vars = OpeningProofs!vars /\ Opening!vars' = OpeningProofs!vars'
<1>1. Opening!ConstantsAreSound <=> OpeningProofs!ConstantsAreSound
  BY Zenon DEF Opening!ConstantsAreSound, OpeningProofs!ConstantsAreSound, Opening!Sources,
               OpeningProofs!Sources, Opening!None, OpeningProofs!None
<1>2. Opening!Init <=> OpeningProofs!Init
  BY Zenon DEF Opening!Init, OpeningProofs!Init, Opening!None, OpeningProofs!None,
    Opening!NoSession,
               OpeningProofs!NoSession
<1>3. Opening!Next <=> OpeningProofs!Next
  BY Zenon DEF Opening!None, OpeningProofs!None, Opening!Sources, OpeningProofs!Sources,
    Opening!Container,
               OpeningProofs!Container, Opening!SameScopePage, OpeningProofs!SameScopePage,
               Opening!loading, OpeningProofs!loading, Opening!viewport,
               OpeningProofs!viewport, Opening!history, OpeningProofs!history, Opening!vars,
               OpeningProofs!vars, Opening!NoSession, OpeningProofs!NoSession, Opening!Frame,
               OpeningProofs!Frame, Opening!Told, OpeningProofs!Told, Opening!Top,
               OpeningProofs!Top, Opening!Below, OpeningProofs!Below, Opening!CanCall,
               OpeningProofs!CanCall, Opening!Superseded, OpeningProofs!Superseded,
               Opening!BeginOperation, OpeningProofs!BeginOperation, Opening!CancelActiveLoad,
               OpeningProofs!CancelActiveLoad, Opening!CurrentSource,
               OpeningProofs!CurrentSource, Opening!SourceLoadPlan,
               OpeningProofs!SourceLoadPlan, Opening!ClearDeletedImagePlan,
               OpeningProofs!ClearDeletedImagePlan, Opening!ClearImagePlan,
               OpeningProofs!ClearImagePlan, Opening!FinalStateIsValid,
               OpeningProofs!FinalStateIsValid, Opening!Apply, OpeningProofs!Apply,
               Opening!Finished, OpeningProofs!Finished, Opening!Failed, OpeningProofs!Failed,
               Opening!FinishLoadWithError, OpeningProofs!FinishLoadWithError,
               Opening!FinishVideo, OpeningProofs!FinishVideo, Opening!Replace,
               OpeningProofs!Replace, Opening!FromEventLoop, OpeningProofs!FromEventLoop,
               Opening!CutOff, OpeningProofs!CutOff, Opening!LoadSource,
               OpeningProofs!LoadSource, Opening!ClearDeletedImage,
               OpeningProofs!ClearDeletedImage, Opening!FinishContainerNavigationLoadWithError,
               OpeningProofs!FinishContainerNavigationLoadWithError, Opening!CallOutReturns,
               OpeningProofs!CallOutReturns, Opening!Op, OpeningProofs!Op, Opening!Rest,
               OpeningProofs!Rest, Opening!DispatchEnds, OpeningProofs!DispatchEnds,
               Opening!CancelOpen, OpeningProofs!CancelOpen, Opening!CallOut,
               OpeningProofs!CallOut, Opening!Change, OpeningProofs!Change,
               Opening!ChangeState, OpeningProofs!ChangeState, Opening!PrepareSourceLoad,
               OpeningProofs!PrepareSourceLoad, Opening!ClearViewportTarget,
               OpeningProofs!ClearViewportTarget, Opening!ClearPresentationImage,
               OpeningProofs!ClearPresentationImage, Opening!TargetCleared,
               OpeningProofs!TargetCleared, Opening!FinishEmpty, OpeningProofs!FinishEmpty,
               Opening!FinishEmptySourceLoad, OpeningProofs!FinishEmptySourceLoad,
               Opening!OpenEmpty, OpeningProofs!OpenEmpty, Opening!BeginSourceLoad,
               OpeningProofs!BeginSourceLoad, Opening!OperationIsCurrent,
               OpeningProofs!OperationIsCurrent, Opening!ReportPlan, OpeningProofs!ReportPlan,
               Opening!NothingToStart, OpeningProofs!NothingToStart, Opening!Start,
               OpeningProofs!Start, Opening!StartVideo, OpeningProofs!StartVideo,
               Opening!StartTarget, OpeningProofs!StartTarget, Opening!IsCurrentSession,
               OpeningProofs!IsCurrentSession, Opening!ResolveProviderImage,
               OpeningProofs!ResolveProviderImage, Opening!Resolve, OpeningProofs!Resolve,
               Opening!TargetStarted, OpeningProofs!TargetStarted,
               Opening!StartOpenedCollectionLoad, OpeningProofs!StartOpenedCollectionLoad,
               Opening!AskReturns, OpeningProofs!AskReturns, Opening!SnapshotArrives,
               OpeningProofs!SnapshotArrives, Opening!FinishOpenedCollectionCandidates,
               OpeningProofs!FinishOpenedCollectionCandidates,
               Opening!FailOpenedCollectionLoad, OpeningProofs!FailOpenedCollectionLoad,
               Opening!IgnoreSnapshot, OpeningProofs!IgnoreSnapshot, Opening!SourcePrepared,
               OpeningProofs!SourcePrepared, Opening!VideoAvailabilityProbed,
               OpeningProofs!VideoAvailabilityProbed, Opening!SessionSuperseded,
               OpeningProofs!SessionSuperseded, Opening!Projection, OpeningProofs!Projection,
               Opening!FinishViewportImageLoadReady,
               OpeningProofs!FinishViewportImageLoadReady,
               Opening!FinishViewportImageLoadWithError,
               OpeningProofs!FinishViewportImageLoadWithError, Opening!Dispatch,
               OpeningProofs!Dispatch, Opening!Open, OpeningProofs!Open, Opening!Loader,
               OpeningProofs!Loader, Opening!Snapshots, OpeningProofs!Snapshots,
               Opening!Viewport, OpeningProofs!Viewport, Opening!Next, OpeningProofs!Next
<1>4. Opening!vars = OpeningProofs!vars /\ Opening!vars' = OpeningProofs!vars'
  BY DEF Opening!vars, OpeningProofs!vars, Opening!loading, OpeningProofs!loading, Opening!viewport,
         OpeningProofs!viewport, Opening!history, OpeningProofs!history
<1> QED
  BY <1>1, <1>2, <1>3, <1>4

-----------------------------------------------------------------------------
(* Every part takes its own steps or rests. *)

LEMMA Steps ==
  /\ MCInit => Init /\ Entries!Init /\ Opening!Init /\ Deletion!Init
  /\ [MCNext]_allVars => /\ [Next]_vars
                         /\ [Entries!Next]_(Entries!vars)
                         /\ [Opening!Next]_(Opening!vars)
                         /\ [Deletion!Next]_(Deletion!vars)
<1>1. MCInit => Init /\ Entries!Init /\ Opening!Init /\ Deletion!Init
  BY DEF MCInit
<1>2. UNCHANGED candidateVars => UNCHANGED vars
  BY DEF candidateVars, vars, directory, clients
<1>3. UNCHANGED entryVars => UNCHANGED Entries!vars
  BY DEF entryVars, Entries!vars, Entries!sourceState, Entries!batchState, Entries!workerState,
         Entries!callers
<1>4. UNCHANGED openVars => UNCHANGED Opening!vars
  BY DEF openVars, Opening!vars, Opening!loading, Opening!viewport, Opening!history
<1>5. UNCHANGED deletionVars => UNCHANGED Deletion!vars
  BY DEF deletionVars, Deletion!vars, Deletion!controller, Deletion!fallbackState
<1>6. UNCHANGED allVars => /\ UNCHANGED candidateVars /\ UNCHANGED entryVars
                           /\ UNCHANGED openVars /\ UNCHANGED deletionVars
  BY DEF allVars
<1>7. MCNext => /\ Next \/ UNCHANGED candidateVars
                /\ Entries!Next \/ UNCHANGED entryVars
                /\ Opening!Next \/ UNCHANGED openVars
                /\ Deletion!Next \/ UNCHANGED deletionVars
  BY DEF MCNext, NextCandidates, NextEntries, NextOpening, NextDeletion
<1> QED
  BY <1>1, <1>2, <1>3, <1>4, <1>5, <1>6, <1>7

LEMMA CandidatesHold == MCSpec => []CandidatesInv
<1>1. MCInit => CandidatesInv
  BY Steps, CandidatesInitHolds
<1>2. CandidatesInv /\ [MCNext]_allVars => CandidatesInv'
  BY Steps, CandidatesNextPreserves
<1> QED
  BY <1>1, <1>2, PTL DEF MCSpec

\* The batch of the opened collection is of its generation and somebody will answer every
\* waiting load, whatever the composed document does.
THEOREM EntriesInductive == MCSpec => []EntriesInv
<1>1. MCInit => EntriesInv
  BY Steps, EntriesAssumption, EntriesInitHolds
<1>2. EntriesInv /\ [MCNext]_allVars => EntriesInv'
  BY Steps, EntriesAssumption, EntriesNextPreserves
<1> QED
  BY <1>1, <1>2, PTL DEF MCSpec

LEMMA OpeningInductive == MCSpec => []OpeningProofs!IInv
<1>1. MCInit => OpeningProofs!IInv
  BY Steps, OpeningIsThat, OpeningAssumption, OpeningProofs!InitHolds
<1>2. OpeningProofs!IInv /\ [MCNext]_allVars => OpeningProofs!IInv'
  BY Steps, OpeningIsThat, OpeningAssumption, OpeningProofs!NextPreserves
<1> QED
  BY <1>1, <1>2, PTL DEF MCSpec

LEMMA DeletionInductive == MCSpec => []DeletionProofs!IInv
<1>1. MCInit => DeletionProofs!IInv
  BY Steps, DeletionIsThat, DeletionAssumption, DeletionProofs!InitHolds
<1>2. DeletionProofs!IInv /\ [MCNext]_allVars => DeletionProofs!IInv'
  BY Steps, DeletionIsThat, DeletionAssumption, DeletionProofs!NextPreserves
<1> QED
  BY <1>1, <1>2, PTL DEF MCSpec

\* In the composed document every waiting load of the opened collection has somebody left
\* to answer it, and the batch that will can still be stopped.
THEOREM EntriesAreWatched == MCSpec => []BatchIsWatched
<1>1. EntriesInv => BatchIsWatched
  BY DEF EntriesInv, BatchIsWatched
<1> QED
  BY <1>1, EntriesInductive, PTL

\* In the composed document a load is answered only while the collection it asked for is
\* the open one.
THEOREM EntriesAnswersAreCurrent == MCSpec => AnswersAreCurrent
<1>1. EntriesInv /\ [MCNext]_allVars =>
        [\A l \in Loads : outcome[l] = "pending" /\ outcome'[l] = "delivered"
           => wanted[l] = scope]_(Entries!vars)
  BY Steps, StepAnswersOurs
<1> QED
  BY <1>1, EntriesInductive, PTL DEF MCSpec, AnswersAreCurrent, Entries!AnswersAreCurrent

\* In the composed document the deletion at rest is whole: what subscribers were told is
\* true, the provider at work can be cancelled, and no unwanted request is left.
THEOREM DeletionRestsWhole == MCSpec => []RestingIsWhole
<1>1. DeletionProofs!IInv => DeletionProofs!RestingIsWhole
  BY DeletionProofs!RestsWhole
<1>2. DeletionProofs!IInv => RestingIsWhole
  BY <1>1 DEF DeletionProofs!RestingIsWhole, RestingIsWhole, Deletion!RestingIsWhole,
              DeletionProofs!None, Deletion!None
<1> QED
  BY <1>2, DeletionInductive, PTL

\* In the composed document no part of an open ends in a state the code aborts on.
THEOREM OpeningNeverFatal == MCSpec => []NeverFatal
<1>1. OpeningProofs!IInv => NeverFatal
  BY DEF OpeningProofs!IInv, OpeningProofs!NeverFatal, NeverFatal, Opening!NeverFatal
<1> QED
  BY <1>1, OpeningInductive, PTL

\* In the composed document a load in progress at rest has a session that somebody answers,
\* unless it was cut off, and a session is left only while the document loads.
THEOREM OpeningIsServed == MCSpec => []LoadingIsServed
<1>1. OpeningProofs!IInv => OpeningProofs!LoadingIsServed
  BY OpeningProofs!RestIsServed
<1>2. OpeningProofs!IInv => LoadingIsServed
  BY <1>1 DEF OpeningProofs!LoadingIsServed, LoadingIsServed, Opening!LoadingIsServed,
              OpeningProofs!NoSession, Opening!NoSession, OpeningProofs!None, Opening!None
<1> QED
  BY <1>2, OpeningInductive, PTL

\* In the composed document whoever waits for or watches a directory is served.
THEOREM ListingIsServed == MCSpec => []ClientsAreServed
<1>1. CandidatesInv => ClientsAreServed
  BY DEF CandidatesInv
<1> QED
  BY <1>1, CandidatesHold, PTL

\* Every variable of the composed document keeps its type.
THEOREM EveryTypeCorrect == MCSpec => []EveryTypeOK
<1>1. CandidatesInv => TypeOK
  BY DEF CandidatesInv
<1>2. EntriesInv => Entries!TypeOK
  BY DEF EntriesInv
<1>3. OpeningProofs!IInv => Opening!TypeOK
  BY Zenon DEF OpeningProofs!IInv, OpeningProofs!TypeOK, Opening!TypeOK, OpeningProofs!Frames,
               Opening!Frames, OpeningProofs!Ops, Opening!Ops, OpeningProofs!Sources,
               Opening!Sources, OpeningProofs!None, Opening!None
<1>4. DeletionProofs!IInv => Deletion!TypeOK
  BY Zenon DEF DeletionProofs!IInv, DeletionProofs!TypeOK, Deletion!TypeOK,
               DeletionProofs!Deletions, Deletion!Deletions, DeletionProofs!RequestIds,
               Deletion!RequestIds, DeletionProofs!Frames,
               Deletion!Frames, DeletionProofs!None, Deletion!None
<1> QED
  BY <1>1, <1>2, <1>3, <1>4, CandidatesHold, EntriesInductive, OpeningInductive,
     DeletionInductive, PTL DEF EveryTypeOK
=============================================================================
