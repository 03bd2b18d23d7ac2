---------------------------- MODULE PredecodeLoads ----------------------------
(***************************************************************************)
(* The decodes that prepare the neighbours of the displayed page ahead of  *)
(* navigation: PredecodeLoadState, the request queue of PredecodeCache,    *)
(* PredecodeActiveDecodeStore and PredecodeLoadController, as operators on *)
(* a record of their state.  PredecodeScheduler uses them.                 *)
(*                                                                         *)
(* A page stands for a DisplayedImageLocation.  Window keys carry no       *)
(* source revision (PredecodeCache::setWindowLocations), so two requests   *)
(* are the same work when page and scope are equal (samePredecodeWork), a  *)
(* cached image never stands in for a request (hasImage), and the images   *)
(* of the cache have no influence on what is loaded: they are left out.    *)
(***************************************************************************)
EXTENDS Integers, Sequences, FiniteSets

CONSTANTS
  LastPage,       \* the number of pages of the opened collection
  ParallelLimit,  \* PredecodeSourceProfile::parallelLimit
  None            \* an empty std::optional

ASSUME PagesAssumption == LastPage \in Nat
ASSUME LimitAssumption == ParallelLimit \in Nat \ {0}

Pages == 1 .. LastPage

SnapshotScope(revision) == <<"snapshot", revision>>
FallbackScope(generation) == <<"fallback", generation>>
Scopes == {"snapshot", "fallback"} \X Nat

Works == [page : Pages, scope : Scopes]
Windows == [foreground : Pages, scope : Scopes, generation : Nat, limit : {0, ParallelLimit}]
Decodes == [page : Pages, scope : Scopes, generation : Nat, retiring : BOOLEAN]

LoadStates ==
  [window : Windows \cup {None},  \* PredecodeLoadState::m_activeWindow
   pages : Seq(Pages),            \* PredecodeCache::m_windowKeys, by priority
   queue : Seq(Works),            \* PredecodeCache::m_queue
   completed : SUBSET Works,      \* PredecodeCache::m_completedWork
   displayed : SUBSET Pages,      \* PredecodeDisplayedHistory::m_currentLocations
   active : SUBSET Decodes]       \* PredecodeActiveDecodeStore::m_entries

NoLoads ==
  [window |-> None, pages |-> <<>>, queue |-> <<>>, completed |-> {}, displayed |-> {},
   active |-> {}]

Elements(s) == {s[i] : i \in 1 .. Len(s)}

Kept(s, S) ==  \* the elements of s that are in S, in their order
  LET upTo[n \in 0 .. Len(s)] ==
        IF n = 0 THEN <<>>
        ELSE IF s[n] \in S THEN Append(upTo[n - 1], s[n]) ELSE upTo[n - 1]
  IN upTo[Len(s)]

Work(page, scope) == [page |-> page, scope |-> scope]

-----------------------------------------------------------------------------
(* What stops loads. *)

CancelBackground(l) == [l EXCEPT !.window = None, !.queue = <<>>]  \* of the load state

CancelDecodes(l) ==  \* a canceled decode stays in the store until its job retires
  [l EXCEPT !.active = {[e EXCEPT !.retiring = TRUE] : e \in @}]

ClearWindow(l) == [l EXCEPT !.pages = <<>>, !.queue = <<>>]

ClearLoads(l) == [NoLoads EXCEPT !.active = CancelDecodes(l).active]

RetireBackgroundLoad(l, page) ==  \* the foreground takes the page over
  [l EXCEPT !.queue = Kept(@, {r \in Elements(@) : r.page # page}),
            !.window = IF @ = None THEN @ ELSE [@ EXCEPT !.foreground = page],
            !.active = {IF e.page = page THEN [e EXCEPT !.retiring = TRUE] ELSE e : e \in @}]

CacheDisplayed(l, pages) == [l EXCEPT !.displayed = pages]

-----------------------------------------------------------------------------
(* What starts them. *)

CoversExactly(active, work) ==  \* a mutation: a retiring decode no longer holds its page
  \E e \in active : e.page = work.page /\ e.scope = work.scope

Covers(active, work) ==  \* a retiring decode covers its page in every scope
  \E e \in active : e.page = work.page /\ (e.retiring \/ e.scope = work.scope)

RetainCompleted(l) ==
  {w \in l.completed : w.scope = l.window.scope /\ w.page \in Elements(l.pages)}

EnqueueMissing(l) ==
  LET completed == RetainCompleted(l)
      IsMissing(p) ==
        LET work == Work(p, l.window.scope) IN
        /\ p \notin l.displayed \cup {l.window.foreground}
        /\ work \notin completed \cup Elements(l.queue)
        /\ ~Covers(l.active, work)
      missing == Kept(l.pages, {p \in Elements(l.pages) : IsMissing(p)})
  IN [l EXCEPT !.completed = completed,
               !.queue = @ \o [i \in 1 .. Len(missing) |-> Work(missing[i], l.window.scope)]]

Startable(l, work) ==
  /\ work.page \in Elements(l.pages)
  /\ ~Covers(l.active, work)
  /\ work \notin l.completed

UnchargedSlots(l) ==  \* a mutation: a canceled decode that still runs is not counted
  l.window.limit - Cardinality({e \in l.active : ~e.retiring})

FreeSlots(l) == l.window.limit - Cardinality(l.active)

(* The loop of startNextLoads: it takes the startable requests in order, and *)
(* drops those it passes over, until the limit is reached or none is left.   *)
(* The requests of a queue are for distinct pages of one window.             *)
StartNext(l) ==
  LET startable == {i \in 1 .. Len(l.queue) : Startable(l, l.queue[i])}
      rank(i) == Cardinality({j \in startable : j <= i})
      taken == {i \in startable : rank(i) <= FreeSlots(l)}
      passed == {i \in 1 .. Len(l.queue) : rank(i) < FreeSlots(l)} \cup taken
      Decode(w) == [page |-> w.page, scope |-> w.scope, generation |-> l.window.generation,
                    retiring |-> FALSE]
  IN IF l.window = None \/ FreeSlots(l) <= 0 THEN l
     ELSE [l EXCEPT !.queue = SubSeq(@, Cardinality(passed) + 1, Len(@)),
                    !.active = @ \cup {Decode(l.queue[i]) : i \in taken}]

StartWindow(l, window, pages, displayed) ==
  StartNext(EnqueueMissing(
    CacheDisplayed([CancelBackground(l) EXCEPT !.window = window, !.pages = pages], displayed)))

-----------------------------------------------------------------------------
(* What a decode job reports: its result or error, then its retirement. *)

Replace(l, e, new) == [l EXCEPT !.active = (@ \ {e}) \cup new]

CompleteWork(l, work) ==
  [l EXCEPT !.queue = Kept(@, Elements(@) \ {work}), !.completed = @ \cup {work}]

FinishPublishing(l, e) ==
  CompleteWork(Replace(l, e, {[e EXCEPT !.retiring = TRUE]}), Work(e.page, e.scope))

FinishWithoutReconciling(l, e) ==  \* a mutation: what the decode held back stays unqueued
  StartNext(Replace(l, e, {}))

FinishRetirement(l, e) ==
  LET rest == Replace(l, e, {})
  IN StartNext(IF rest.window = None THEN rest ELSE EnqueueMissing(rest))
=============================================================================
