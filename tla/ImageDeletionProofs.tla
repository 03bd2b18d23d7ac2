------------------------ MODULE ImageDeletionProofs ------------------------
(***************************************************************************)
(* Proofs about ImageDeletion: types, and that what rests is whole, for    *)
(* any number of deletions and of requests of their fallbacks, however     *)
(* deep they are nested.  That every deletion settles is liveness and      *)
(* stays with TLC.                                                         *)
(***************************************************************************)
EXTENDS ImageDeletion, TLAPS

Busy == state.inProgress

\* A frame is about what was begun; a cancelled deletion is over.
FrameIsTheirs(f) ==
  /\ f.at \in {"starting", "started", "providing", "clearing", "falling", "settled"}
       => f.id \in 1..deletions
  /\ f.at = "asking" => f.id \in 1..Len(requests)
  /\ f.at \in {"cancelFile", "cancelFallback"}
       => f.id \in 0..deletions /\ (f.id = deletions => ~Busy)
FramesAreTheirs == \A i \in DOMAIN stack : FrameIsTheirs(stack[i])

\* The deletion in progress is the latest one, either awaited or claimed.
BusyWithLatest ==
  /\ Busy => /\ deletions # None
             /\ \/ state.active = deletions /\ state.claimed = None
                \/ state.active = None /\ state.claimed = deletions
  /\ ~Busy => state = Idle

\* Who settles the deletion in progress: its provider, once it is published and its job
\* kept; before that the call that starts it; after the claim the one that opens the fallback.
Kept == published = deletions /\ job = deletions /\ deletions \in running
Latest(at) == stack # <<>> /\ Top.at = at /\ Top.id = deletions
OnTheWay ==
  \/ Latest("starting")
  \/ Latest("started") /\ published = deletions
  \/ Latest("providing") /\ published = deletions /\ deletions \in running
Falls(i) == stack[i].at = "falling" /\ stack[i].id = deletions
            /\ \A j \in DOMAIN stack : j > i => stack[j].at = "asking"
OpeningFallback ==
  published = deletions /\ (Latest("clearing") \/ \E i \in DOMAIN stack : Falls(i))
SomebodySettles ==
  alive /\ Busy => IF state.active # None THEN Kept \/ OnTheWay ELSE OpeningFallback

\* The subscribers believe what is published, and what is published is in progress or a
\* call that cancelled it will take it back.
Takes(i, d) == stack[i].at \in {"cancelFile", "cancelFallback"} /\ stack[i].id = d
PublishedIsOwed ==
  alive => /\ seen = (published # None)
           /\ published # None => \/ Busy /\ published = deletions
                                  \/ \E i \in DOMAIN stack : Takes(i, published)

\* The fallback's request is asked for, and its job is kept or about to be; whoever
\* else is asked will be cancelled by the call that asks.
BeingAsked(r) == \E i \in DOMAIN stack : stack[i].at = "asking" /\ stack[i].id = r
FallbackIsAsked ==
  alive =>
    /\ \A r \in asked : r = fallback.job \/ BeingAsked(r)
    /\ fallback.operation # None =>
         /\ fallback.request \in asked
         /\ fallback.operation = requests[fallback.request].operation
         /\ \/ fallback.job = fallback.request
            \/ fallback.job = None /\ BeingAsked(fallback.request)

IInv == TypeOK /\ FramesAreTheirs /\ BusyWithLatest /\ SomebodySettles /\ PublishedIsOwed
        /\ FallbackIsAsked

-----------------------------------------------------------------------------
(* The stack. *)

LEMMA TopOf ==
  ASSUME TypeOK
  PROVE  /\ Len(stack) \in Nat /\ DOMAIN stack = 1..Len(stack)
         /\ stack = <<>> => Top = EventLoop /\ DOMAIN stack = {}
         /\ stack # <<>> => Len(stack) \in DOMAIN stack /\ Top = stack[Len(stack)] /\ Top \in Frames
  BY DEF TypeOK, Top

\* Wherever a frame waits, there is one.
LEMMA Waiting ==
  ASSUME TypeOK, Top # EventLoop
  PROVE  stack # <<>> /\ Len(stack) \in DOMAIN stack /\ Top = stack[Len(stack)] /\ Top \in Frames
  BY TopOf

LEMMA NotAtRest ==
  ASSUME NEW at \in {"starting", "started", "providing", "clearing", "falling", "asking",
                     "settled", "cancelFile", "cancelFallback"},
         At(at)
  PROVE  Top.at = at /\ Top # EventLoop
<1>1. EventLoop.at = "event loop"
  BY DEF EventLoop, Frame
<1>2. at # "event loop"
  OBVIOUS
<1> QED
  BY <1>1, <1>2 DEF At

LEMMA Called ==
  ASSUME TypeOK, NEW f \in Frames, stack' = Append(stack, f)
  PROVE  /\ stack' \in Seq(Frames) /\ stack' # <<>> /\ Top' = f
         /\ DOMAIN stack' = DOMAIN stack \cup {Len(stack) + 1}
         /\ Len(stack) + 1 \notin DOMAIN stack
         /\ \A i \in DOMAIN stack : stack'[i] = stack[i]
         /\ stack'[Len(stack) + 1] = f
<1>1. /\ stack' \in Seq(Frames) /\ Len(stack) \in Nat /\ Len(stack') = Len(stack) + 1
      /\ DOMAIN stack = 1..Len(stack) /\ DOMAIN stack' = 1..(Len(stack) + 1)
      /\ \A i \in DOMAIN stack : stack'[i] = stack[i]
      /\ stack'[Len(stack) + 1] = f
  BY DEF TypeOK
<1>2. stack' # <<>> /\ Top' = f
  BY <1>1 DEF Top
<1> QED
  BY <1>1, <1>2

\* Without its topmost call.
LEMMA Front ==
  ASSUME NEW S, NEW s \in Seq(S), s # <<>>, NEW t, t = SubSeq(s, 1, Len(s) - 1)
  PROVE  /\ t \in Seq(S) /\ Len(s) \in Nat \ {0} /\ Len(t) = Len(s) - 1
         /\ DOMAIN s = 1..Len(s) /\ DOMAIN t = 1..(Len(s) - 1)
         /\ \A i \in DOMAIN s \ {Len(s)} : i \in 1..Len(t) /\ t[i] = s[i]
<1>1. Len(s) \in Nat \ {0} /\ DOMAIN s = 1..Len(s)
  OBVIOUS
<1>2. /\ t \in Seq(S) /\ Len(t) = Len(s) - 1 /\ DOMAIN t = 1..(Len(s) - 1)
      /\ \A i \in 1..(Len(s) - 1) : t[i] = s[i]
  BY <1>1
<1> QED
  BY <1>1, <1>2

LEMMA Numbers ==
  ASSUME TypeOK
  PROVE  /\ deletions \in Nat /\ Len(requests) \in Nat
         /\ DOMAIN requests = 1..Len(requests)
<1>1. deletions \in Nat
  BY DEF TypeOK
<1>2. requests \in Seq([operation : Deletions, books : 0..2])
  BY DEF TypeOK
<1> QED
  BY <1>1, <1>2

LEMMA Returned ==
  ASSUME TypeOK, stack # <<>>, Return
  PROVE  /\ stack' \in Seq(Frames) /\ Len(stack) \in DOMAIN stack
         /\ DOMAIN stack' = DOMAIN stack \ {Len(stack)}
         /\ \A i \in DOMAIN stack' : stack'[i] = stack[i]
  BY Front DEF TypeOK, Return, Below

LEMMA Instead ==
  ASSUME TypeOK, stack # <<>>, NEW f \in Frames, NEW s, s = Append(Below, f)
  PROVE  /\ s \in Seq(Frames) /\ s # <<>> /\ Len(s) = Len(stack)
         /\ Len(stack) \in DOMAIN stack /\ DOMAIN s = DOMAIN stack
         /\ \A i \in DOMAIN stack \ {Len(stack)} : s[i] = stack[i]
         /\ s[Len(stack)] = f
<1>1. PICK u : u = Below
  OBVIOUS
<1>2. stack \in Seq(Frames) /\ Len(stack) \in Nat \ {0} /\ DOMAIN stack = 1..Len(stack)
  BY DEF TypeOK
<1>3. u \in Seq(Frames) /\ Len(u) = Len(stack) - 1
      /\ \A i \in 1..(Len(stack) - 1) : u[i] = stack[i]
  BY <1>1, <1>2 DEF Below
<1>4. s = Append(u, f)
  BY <1>1
<1>5. /\ s \in Seq(Frames) /\ Len(s) = Len(u) + 1
      /\ DOMAIN s = 1..(Len(u) + 1)
      /\ \A i \in 1..Len(u) : s[i] = u[i]
      /\ s[Len(u) + 1] = f
  BY <1>3, <1>4
<1>6. Len(u) + 1 = Len(stack) /\ \A i \in DOMAIN stack \ {Len(stack)} : i \in 1..Len(u)
  BY <1>2, <1>3
<1>7. Len(s) = Len(stack) /\ DOMAIN s = DOMAIN stack /\ s[Len(stack)] = f /\ s # <<>>
  <2>1. Len(<<>>) = 0
    OBVIOUS
  <2> QED
    BY <1>2, <1>5, <1>6, <2>1
<1>8. \A i \in DOMAIN stack \ {Len(stack)} : s[i] = stack[i]
  BY <1>2, <1>3, <1>5, <1>6
<1> QED
  BY <1>5, <1>7, <1>8, TopOf

LEMMA Continued ==
  ASSUME TypeOK, stack # <<>>, NEW f \in Frames, stack' = Append(Below, f)
  PROVE  /\ stack' \in Seq(Frames) /\ stack' # <<>> /\ Top' = f
         /\ Len(stack) \in DOMAIN stack
         /\ DOMAIN stack' = DOMAIN stack
         /\ \A i \in DOMAIN stack \ {Len(stack)} : stack'[i] = stack[i]
         /\ stack'[Len(stack)] = f
<1>1. PICK s : s = Append(Below, f)
  OBVIOUS
<1>2. /\ s \in Seq(Frames) /\ s # <<>> /\ Len(s) = Len(stack)
      /\ Len(stack) \in DOMAIN stack /\ DOMAIN s = DOMAIN stack
      /\ \A i \in DOMAIN stack \ {Len(stack)} : s[i] = stack[i]
      /\ s[Len(stack)] = f
  BY <1>1, Instead
<1>3. stack' = s
  BY <1>1
<1>4. Top' = f
  <2>1. Top' = stack'[Len(stack')]
    BY <1>2, <1>3 DEF Top
  <2> QED
    BY <1>2, <1>3, <2>1
<1> QED
  BY <1>2, <1>3, <1>4

LEMMA InitHolds == ConstantsAreSound /\ Init => IInv
<1> SUFFICES ASSUME ConstantsAreSound, Init PROVE IInv
  OBVIOUS
<1>1. TypeOK
  <2>1. /\ alive \in BOOLEAN /\ seen \in BOOLEAN /\ document \in {"ready", "empty"}
        /\ deletions \in 0..MaxDeletions /\ {published, job} \subseteq 0..deletions
        /\ running \subseteq 1..deletions
    <3>1. deletions = 0 /\ published = 0 /\ job = 0 /\ running = {}
      BY DEF Init, None
    <3>2. deletions \in 0..MaxDeletions /\ {published, job} \subseteq 0..deletions
      BY <3>1 DEF ConstantsAreSound
    <3> QED
      BY <3>1, <3>2 DEF Init
  <2>2. state \in [inProgress : BOOLEAN, active : 0..deletions, claimed : 0..deletions]
    BY DEF Init, None, Idle
  <2>3. requests = <<>> /\ Len(requests) = 0
    BY DEF Init
  <2>4. fallback \in [operation : 0..deletions, request : 0..Len(requests),
                      job : 0..Len(requests)]
    BY <2>3 DEF Init, None, NoFallback
  <2>5. /\ requests \in Seq([operation : Deletions, books : 0..2])
        /\ Len(requests) <= MaxRequests /\ asked \subseteq DOMAIN requests
        /\ stack \in Seq(Frames)
    BY <2>3 DEF Init, ConstantsAreSound
  <2> QED
    BY <2>1, <2>2, <2>4, <2>5 DEF TypeOK
<1>2. DOMAIN stack = {} /\ stack = <<>>
  BY DEF Init
<1>3. FramesAreTheirs /\ BusyWithLatest /\ SomebodySettles
  BY <1>2 DEF Init, FramesAreTheirs, BusyWithLatest, SomebodySettles, Busy, Idle
<1>4. PublishedIsOwed /\ FallbackIsAsked
  BY <1>2 DEF Init, PublishedIsOwed, FallbackIsAsked, NoFallback
<1> QED
  BY <1>1, <1>3, <1>4 DEF IInv

-----------------------------------------------------------------------------
(* What calls leave as it was. *)

\* Frames stay what they were while deletions and requests are only added.
LEMMA FramesStay ==
  ASSUME TypeOK, TypeOK', FramesAreTheirs,
         (deletions' = deletions /\ (Busy' => Busy)) \/ deletions' = deletions + 1,
         Len(requests) <= Len(requests'),
         \A i \in DOMAIN stack' :
           \/ i \in DOMAIN stack /\ stack'[i] = stack[i]
           \/ FrameIsTheirs(stack[i])'
  PROVE  FramesAreTheirs'
<1>1. SUFFICES ASSUME NEW i \in DOMAIN stack, stack'[i] = stack[i]
               PROVE  FrameIsTheirs(stack[i])'
  BY DEF FramesAreTheirs
<1>2. FrameIsTheirs(stack[i])
  BY DEF FramesAreTheirs
<1>3. deletions \in Nat /\ Len(requests) \in Nat
  BY Numbers
<1>4. deletions' \in Nat /\ Len(requests') \in Nat
  <2>1. deletions' \in Nat
    BY DEF TypeOK
  <2>2. requests' \in Seq([operation : Deletions, books : 0..2])
    BY DEF TypeOK, Deletions
  <2> QED
    BY <2>1, <2>2
<1> QED
  BY <1>1, <1>2, <1>3, <1>4 DEF FrameIsTheirs

\* Whoever is asked stays asked while no frame that asks returns.
LEMMA FallbackStays ==
  ASSUME FallbackIsAsked, alive' => alive, requests' = requests,
         \A r : BeingAsked(r) => BeingAsked(r)',
         UNCHANGED <<fallback, asked>> \/ CancelFallback
  PROVE  FallbackIsAsked'
<1>1. CASE UNCHANGED <<fallback, asked>>
  BY <1>1 DEF FallbackIsAsked
<1>2. CASE CancelFallback
  BY <1>2 DEF CancelFallback, FallbackIsAsked, NoFallback
<1> QED
  BY <1>1, <1>2

LEMMA CancelFallbackTypes ==
  ASSUME TypeOK, CancelFallback
  PROVE  /\ fallback' \in [operation : {None}, request : {None}, job : {None}]
         /\ asked' \subseteq asked
  BY DEF CancelFallback, NoFallback

\* What is published is owed by the same frames.
LEMMA OwedStays ==
  ASSUME PublishedIsOwed, alive' => alive, UNCHANGED <<published, seen>>,
         \/ Busy' /\ Busy /\ deletions' = deletions
         \/ Busy /\ \E i \in DOMAIN stack' : Takes(i, published)'
         \/ ~Busy,
         \A i \in DOMAIN stack : Takes(i, published) =>
            published = None \/ \E k \in DOMAIN stack' : Takes(k, published)'
  PROVE  PublishedIsOwed'
  BY DEF PublishedIsOwed
-----------------------------------------------------------------------------
(* A call returns that has nothing left to do. *)

LEMMA ReturnPreserves ==
  ASSUME IInv, Top # EventLoop, Return,
         Top.at \in {"starting", "started", "providing"} => ~alive \/ ~AcceptsFileDeletion(Top.id),
         Top.at \in {"clearing", "falling"} => ~alive \/ ~AcceptsClaimedFileDeletion(Top.id),
         Top.at \in {"cancelFile", "cancelFallback"} => ~alive \/ Top.id = None \/ published # Top.id,
         Top.at # "asking",
         running' \subseteq running, alive /\ state.active \in running => state.active \in running',
         UNCHANGED <<alive, document, deletions, state, published, seen, job, fallbackState>>
  PROVE  IInv'
<1>1. /\ TypeOK /\ FramesAreTheirs /\ BusyWithLatest /\ SomebodySettles /\ PublishedIsOwed
      /\ FallbackIsAsked
  BY DEF IInv
<1>2. stack # <<>> /\ Len(stack) \in DOMAIN stack /\ Top = stack[Len(stack)] /\ Top \in Frames
  BY <1>1, Waiting
<1>3. /\ stack' \in Seq(Frames) /\ DOMAIN stack' = DOMAIN stack \ {Len(stack)}
      /\ \A i \in DOMAIN stack' : stack'[i] = stack[i]
  BY <1>1, <1>2, Returned
<1>4. UNCHANGED <<fallback, requests, asked>>
  BY DEF fallbackState
<1>5. TypeOK'
  BY <1>1, <1>3, <1>4 DEF TypeOK
<1>6. FramesAreTheirs'
  BY <1>1, <1>3, <1>4, <1>5, Numbers, FramesStay DEF Busy
<1>7. BusyWithLatest'
  BY <1>1 DEF BusyWithLatest, Busy
<1>8. SomebodySettles'
  <2> SUFFICES ASSUME alive, Busy
               PROVE  (IF state.active # None THEN Kept \/ OnTheWay ELSE OpeningFallback)'
    BY DEF SomebodySettles, Busy
  <2>1. CASE state.active # None
    <3>1. state.active = deletions
      BY <1>1, <2>1 DEF BusyWithLatest
    <3>2. ~OnTheWay
      BY <3>1 DEF OnTheWay, Latest, AcceptsFileDeletion
    <3>3. Kept
      BY <1>1, <2>1, <3>2 DEF SomebodySettles
    <3> QED
      BY <2>1, <3>1, <3>3 DEF Kept
  <2>2. CASE state.active = None
    <3>1. state.claimed = deletions
      BY <1>1, <2>2 DEF BusyWithLatest
    <3>2. OpeningFallback
      BY <1>1, <2>2 DEF SomebodySettles
    <3>3. ~Latest("clearing")
      BY <3>1 DEF Latest, AcceptsClaimedFileDeletion
    <3>4. PICK i \in DOMAIN stack : Falls(i)
      BY <3>2, <3>3 DEF OpeningFallback
    <3>5. i # Len(stack)
      BY <1>2, <3>1, <3>4 DEF Falls, AcceptsClaimedFileDeletion
    <3>6. i \in DOMAIN stack' /\ Falls(i)'
      BY <1>3, <3>4, <3>5 DEF Falls
    <3> QED
      BY <2>2, <3>2, <3>6 DEF OpeningFallback
  <2> QED
    BY <2>1, <2>2
<1>9. PublishedIsOwed'
  <2>1. \A i \in DOMAIN stack : alive /\ published # None /\ Takes(i, published)
          => i \in DOMAIN stack' /\ Takes(i, published)'
    BY <1>2, <1>3 DEF Takes
  <2> QED
    BY <1>1, <2>1 DEF PublishedIsOwed, Busy
<1>10. FallbackIsAsked'
  <2>1. \A r : BeingAsked(r) => BeingAsked(r)'
    BY <1>2, <1>3 DEF BeingAsked
  <2> QED
    BY <1>1, <1>4, <2>1, FallbackStays
<1> QED
  BY <1>5, <1>6, <1>7, <1>8, <1>9, <1>10 DEF IInv

-----------------------------------------------------------------------------
(* Starting a deletion. *)

LEMMA DeletePreserves == ASSUME ConstantsAreSound, IInv, DeleteDisplayedFile PROVE IInv'
<1>1. /\ TypeOK /\ FramesAreTheirs /\ BusyWithLatest /\ SomebodySettles /\ PublishedIsOwed
      /\ FallbackIsAsked
  BY DEF IInv
<1>0. PICK f : f = Frame("starting", deletions + 1, fallback.job \in asked)
  OBVIOUS
<1>2. /\ alive /\ ~Busy /\ deletions < MaxDeletions /\ deletions' = deletions + 1
      /\ state' = [inProgress |-> TRUE, active |-> deletions + 1, claimed |-> None]
      /\ CancelFallback /\ running' \subseteq running /\ stack' = Append(stack, f)
      /\ UNCHANGED <<alive, document, published, seen, job, requests>>
  BY <1>0 DEF DeleteDisplayedFile, CanCall, Busy
<1>3. deletions \in Nat /\ deletions' \in Deletions
  BY <1>1, <1>2, Numbers DEF ConstantsAreSound, Deletions
<1>4. f \in Frames /\ f.at = "starting" /\ f.id = deletions'
  BY <1>0, <1>2, <1>3 DEF Frame, Frames
<1>5. /\ stack' \in Seq(Frames) /\ stack' # <<>> /\ Top' = f
      /\ DOMAIN stack' = DOMAIN stack \cup {Len(stack) + 1}
      /\ \A i \in DOMAIN stack : stack'[i] = stack[i]
      /\ stack'[Len(stack) + 1] = f
  BY <1>1, <1>2, <1>4, Called
<1>6. TypeOK'
  <2>1. state' \in [inProgress : BOOLEAN, active : 0..deletions', claimed : 0..deletions']
    BY <1>2, <1>3 DEF None
  <2>2. fallback' \in [operation : 0..deletions', request : 0..Len(requests'),
                       job : 0..Len(requests')] /\ asked' \subseteq DOMAIN requests'
    BY <1>1, <1>2, <1>3, Numbers, CancelFallbackTypes DEF TypeOK, None
  <2>3. {published', job'} \subseteq 0..deletions' /\ running' \subseteq 1..deletions'
    BY <1>1, <1>2, <1>3 DEF TypeOK
  <2>4. deletions' \in 0..MaxDeletions
    BY <1>3 DEF Deletions, ConstantsAreSound
  <2> QED
    BY <1>1, <1>2, <1>5, <2>1, <2>2, <2>3, <2>4 DEF TypeOK
<1>7. FramesAreTheirs'
  <2>1. FrameIsTheirs(f)'
    BY <1>3, <1>4 DEF FrameIsTheirs, Deletions
  <2> QED
    BY <1>1, <1>2, <1>3, <1>5, <1>6, <2>1, Numbers, FramesStay
<1>8. BusyWithLatest' /\ Busy' /\ state'.active = deletions' /\ deletions' # None
  BY <1>2, <1>3 DEF BusyWithLatest, Busy, None
<1>9. SomebodySettles'
  BY <1>4, <1>5, <1>8 DEF SomebodySettles, OnTheWay, Latest
<1>10. PublishedIsOwed'
  <2>1. \A i \in DOMAIN stack : Takes(i, published) => i \in DOMAIN stack' /\ Takes(i, published)'
    BY <1>2, <1>5 DEF Takes
  <2> QED
    BY <1>1, <1>2, <2>1, OwedStays
<1>11. FallbackIsAsked'
  <2>1. \A r : BeingAsked(r) => BeingAsked(r)'
    BY <1>5 DEF BeingAsked
  <2> QED
    BY <1>1, <1>2, <2>1, FallbackStays
<1> QED
  BY <1>6, <1>7, <1>8, <1>9, <1>10, <1>11 DEF IInv

\* The starting call goes on while its deletion is the one in progress.
LEMMA GoesOn ==
  ASSUME IInv, Top # EventLoop, NEW at, NEW f, f = Frame(at, Top.id, f.open), f.open \in BOOLEAN,
         at \in {"started", "providing"}, Top.at \in {"starting", "started"},
         stack' = Append(Below, f), alive, AcceptsFileDeletion(Top.id),
         published' = deletions, seen' = TRUE,
         running' = running \cup (IF at = "providing" THEN {Top.id} ELSE {}),
         UNCHANGED <<alive, document, deletions, state, job, fallbackState>>
  PROVE  IInv'
<1>1. /\ TypeOK /\ FramesAreTheirs /\ BusyWithLatest /\ SomebodySettles /\ PublishedIsOwed
      /\ FallbackIsAsked
  BY DEF IInv
<1>2. stack # <<>> /\ Len(stack) \in DOMAIN stack /\ Top = stack[Len(stack)] /\ Top \in Frames
  BY <1>1, Waiting
<1>3. Top.id \in 1..deletions
  BY <1>1, <1>2 DEF FramesAreTheirs, FrameIsTheirs
<1>4. Busy /\ Top.id = deletions /\ state.active = deletions /\ state.active # None
  BY <1>1, <1>3, Numbers DEF BusyWithLatest, AcceptsFileDeletion, Idle, None
<1>5. f \in Frames /\ f.at = at /\ f.id = deletions
  BY <1>2, <1>4 DEF Frames, Frame
<1>6. /\ stack' \in Seq(Frames) /\ stack' # <<>> /\ Top' = f /\ DOMAIN stack' = DOMAIN stack
      /\ \A i \in DOMAIN stack \ {Len(stack)} : stack'[i] = stack[i]
      /\ stack'[Len(stack)] = f
  BY <1>1, <1>2, <1>5, Continued
<1>7. UNCHANGED <<fallback, requests, asked>>
  BY DEF fallbackState
<1>8. TypeOK'
  <2>1. running' \subseteq 1..deletions /\ published' \in 0..deletions
    <3>1. running \subseteq 1..deletions /\ deletions \in Nat
      BY <1>1, Numbers DEF TypeOK
    <3>2. running' \subseteq running \cup {Top.id}
      OBVIOUS
    <3>3. published' \in 0..deletions
      BY <3>1
    <3> QED
      BY <1>3, <3>1, <3>2, <3>3
  <2> QED
    BY <1>1, <1>6, <1>7, <2>1 DEF TypeOK
<1>9. FramesAreTheirs'
  <2>1. FrameIsTheirs(f)'
    BY <1>3, <1>4, <1>5 DEF FrameIsTheirs
  <2> QED
    BY <1>1, <1>6, <1>7, <1>8, <2>1, Numbers, FramesStay DEF Busy
<1>10. BusyWithLatest'
  BY <1>1 DEF BusyWithLatest, Busy
<1>11. SomebodySettles'
  BY <1>4, <1>5, <1>6 DEF SomebodySettles, OnTheWay, Latest
<1>12. PublishedIsOwed'
  BY <1>4 DEF PublishedIsOwed, Busy, None
<1>13. FallbackIsAsked'
  <2>1. \A r : BeingAsked(r) => BeingAsked(r)'
    BY <1>2, <1>6 DEF BeingAsked
  <2> QED
    BY <1>1, <1>7, <2>1, FallbackStays
<1> QED
  BY <1>8, <1>9, <1>10, <1>11, <1>12, <1>13 DEF IInv

LEMMA PublishStartedPreserves == ASSUME IInv, PublishStarted PROVE IInv'
<1>1. /\ TypeOK /\ FramesAreTheirs /\ BusyWithLatest /\ SomebodySettles /\ PublishedIsOwed
      /\ FallbackIsAsked
  BY DEF IInv
<1>2. Top.at = "starting" /\ Top # EventLoop
  BY NotAtRest DEF PublishStarted
<1>3. CASE alive /\ AcceptsFileDeletion(Top.id)
  <2>1. PICK f : f = Frame("started", Top.id, published = None)
    OBVIOUS
  <2>2. Top.id = deletions
    <3>1. Top.id \in 1..deletions
      BY <1>1, <1>2, Waiting DEF FramesAreTheirs, FrameIsTheirs
    <3> QED
      BY <1>1, <1>3, <3>1, Numbers DEF BusyWithLatest, AcceptsFileDeletion, Idle, None
  <2>3. published' = deletions /\ seen' = TRUE
    <3>1. published' = Top.id /\ seen' = IF published = None THEN TRUE ELSE seen
      BY <1>3 DEF PublishStarted
    <3> QED
      BY <1>1, <1>3, <2>2, <3>1 DEF PublishedIsOwed
  <2>4. /\ f = Frame("started", Top.id, f.open) /\ f.open \in BOOLEAN /\ stack' = Append(Below, f)
        /\ UNCHANGED <<alive, document, deletions, state, job, running, fallbackState>>
    BY <1>3, <2>1 DEF PublishStarted, Continue, Frame
  <2>5. running' = running \cup (IF "started" = "providing" THEN {Top.id} ELSE {})
    BY <2>4
  <2> QED
    BY <1>2, <1>3, <2>3, <2>4, <2>5, GoesOn
<1>4. CASE ~(alive /\ AcceptsFileDeletion(Top.id))
  <2>1. Return /\ UNCHANGED <<alive, document, deletions, state, published, seen, job, running,
                              fallbackState>>
    BY <1>4 DEF PublishStarted
  <2> QED
    BY <1>2, <1>4, <2>1, ReturnPreserves
<1> QED
  BY <1>3, <1>4

LEMMA CallProviderPreserves == ASSUME IInv, CallProvider PROVE IInv'
<1>1. /\ TypeOK /\ FramesAreTheirs /\ BusyWithLatest /\ SomebodySettles /\ PublishedIsOwed
      /\ FallbackIsAsked
  BY DEF IInv
<1>2. Top.at = "started" /\ Top # EventLoop
  BY NotAtRest DEF CallProvider
<1>3. CASE alive /\ AcceptsFileDeletion(Top.id)
  <2>1. PICK f : f = Frame("providing", Top.id, FALSE)
    OBVIOUS
  <2>2. Top.id \in 1..deletions /\ deletions \in Nat
    BY <1>1, <1>2, Waiting, Numbers DEF FramesAreTheirs, FrameIsTheirs
  <2>3. published = deletions /\ deletions # None
    <3>1. Busy /\ state.active # None
      BY <1>1, <1>3, <2>2 DEF BusyWithLatest, AcceptsFileDeletion, Idle, None
    <3>2. Kept \/ OnTheWay
      BY <1>1, <1>3, <3>1 DEF SomebodySettles
    <3> QED
      BY <1>2, <2>2, <3>2 DEF Kept, OnTheWay, Latest, None
  <2>4. published' = deletions /\ seen' = TRUE
    BY <1>1, <1>3, <2>3 DEF CallProvider, PublishedIsOwed
  <2>5. /\ f = Frame("providing", Top.id, f.open) /\ f.open \in BOOLEAN
        /\ stack' = Append(Below, f)
        /\ running' = running \cup (IF "providing" = "providing" THEN {Top.id} ELSE {})
        /\ UNCHANGED <<alive, document, deletions, state, job, fallbackState>>
    BY <1>3, <2>1 DEF CallProvider, Continue, Frame
  <2> QED
    BY <1>2, <1>3, <2>4, <2>5, GoesOn
<1>4. CASE ~(alive /\ AcceptsFileDeletion(Top.id))
  <2>1. Return /\ UNCHANGED <<alive, document, deletions, state, published, seen, job, running,
                              fallbackState>>
    BY <1>4 DEF CallProvider
  <2> QED
    BY <1>2, <1>4, <2>1, ReturnPreserves
<1> QED
  BY <1>3, <1>4

LEMMA KeepJobPreserves == ASSUME IInv, KeepJob PROVE IInv'
<1>1. /\ TypeOK /\ FramesAreTheirs /\ BusyWithLatest /\ SomebodySettles /\ PublishedIsOwed
      /\ FallbackIsAsked
  BY DEF IInv
<1>2. /\ Top.at = "providing" /\ Top # EventLoop /\ Return
      /\ UNCHANGED <<alive, document, deletions, state, published, seen, fallbackState>>
  BY NotAtRest DEF KeepJob
<1>3. CASE alive /\ AcceptsFileDeletion(Top.id)
  <2>1. job' = Top.id /\ running' = running
    BY <1>3 DEF KeepJob
  <2>2. stack # <<>> /\ Top = stack[Len(stack)]
    BY <1>1, <1>2, Waiting
  <2>3. /\ stack' \in Seq(Frames) /\ Len(stack) \in DOMAIN stack
        /\ DOMAIN stack' = DOMAIN stack \ {Len(stack)}
        /\ \A i \in DOMAIN stack' : stack'[i] = stack[i]
    BY <1>1, <1>2, <2>2, Returned
  <2>4. Top.id \in 1..deletions /\ deletions \in Nat
    BY <1>1, <1>2, <2>2, <2>3, Numbers DEF FramesAreTheirs, FrameIsTheirs
  <2>5. Busy /\ state.active # None /\ Top.id = deletions
    BY <1>1, <1>3, <2>4 DEF BusyWithLatest, AcceptsFileDeletion, Idle, None
  <2>6. published = deletions /\ deletions \in running
    <3>1. Kept \/ OnTheWay
      BY <1>1, <1>3, <2>5 DEF SomebodySettles
    <3> QED
      BY <1>2, <3>1 DEF Kept, OnTheWay, Latest
  <2>7. UNCHANGED <<fallback, requests, asked>>
    BY <1>2 DEF fallbackState
  <2>8. TypeOK'
    BY <1>1, <1>2, <2>1, <2>3, <2>4, <2>7 DEF TypeOK
  <2>9. FramesAreTheirs'
    BY <1>1, <1>2, <2>3, <2>7, <2>8, Numbers, FramesStay DEF Busy
  <2>10. BusyWithLatest'
    BY <1>1, <1>2 DEF BusyWithLatest, Busy
  <2>11. SomebodySettles'
    BY <1>2, <2>1, <2>5, <2>6 DEF SomebodySettles, Kept
  <2>12. PublishedIsOwed'
    BY <1>1, <1>2, <2>5, <2>6 DEF PublishedIsOwed, Busy
  <2>13. FallbackIsAsked'
    <3>1. \A r : BeingAsked(r) => BeingAsked(r)'
      BY <1>2, <2>2, <2>3 DEF BeingAsked
    <3> QED
      BY <1>1, <1>2, <2>7, <3>1, FallbackStays
  <2> QED
    BY <2>8, <2>9, <2>10, <2>11, <2>12, <2>13 DEF IInv
<1>4. CASE ~(alive /\ AcceptsFileDeletion(Top.id))
  <2>1. job' = job /\ running' = running \ {Top.id}
    BY <1>4 DEF KeepJob
  <2> QED
    BY <1>2, <1>4, <2>1, ReturnPreserves DEF AcceptsFileDeletion
<1> QED
  BY <1>3, <1>4

-----------------------------------------------------------------------------
(* The provider answers. *)

\* An answer that is accepted is about the deletion in progress, which is published.
LEMMA Answered ==
  ASSUME IInv, NEW d \in Deletions, Answering(d)
  PROVE  /\ d = deletions /\ d \in 1..deletions /\ d # None
         /\ Busy /\ state.active = d
         /\ alive => published = d
         /\ running' = running \ {d}
<1>1. TypeOK /\ BusyWithLatest /\ SomebodySettles
  BY DEF IInv
<1>2. /\ d \in running /\ running' = running \ {d} /\ state.active = d
      /\ stack = <<>> \/ Top = Frame("providing", d, FALSE)
  <2>1. Top = EventLoop => stack = <<>>
    <3>1. EventLoop.at = "event loop"
      BY DEF EventLoop, Frame
    <3>2. \A f \in Frames : f.at # "event loop"
      BY DEF Frames
    <3> QED
      BY <1>1, <3>1, <3>2, TopOf
  <2> QED
    BY <2>1 DEF Answering, AcceptsFileDeletion
<1>3. d \in 1..deletions
  BY <1>1, <1>2 DEF TypeOK
<1>4. d # None
  BY <1>3 DEF None
<1>5. Busy /\ d = deletions
  BY <1>1, <1>2, <1>4 DEF BusyWithLatest, Idle
<1>6. ASSUME alive PROVE published = d
  <2>1. Kept \/ OnTheWay
    BY <1>1, <1>2, <1>4, <1>5, <1>6 DEF SomebodySettles
  <2>2. Latest("starting") => FALSE
    BY <1>2 DEF Latest, Frame
  <2> QED
    BY <1>5, <2>1, <2>2 DEF Kept, OnTheWay
<1> QED
  BY <1>2, <1>3, <1>4, <1>5, <1>6

LEMMA FileDeletedPreserves ==
  ASSUME IInv, NEW d \in Deletions, FileDeleted(d)
  PROVE  IInv'
<1>1. /\ TypeOK /\ FramesAreTheirs /\ BusyWithLatest /\ SomebodySettles /\ PublishedIsOwed
      /\ FallbackIsAsked
  BY DEF IInv
<1>2. PICK f : f = Frame("clearing", d, TRUE)
  OBVIOUS
<1>3. /\ d = deletions /\ d \in 1..deletions /\ d # None /\ Busy /\ state.active = d
      /\ alive => published = d
      /\ running' = running \ {d}
  BY Answered DEF FileDeleted
<1>4. /\ state' = [state EXCEPT !.active = None, !.claimed = d] /\ document' = "empty"
      /\ stack' = Append(stack, f)
      /\ UNCHANGED <<alive, deletions, published, seen, job, fallback, requests, asked>>
  BY <1>2 DEF FileDeleted, fallbackState
<1>5. f \in Frames /\ f.at = "clearing" /\ f.id = d
  BY <1>2 DEF Frame, Frames
<1>6. /\ stack' \in Seq(Frames) /\ stack' # <<>> /\ Top' = f
      /\ DOMAIN stack' = DOMAIN stack \cup {Len(stack) + 1}
      /\ \A i \in DOMAIN stack : stack'[i] = stack[i]
      /\ stack'[Len(stack) + 1] = f
  BY <1>1, <1>4, <1>5, Called
<1>7. state' = [inProgress |-> TRUE, active |-> None, claimed |-> d]
  BY <1>1, <1>3, <1>4 DEF TypeOK, Busy
<1>8. TypeOK'
  <2>1. state' \in [inProgress : BOOLEAN, active : 0..deletions, claimed : 0..deletions]
    BY <1>1, <1>3, <1>7, Numbers DEF None
  <2> QED
    BY <1>1, <1>3, <1>4, <1>6, <2>1 DEF TypeOK
<1>9. FramesAreTheirs'
  <2>1. FrameIsTheirs(f)'
    BY <1>3, <1>4, <1>5 DEF FrameIsTheirs
  <2> QED
    BY <1>1, <1>3, <1>4, <1>6, <1>8, <2>1, Numbers, FramesStay
<1>10. BusyWithLatest' /\ Busy' /\ state'.active = None
  BY <1>3, <1>4, <1>7 DEF BusyWithLatest, Busy
<1>11. SomebodySettles'
  BY <1>3, <1>4, <1>5, <1>6, <1>10 DEF SomebodySettles, OpeningFallback, Latest
<1>12. PublishedIsOwed'
  BY <1>1, <1>3, <1>4, <1>10 DEF PublishedIsOwed
<1>13. FallbackIsAsked'
  <2>1. \A r : BeingAsked(r) => BeingAsked(r)'
    BY <1>6 DEF BeingAsked
  <2> QED
    BY <1>1, <1>4, <2>1, FallbackStays
<1> QED
  BY <1>8, <1>9, <1>10, <1>11, <1>12, <1>13 DEF IInv

\* The deletion in progress is over and the subscribers are told so.
LEMMA SettledIsWhole ==
  ASSUME PublishedIsOwed, NEW d, d # None, PublishSettled(d), state' = Idle,
         UNCHANGED <<alive, deletions>>,
         alive => published = d
  PROVE  SomebodySettles' /\ PublishedIsOwed'
<1>1. ~Busy' /\ state'.inProgress = FALSE
  BY DEF Busy, Idle
<1>2. alive => published' = None /\ seen' = FALSE
  BY <1>1 DEF PublishSettled
<1> QED
  BY <1>1, <1>2 DEF SomebodySettles, PublishedIsOwed

LEMMA SettledTypes ==
  ASSUME TypeOK, NEW d, PublishSettled(d), state' = Idle
  PROVE  published' \in 0..deletions /\ seen' \in BOOLEAN
<1>1. deletions \in Nat /\ published \in 0..deletions /\ seen \in BOOLEAN
  BY Numbers DEF TypeOK
<1>2. state'.inProgress = FALSE
  BY DEF Idle
<1>3. CASE published = d
  <2>1. published' = 0 /\ seen' = FALSE
    BY <1>2, <1>3 DEF PublishSettled, None
  <2>2. published' \in 0..deletions
    BY <1>1, <2>1
  <2>3. seen' \in BOOLEAN
    BY <2>1
  <2> QED
    BY <2>2, <2>3
<1>4. CASE published # d
  BY <1>1, <1>4 DEF PublishSettled
<1> QED
  BY <1>3, <1>4

LEMMA IdleTypes ==
  ASSUME TypeOK
  PROVE  Idle \in [inProgress : BOOLEAN, active : 0..deletions, claimed : 0..deletions]
  BY Numbers DEF Idle, None

LEMMA FileKeptPreserves ==
  ASSUME IInv, NEW d \in Deletions, FileKept(d)
  PROVE  IInv'
<1>1. /\ TypeOK /\ FramesAreTheirs /\ BusyWithLatest /\ SomebodySettles /\ PublishedIsOwed
      /\ FallbackIsAsked
  BY DEF IInv
<1>2. PICK f : f = Frame("settled", d, published = d)
  OBVIOUS
<1>3. /\ d = deletions /\ d \in 1..deletions /\ d # None
      /\ alive => published = d
      /\ running' = running \ {d}
  BY Answered DEF FileKept
<1>4. /\ state' = Idle /\ PublishSettled(d) /\ stack' = Append(stack, f)
      /\ UNCHANGED <<alive, document, deletions, job, fallback, requests, asked>>
  BY <1>2 DEF FileKept, fallbackState
<1>5. f \in Frames /\ f.at = "settled" /\ f.id = d
  BY <1>2 DEF Frame, Frames
<1>6. /\ stack' \in Seq(Frames)
      /\ DOMAIN stack' = DOMAIN stack \cup {Len(stack) + 1}
      /\ \A i \in DOMAIN stack : stack'[i] = stack[i]
      /\ stack'[Len(stack) + 1] = f
  BY <1>1, <1>4, <1>5, Called
<1>7. ~Busy' /\ BusyWithLatest'
  BY <1>4 DEF BusyWithLatest, Busy, Idle
<1>8. TypeOK'
  <2>1. /\ published' \in 0..deletions /\ seen' \in BOOLEAN
        /\ state' \in [inProgress : BOOLEAN, active : 0..deletions, claimed : 0..deletions]
    BY <1>1, <1>4, SettledTypes, IdleTypes
  <2> QED
    BY <1>1, <1>3, <1>4, <1>6, <2>1 DEF TypeOK
<1>9. FramesAreTheirs'
  <2>1. FrameIsTheirs(f)'
    BY <1>3, <1>4, <1>5 DEF FrameIsTheirs
  <2> QED
    BY <1>1, <1>4, <1>6, <1>7, <1>8, <2>1, Numbers, FramesStay
<1>10. SomebodySettles' /\ PublishedIsOwed'
  BY <1>1, <1>3, <1>4, SettledIsWhole
<1>11. FallbackIsAsked'
  <2>1. \A r : BeingAsked(r) => BeingAsked(r)'
    BY <1>6 DEF BeingAsked
  <2> QED
    BY <1>1, <1>4, <2>1, FallbackStays
<1> QED
  BY <1>7, <1>8, <1>9, <1>10, <1>11 DEF IInv

-----------------------------------------------------------------------------
(* The fallback is opened and the deletion settled. *)

\* The claim is that of the deletion in progress while the call that holds it accepts it.
LEMMA Claimed ==
  ASSUME IInv, NEW at \in {"clearing", "falling"}, At(at), alive,
         AcceptsClaimedFileDeletion(Top.id)
  PROVE  /\ stack # <<>> /\ Top = stack[Len(stack)] /\ Top.at = at
         /\ Top.id = deletions /\ Top.id \in 1..deletions /\ Top.id # None
         /\ Busy /\ state.active = None /\ state.claimed = deletions
         /\ published = deletions
<1>1. TypeOK /\ FramesAreTheirs /\ BusyWithLatest /\ SomebodySettles
  BY DEF IInv
<1>2. Top.at = at /\ Top # EventLoop
  BY NotAtRest
<1>3. stack # <<>> /\ Top = stack[Len(stack)] /\ Len(stack) \in DOMAIN stack
  BY <1>1, <1>2, Waiting
<1>4. Top.id \in 1..deletions
  BY <1>1, <1>2, <1>3 DEF FramesAreTheirs, FrameIsTheirs
<1>5. Top.id # None
  BY <1>4 DEF None
<1>6. Busy /\ state.active = None /\ state.claimed = deletions /\ Top.id = deletions
  BY <1>1, <1>5 DEF BusyWithLatest, AcceptsClaimedFileDeletion, Idle
<1>7. published = deletions
  BY <1>1, <1>6 DEF SomebodySettles, OpeningFallback
<1> QED
  BY <1>2, <1>3, <1>4, <1>5, <1>6, <1>7

\* One more request is asked for.
LEMMA Asked ==
  ASSUME ConstantsAreSound, TypeOK, NEW d \in 1..deletions, NEW books \in 0..2, Ask(d, books)
  PROVE  LET n == Len(requests) + 1 IN
         /\ requests' \in Seq([operation : Deletions, books : 0..2])
         /\ Len(requests') = n /\ Len(requests') <= MaxRequests
         /\ DOMAIN requests' = DOMAIN requests \cup {n}
         /\ n \notin DOMAIN requests
         /\ n \in RequestIds
         /\ \A r \in DOMAIN requests : requests'[r] = requests[r]
         /\ requests'[n].operation = d
         /\ fallback' = [operation |-> d, request |-> n, job |-> None]
<1>1. d \in Deletions
  BY DEF ConstantsAreSound, TypeOK, Deletions
<1>2. PICK q : q = [operation |-> d, books |-> books]
  OBVIOUS
<1>3. q \in [operation : Deletions, books : 0..2] /\ q.operation = d
  BY <1>1, <1>2
<1>4. requests \in Seq([operation : Deletions, books : 0..2])
  BY DEF TypeOK
<1>5. /\ requests' = Append(requests, q) /\ Len(requests) < MaxRequests
      /\ fallback' = [operation |-> d, request |-> Len(requests) + 1, job |-> None]
  BY <1>2 DEF Ask
<1>6. /\ requests' \in Seq([operation : Deletions, books : 0..2])
      /\ Len(requests') = Len(requests) + 1 /\ Len(requests) \in Nat
      /\ DOMAIN requests = 1..Len(requests) /\ DOMAIN requests' = 1..(Len(requests) + 1)
      /\ \A r \in DOMAIN requests : requests'[r] = requests[r]
      /\ requests'[Len(requests) + 1] = q
  BY <1>3, <1>4, <1>5
<1>7. MaxRequests \in Nat
  BY DEF ConstantsAreSound
<1> QED
  BY <1>3, <1>5, <1>6, <1>7 DEF RequestIds

LEMMA OpenFallbackPreserves ==
  ASSUME ConstantsAreSound, IInv, OpenFallback
  PROVE  IInv'
<1>1. /\ TypeOK /\ FramesAreTheirs /\ BusyWithLatest /\ SomebodySettles /\ PublishedIsOwed
      /\ FallbackIsAsked
  BY DEF IInv
<1>2. /\ At("clearing") /\ alive /\ AcceptsClaimedFileDeletion(Top.id)
      /\ asked' = (asked \ {fallback.job}) \cup {Len(requests) + 1}
      /\ UNCHANGED <<alive, document, deletions, state, published, seen, job, running>>
  BY DEF OpenFallback, controller
<1>3. /\ stack # <<>> /\ Top = stack[Len(stack)] /\ Top.at = "clearing"
      /\ Top.id = deletions /\ Top.id \in 1..deletions /\ Top.id # None
      /\ Busy /\ state.active = None /\ state.claimed = deletions
      /\ published = deletions
  BY <1>2, Claimed
<1>4. PICK books \in 0..2 : Ask(Top.id, books)
  BY DEF OpenFallback
<1>5. PICK n : n = Len(requests) + 1
  OBVIOUS
<1>6. /\ requests' \in Seq([operation : Deletions, books : 0..2])
      /\ Len(requests') = n /\ Len(requests') <= MaxRequests
      /\ DOMAIN requests' = DOMAIN requests \cup {n}
      /\ n \notin DOMAIN requests /\ n \in RequestIds
      /\ \A r \in DOMAIN requests : requests'[r] = requests[r]
      /\ requests'[n].operation = deletions
      /\ fallback' = [operation |-> deletions, request |-> n, job |-> None]
  BY <1>1, <1>3, <1>4, <1>5, Asked
<1>7. PICK f : f = Frame("falling", Top.id, FALSE)
  OBVIOUS
<1>8. PICK g : g = Frame("asking", n, FALSE)
  OBVIOUS
<1>9. /\ f \in Frames /\ f.at = "falling" /\ f.id = deletions
      /\ g \in Frames /\ g.at = "asking" /\ g.id = n
  BY <1>1, <1>3, <1>6, <1>7, <1>8 DEF Frame, Frames, TypeOK, Deletions
<1>10. PICK s : s = Append(Below, f)
  OBVIOUS
<1>11. stack' = Append(s, g)
  BY <1>5, <1>7, <1>8, <1>10 DEF OpenFallback
<1>12. /\ s \in Seq(Frames) /\ Len(s) = Len(stack) /\ Len(stack) \in DOMAIN stack
       /\ \A i \in DOMAIN stack \ {Len(stack)} : s[i] = stack[i]
       /\ s[Len(stack)] = f
  <2>1. TypeOK /\ stack # <<>> /\ f \in Frames
    BY <1>1, <1>3, <1>9
  <2> QED
    BY <2>1, <1>10, Instead
<1>13. /\ stack' \in Seq(Frames) /\ DOMAIN stack' = DOMAIN stack \cup {Len(stack) + 1}
       /\ \A i \in DOMAIN stack \ {Len(stack)} : stack'[i] = stack[i]
       /\ stack'[Len(stack)] = f /\ stack'[Len(stack) + 1] = g
  <2>1. Len(stack) \in Nat /\ DOMAIN stack = 1..Len(stack)
    BY <1>1, TopOf
  <2>2. /\ stack' \in Seq(Frames) /\ DOMAIN stack' = 1..(Len(s) + 1)
        /\ \A i \in 1..Len(s) : stack'[i] = s[i]
        /\ stack'[Len(s) + 1] = g
    BY <1>9, <1>11, <1>12
  <2> QED
    BY <1>12, <2>1, <2>2
<1>14. TypeOK'
  <2>1. fallback' \in [operation : 0..deletions, request : 0..Len(requests'),
                       job : 0..Len(requests')]
    BY <1>1, <1>3, <1>6, Numbers DEF RequestIds, None
  <2>2. asked' \subseteq DOMAIN requests'
    BY <1>1, <1>2, <1>5, <1>6 DEF TypeOK
  <2> QED
    BY <1>1, <1>2, <1>6, <1>13, <2>1, <2>2 DEF TypeOK
<1>15. FramesAreTheirs'
  <2>1. FrameIsTheirs(f)' /\ FrameIsTheirs(g)'
    BY <1>2, <1>3, <1>6, <1>9 DEF FrameIsTheirs, RequestIds
  <2>2. Len(requests) <= Len(requests')
    BY <1>1, <1>5, <1>6, Numbers
  <2> QED
    BY <1>1, <1>2, <1>13, <1>14, <2>1, <2>2, FramesStay DEF Busy
<1>16. BusyWithLatest'
  BY <1>1, <1>2 DEF BusyWithLatest, Busy
<1>17. SomebodySettles'
  <2>1. PICK k : k = Len(stack)
    OBVIOUS
  <2>2. \A j \in DOMAIN stack' : j > k => j = k + 1
    BY <1>1, <1>13, <2>1, TopOf
  <2>3. k \in DOMAIN stack' /\ Falls(k)'
    BY <1>2, <1>9, <1>12, <1>13, <2>1, <2>2 DEF Falls
  <2> QED
    BY <1>2, <1>3, <2>3 DEF SomebodySettles, OpeningFallback
<1>18. PublishedIsOwed'
  BY <1>1, <1>2, <1>3 DEF PublishedIsOwed, Busy
<1>19. FallbackIsAsked'
  <2>1. \A r : BeingAsked(r) => BeingAsked(r)'
    BY <1>3, <1>12, <1>13 DEF BeingAsked
  <2>2. BeingAsked(n)'
    BY <1>9, <1>13 DEF BeingAsked
  <2> QED
    BY <1>1, <1>2, <1>5, <1>6, <2>1, <2>2 DEF FallbackIsAsked
<1> QED
  BY <1>14, <1>15, <1>16, <1>17, <1>18, <1>19 DEF IInv

\* The topmost call goes on after a step that leaves the fallback's requests alone and
\* neither starts nor claims a deletion.
LEMMA MovesOn ==
  ASSUME IInv, NEW f \in Frames, stack # <<>>, stack' = Append(Below, f),
         Top.at \notin {"asking"}, UNCHANGED <<alive, document, deletions, job, running, requests>>,
         UNCHANGED <<fallback, asked>> \/ CancelFallback,
         state' \in {state, Idle}, published' \in 0..deletions, seen' \in BOOLEAN,
         FrameIsTheirs(f)', SomebodySettles', PublishedIsOwed'
  PROVE  IInv'
<1>1. TypeOK /\ FramesAreTheirs /\ BusyWithLatest /\ FallbackIsAsked
  BY DEF IInv
<1>2. /\ stack' \in Seq(Frames) /\ DOMAIN stack' = DOMAIN stack
      /\ Len(stack) \in DOMAIN stack
      /\ \A i \in DOMAIN stack \ {Len(stack)} : stack'[i] = stack[i]
      /\ stack'[Len(stack)] = f
  BY <1>1, Continued
<1>3. Top = stack[Len(stack)]
  BY DEF Top
<1>4. TypeOK'
  <2>1. state' \in [inProgress : BOOLEAN, active : 0..deletions, claimed : 0..deletions]
    BY <1>1, IdleTypes DEF TypeOK
  <2>2. /\ fallback' \in [operation : 0..deletions, request : 0..Len(requests),
                          job : 0..Len(requests)]
        /\ asked' \subseteq DOMAIN requests
    BY <1>1, Numbers, CancelFallbackTypes DEF TypeOK, None
  <2> QED
    BY <1>1, <1>2, <2>1, <2>2 DEF TypeOK
<1>5. Busy' => Busy
  BY DEF Busy, Idle
<1>6. FramesAreTheirs'
  BY <1>1, <1>2, <1>4, <1>5, Numbers, FramesStay
<1>7. BusyWithLatest'
  <2>1. CASE state' = state
    BY <1>1, <2>1 DEF BusyWithLatest, Busy
  <2>2. CASE state' = Idle
    BY <2>2 DEF BusyWithLatest, Busy, Idle
  <2> QED
    BY <2>1, <2>2
<1>8. FallbackIsAsked'
  <2>1. \A r : BeingAsked(r) => BeingAsked(r)'
    BY <1>2, <1>3 DEF BeingAsked
  <2> QED
    BY <1>1, <2>1, FallbackStays
<1> QED
  BY <1>4, <1>6, <1>7, <1>8 DEF IInv

LEMMA OpenNoFallbackPreserves == ASSUME IInv, OpenNoFallback PROVE IInv'
<1>1. At("clearing") /\ UNCHANGED <<alive, document, deletions, state, published, seen, job,
                                    running, requests>>
  BY DEF OpenNoFallback, controller
<1>2. Top.at = "clearing" /\ Top # EventLoop
  BY <1>1, NotAtRest
<1>3. CASE alive /\ AcceptsClaimedFileDeletion(Top.id)
  <2>1. PICK f : f = Frame("falling", Top.id, FALSE)
    OBVIOUS
  <2>2. /\ stack # <<>> /\ Top = stack[Len(stack)] /\ Top.id = deletions
        /\ Top.id \in 1..deletions /\ Top.id # None
        /\ Busy /\ state.active = None /\ published = deletions
    BY <1>1, <1>3, Claimed
  <2>3. /\ CancelFallback /\ stack' = Append(Below, f)
    BY <1>3, <2>1 DEF OpenNoFallback, Continue
  <2>4. TypeOK /\ PublishedIsOwed
    BY DEF IInv
  <2>5. f \in Frames /\ f.at = "falling" /\ f.id = deletions
    BY <2>2, <2>1, <2>4 DEF Frame, Frames, TypeOK, Deletions
  <2>6. FrameIsTheirs(f)'
    BY <1>1, <2>2, <2>5 DEF FrameIsTheirs
  <2>7. SomebodySettles'
    <3>1. PICK k : k = Len(stack)
      OBVIOUS
    <3>2. /\ k \in DOMAIN stack' /\ stack'[k] = f
          /\ \A j \in DOMAIN stack' : ~(j > k)
      BY <2>2, <2>3, <2>4, <2>5, <3>1, Continued, TopOf
    <3>3. Falls(k)'
      BY <1>1, <2>5, <3>2 DEF Falls
    <3> QED
      BY <1>1, <2>2, <3>2, <3>3 DEF SomebodySettles, OpeningFallback
  <2>8. PublishedIsOwed'
    BY <1>1, <2>2, <2>4 DEF PublishedIsOwed, Busy
  <2>9. published' \in 0..deletions /\ seen' \in BOOLEAN
    BY <1>1, <2>4 DEF TypeOK
  <2> QED
    BY <1>1, <1>2, <2>2, <2>3, <2>5, <2>6, <2>7, <2>8, <2>9, MovesOn
<1>4. CASE ~(alive /\ AcceptsClaimedFileDeletion(Top.id))
  <2>1. Return /\ UNCHANGED <<fallback, asked>>
    BY <1>4 DEF OpenNoFallback
  <2> QED
    BY <1>1, <1>2, <1>4, <2>1, ReturnPreserves DEF fallbackState
<1> QED
  BY <1>3, <1>4

LEMMA SettlePreserves == ASSUME IInv, Settle PROVE IInv'
<1>1. At("falling") /\ UNCHANGED <<alive, document, deletions, job, running, fallback, requests,
                                   asked>>
  BY DEF Settle, fallbackState
<1>2. Top.at = "falling" /\ Top # EventLoop
  BY <1>1, NotAtRest
<1>3. CASE alive /\ AcceptsClaimedFileDeletion(Top.id)
  <2>1. PICK f : f = Frame("settled", Top.id, published = Top.id)
    OBVIOUS
  <2>2. /\ stack # <<>> /\ Top = stack[Len(stack)] /\ Top.id = deletions
        /\ Top.id \in 1..deletions /\ Top.id # None /\ published = Top.id
    BY <1>1, <1>3, Claimed
  <2>3. PublishSettled(Top.id) /\ state' = Idle /\ stack' = Append(Below, f)
    BY <1>3, <2>1 DEF Settle, Continue
  <2>4. TypeOK /\ PublishedIsOwed
    BY DEF IInv
  <2>5. f \in Frames /\ f.at = "settled" /\ f.id = deletions
    BY <2>2, <2>1, <2>4 DEF Frame, Frames, TypeOK, Deletions
  <2>6. FrameIsTheirs(f)'
    BY <1>1, <2>2, <2>5 DEF FrameIsTheirs
  <2>7. SomebodySettles' /\ PublishedIsOwed'
    BY <1>1, <2>2, <2>3, <2>4, SettledIsWhole
  <2>8. published' \in 0..deletions /\ seen' \in BOOLEAN
    BY <2>3, <2>4, SettledTypes
  <2> QED
    BY <1>1, <1>2, <2>2, <2>3, <2>5, <2>6, <2>7, <2>8, MovesOn
<1>4. CASE ~(alive /\ AcceptsClaimedFileDeletion(Top.id))
  <2>1. Return /\ UNCHANGED <<state, published, seen>>
    BY <1>4 DEF Settle
  <2> QED
    BY <1>1, <1>2, <1>4, <2>1, ReturnPreserves DEF fallbackState
<1> QED
  BY <1>3, <1>4

-----------------------------------------------------------------------------
(* Deletions are cancelled. *)

\* Inside a call that cancels or tells, a deletion in progress has its job kept.
LEMMA BusyIsKept ==
  ASSUME IInv, alive, Busy, Top # EventLoop, Top.at \in {"settled", "cancelFile", "cancelFallback"}
  PROVE  state.active # None /\ Kept
<1>1. TypeOK /\ BusyWithLatest /\ SomebodySettles
  BY DEF IInv
<1>2. stack # <<>> /\ Top = stack[Len(stack)] /\ Len(stack) \in DOMAIN stack
      /\ \A i \in DOMAIN stack : i # Len(stack) => Len(stack) > i
  BY <1>1, Waiting, TopOf
<1>3. ~OnTheWay /\ ~Latest("clearing")
  BY DEF OnTheWay, Latest
<1>4. \A i \in DOMAIN stack : ~Falls(i)
  BY <1>2 DEF Falls
<1> QED
  BY <1>1, <1>3, <1>4 DEF SomebodySettles, OpeningFallback

LEMMA StartCancellingPreserves ==
  ASSUME ConstantsAreSound, IInv, StartCancelling,
         UNCHANGED <<alive, document, deletions, published, seen, job, requests>>,
         fallback' \in {fallback, NoFallback}, asked' \subseteq asked,
         alive => (\A r \in asked' : r = fallback'.job \/ BeingAsked(r))
                  /\ (fallback' = fallback => asked' = asked)
  PROVE  IInv'
<1>1. /\ TypeOK /\ FramesAreTheirs /\ BusyWithLatest /\ SomebodySettles /\ PublishedIsOwed
      /\ FallbackIsAsked
  BY DEF IInv
<1>2. PICK f : f = Frame("cancelFile", IF Busy THEN published ELSE None, job \in running)
  OBVIOUS
<1>3. state' = Idle /\ running' = running \ {job} /\ stack' = Append(stack, f)
  BY <1>2 DEF StartCancelling, Busy
<1>4. f.at = "cancelFile" /\ f.id = (IF Busy THEN published ELSE None) /\ f.id \in 0..deletions
  BY <1>1, <1>2, Numbers DEF Frame, None, TypeOK
<1>5. f \in Frames
  <2>1. f.id \in Deletions \cup {None}
    <3>1. deletions \in 0..MaxDeletions /\ f.id \in 0..deletions
      BY <1>1, <1>4 DEF TypeOK
    <3> QED
      BY <3>1 DEF ConstantsAreSound, Deletions, None
  <2> QED
    BY <1>2, <2>1 DEF Frames, Frame
<1>6. /\ stack' \in Seq(Frames)
      /\ DOMAIN stack' = DOMAIN stack \cup {Len(stack) + 1}
      /\ \A i \in DOMAIN stack : stack'[i] = stack[i]
      /\ stack'[Len(stack) + 1] = f
  BY <1>1, <1>3, <1>5, Called
<1>7. ~Busy' /\ BusyWithLatest' /\ SomebodySettles'
  BY <1>3 DEF BusyWithLatest, SomebodySettles, Busy, Idle
<1>8. TypeOK'
  <2>1. state' \in [inProgress : BOOLEAN, active : 0..deletions, claimed : 0..deletions]
    BY <1>1, <1>3, IdleTypes
  <2>2. fallback' \in [operation : 0..deletions, request : 0..Len(requests),
                       job : 0..Len(requests)]
    BY <1>1, Numbers DEF TypeOK, NoFallback, None
  <2> QED
    BY <1>1, <1>3, <1>6, <2>1, <2>2 DEF TypeOK
<1>9. FramesAreTheirs'
  <2>1. FrameIsTheirs(f)'
    BY <1>4, <1>7 DEF FrameIsTheirs
  <2> QED
    BY <1>1, <1>6, <1>7, <1>8, <2>1, Numbers, FramesStay
<1>10. PublishedIsOwed'
  <2>1. Busy => \E i \in DOMAIN stack' : Takes(i, published)'
    <3>1. PICK k : k = Len(stack) + 1
      OBVIOUS
    <3>2. Busy => k \in DOMAIN stack' /\ Takes(k, published)'
      BY <1>4, <1>6, <3>1 DEF Takes
    <3> QED
      BY <3>2
  <2>2. \A i \in DOMAIN stack : Takes(i, published) => i \in DOMAIN stack' /\ Takes(i, published)'
    BY <1>6 DEF Takes
  <2> QED
    BY <1>1, <1>6, <2>1, <2>2, OwedStays
<1>11. FallbackIsAsked'
  <2>1. \A r : BeingAsked(r) => BeingAsked(r)'
    BY <1>6 DEF BeingAsked
  <2>2. CASE fallback' = fallback
    BY <1>1, <2>1, <2>2 DEF FallbackIsAsked
  <2>3. CASE fallback' = NoFallback
    BY <2>1, <2>3 DEF FallbackIsAsked, NoFallback
  <2> QED
    BY <2>2, <2>3
<1> QED
  BY <1>7, <1>8, <1>9, <1>10, <1>11 DEF IInv

LEMMA CancelDeletionPreserves == ASSUME ConstantsAreSound, IInv, CancelDeletion PROVE IInv'
<1>1. FallbackIsAsked
  BY DEF IInv
<1>2. /\ StartCancelling
      /\ UNCHANGED <<alive, document, deletions, published, seen, job, fallback, requests, asked>>
  BY DEF CancelDeletion, fallbackState
<1>3. alive => \A r \in asked' : r = fallback'.job \/ BeingAsked(r)
  BY <1>1, <1>2 DEF FallbackIsAsked
<1> QED
  BY <1>2, <1>3, StartCancellingPreserves

LEMMA CancelFileReturnsPreserves == ASSUME IInv, CancelFileReturns PROVE IInv'
<1>1. /\ At("cancelFile")
      /\ UNCHANGED <<alive, document, deletions, state, published, seen, job, running, requests>>
  BY DEF CancelFileReturns, controller
<1>2. Top.at = "cancelFile" /\ Top # EventLoop
  BY <1>1, NotAtRest
<1>3. TypeOK /\ FramesAreTheirs /\ SomebodySettles /\ PublishedIsOwed
  BY DEF IInv
<1>4. stack # <<>> /\ Len(stack) \in DOMAIN stack /\ Top = stack[Len(stack)] /\ Top \in Frames
  BY <1>2, <1>3, Waiting
<1>5. CASE alive
  <2>1. PICK f : f = Frame("cancelFallback", Top.id, fallback.job \in asked)
    OBVIOUS
  <2>2. CancelFallback /\ stack' = Append(Below, f)
    BY <1>5, <2>1 DEF CancelFileReturns, Continue
  <2>3. f \in Frames /\ f.at = "cancelFallback" /\ f.id = Top.id
    BY <1>4, <2>1 DEF Frame, Frames
  <2>4. FrameIsTheirs(f)'
    BY <1>1, <1>2, <1>3, <1>4, <2>3 DEF FramesAreTheirs, FrameIsTheirs, Busy
  <2>5. SomebodySettles'
    BY <1>1, <1>2, <1>5, BusyIsKept DEF SomebodySettles, Kept, Busy
  <2>6. /\ DOMAIN stack' = DOMAIN stack
        /\ \A i \in DOMAIN stack \ {Len(stack)} : stack'[i] = stack[i]
        /\ stack'[Len(stack)] = f
    BY <1>3, <1>4, <2>2, <2>3, Continued
  <2>7. PublishedIsOwed'
    <3>1. \A i \in DOMAIN stack : Takes(i, published) => i \in DOMAIN stack' /\ Takes(i, published)'
      BY <1>1, <1>4, <2>3, <2>6 DEF Takes
    <3> QED
      BY <1>1, <1>3, <3>1 DEF PublishedIsOwed, Busy
  <2>8. published' \in 0..deletions /\ seen' \in BOOLEAN
    BY <1>1, <1>3 DEF TypeOK
  <2> QED
    BY <1>1, <1>2, <1>4, <2>2, <2>3, <2>4, <2>5, <2>7, <2>8, MovesOn
<1>6. CASE ~alive
  <2>1. Return /\ UNCHANGED <<fallback, asked>>
    BY <1>6 DEF CancelFileReturns
  <2> QED
    BY <1>1, <1>2, <1>6, <2>1, ReturnPreserves DEF fallbackState
<1> QED
  BY <1>5, <1>6

LEMMA CancelFallbackReturnsPreserves == ASSUME IInv, CancelFallbackReturns PROVE IInv'
<1>1. /\ At("cancelFallback") /\ state' = state
      /\ UNCHANGED <<alive, document, deletions, job, running, fallback, requests, asked>>
  BY DEF CancelFallbackReturns, fallbackState
<1>2. Top.at = "cancelFallback" /\ Top # EventLoop
  BY <1>1, NotAtRest
<1>3. TypeOK /\ FramesAreTheirs /\ BusyWithLatest /\ PublishedIsOwed
  BY DEF IInv
<1>4. stack # <<>> /\ Len(stack) \in DOMAIN stack /\ Top = stack[Len(stack)] /\ Top \in Frames
  BY <1>2, <1>3, Waiting
<1>5. FrameIsTheirs(Top)
  BY <1>3, <1>4 DEF FramesAreTheirs
<1>6. CASE alive /\ Top.id # None /\ published = Top.id
  <2>1. PICK f : f = Frame("settled", Top.id, TRUE)
    OBVIOUS
  <2>2. PublishSettled(Top.id) /\ stack' = Append(Below, f)
    BY <1>6, <2>1 DEF CancelFallbackReturns, Continue
  <2>3. ~Busy /\ state' = Idle
    <3>1. Busy => Top.id = deletions
      BY <1>2, <1>6, BusyIsKept DEF Kept
    <3>2. ~Busy
      BY <1>2, <1>5, <3>1 DEF FrameIsTheirs
    <3> QED
      BY <1>1, <1>3, <3>2 DEF BusyWithLatest
  <2>4. SomebodySettles' /\ PublishedIsOwed'
    BY <1>1, <1>3, <1>6, <2>2, <2>3, SettledIsWhole
  <2>5. f \in Frames /\ f.at = "settled" /\ f.id = Top.id
    BY <1>4, <2>1 DEF Frame, Frames
  <2>6. FrameIsTheirs(f)'
    BY <1>1, <1>2, <1>3, <1>5, <1>6, <2>5, Numbers DEF FrameIsTheirs, None
  <2>7. published' \in 0..deletions /\ seen' \in BOOLEAN
    BY <1>3, <2>2, <2>3, SettledTypes
  <2> QED
    BY <1>1, <1>2, <1>4, <2>2, <2>4, <2>5, <2>6, <2>7, MovesOn
<1>7. CASE ~(alive /\ Top.id # None /\ published = Top.id)
  <2>1. Return /\ UNCHANGED <<published, seen>>
    BY <1>7 DEF CancelFallbackReturns
  <2> QED
    BY <1>1, <1>2, <1>7, <2>1, ReturnPreserves DEF fallbackState
<1> QED
  BY <1>6, <1>7

LEMMA SettledReturnsPreserves == ASSUME IInv, SettledReturns PROVE IInv'
<1>1. Top.at = "settled" /\ Top # EventLoop /\ Return
  BY NotAtRest DEF SettledReturns
<1>2. UNCHANGED <<alive, document, deletions, state, published, seen, job, running, fallbackState>>
  BY DEF SettledReturns, controller
<1> QED
  BY <1>1, <1>2, ReturnPreserves

LEMMA ShowImagePreserves == ASSUME IInv, ShowImage PROVE IInv'
<1>1. /\ document' = "ready"
      /\ UNCHANGED <<alive, deletions, state, published, seen, job, running, fallback, requests,
                     asked, stack>>
  BY DEF ShowImage, controller, fallbackState
<1>2. TypeOK'
  BY <1>1 DEF IInv, TypeOK
<1>3. FramesAreTheirs' /\ BusyWithLatest'
  BY <1>1 DEF IInv, FramesAreTheirs, FrameIsTheirs, BusyWithLatest, Busy
<1>4. SomebodySettles'
  BY <1>1 DEF IInv, SomebodySettles, Kept, OnTheWay, OpeningFallback, Latest, Falls, Top, Busy
<1>5. PublishedIsOwed' /\ FallbackIsAsked'
  BY <1>1 DEF IInv, PublishedIsOwed, FallbackIsAsked, Takes, BeingAsked, Busy
<1> QED
  BY <1>2, <1>3, <1>4, <1>5 DEF IInv

LEMMA DestroyPreserves == ASSUME IInv, Destroy PROVE IInv'
<1>1. /\ alive' = FALSE /\ state' = Idle /\ published' = None /\ CancelFallback
      /\ running' \subseteq running
      /\ UNCHANGED <<document, deletions, seen, job, requests, stack>>
  BY DEF Destroy
<1>2. TypeOK /\ FramesAreTheirs
  BY DEF IInv
<1>3. ~Busy' /\ BusyWithLatest'
  BY <1>1 DEF BusyWithLatest, Busy, Idle
<1>4. TypeOK'
  <2>1. /\ state' \in [inProgress : BOOLEAN, active : 0..deletions, claimed : 0..deletions]
        /\ published' \in 0..deletions
    BY <1>1, <1>2, IdleTypes, Numbers DEF None
  <2>2. /\ fallback' \in [operation : 0..deletions, request : 0..Len(requests),
                          job : 0..Len(requests)]
        /\ asked' \subseteq DOMAIN requests
    BY <1>1, <1>2, Numbers, CancelFallbackTypes DEF TypeOK, None
  <2> QED
    BY <1>1, <1>2, <2>1, <2>2 DEF TypeOK
<1>5. FramesAreTheirs'
  BY <1>1, <1>2, <1>3, <1>4, Numbers, FramesStay
<1>6. SomebodySettles' /\ PublishedIsOwed' /\ FallbackIsAsked'
  BY <1>1 DEF SomebodySettles, PublishedIsOwed, FallbackIsAsked
<1> QED
  BY <1>3, <1>4, <1>5, <1>6 DEF IInv

-----------------------------------------------------------------------------
(* The fallback's candidates arrive. *)

LEMMA RequestTypes ==
  ASSUME TypeOK, NEW r \in DOMAIN requests
  PROVE  requests[r].operation \in Deletions /\ requests[r].books \in 0..2
<1>1. requests \in Seq([operation : Deletions, books : 0..2])
  BY DEF TypeOK
<1>2. \A S : requests \in Seq(S) => requests[r] \in S
  OBVIOUS
<1>3. requests[r] \in [operation : Deletions, books : 0..2]
  BY <1>1, <1>2
<1> QED
  BY <1>3

\* An answer that is claimed is to the request of the fallback under way.
LEMMA ClaimedRequest ==
  ASSUME IInv, NEW r \in DOMAIN requests, ClaimJobRequest(r)
  PROVE  /\ r \in asked /\ r # None
         /\ fallback.operation = requests[r].operation /\ fallback.operation # None
         /\ fallback.operation \in 1..deletions
         /\ fallback.request = r
         /\ alive => fallback.job \in {r, None}
         /\ stack = <<>> \/ Top.at = "asking"
<1>1. TypeOK /\ FallbackIsAsked
  BY DEF IInv
<1>2. /\ r \in asked /\ fallback.operation = requests[r].operation /\ fallback.request = r
      /\ Top = EventLoop \/ Top.at = "asking"
  BY DEF ClaimJobRequest, Frame
<1>3. requests[r].operation \in Deletions
  BY <1>1, RequestTypes
<1>4. fallback.operation # None /\ r # None
  BY <1>1, <1>2, <1>3, Numbers DEF Deletions, None
<1>5. fallback.operation \in 0..deletions
  BY <1>1 DEF TypeOK
<1>6. fallback.operation \in 1..deletions
  BY <1>4, <1>5 DEF None
<1>7. alive => fallback.job \in {r, None}
  BY <1>1, <1>2, <1>4 DEF FallbackIsAsked
<1>8. stack = <<>> \/ Top.at = "asking"
  <2>1. EventLoop.at = "event loop"
    BY DEF EventLoop, Frame
  <2>2. \A f \in Frames : f.at # "event loop"
    BY DEF Frames
  <2> QED
    BY <1>1, <1>2, <2>1, <2>2, TopOf
<1> QED
  BY <1>2, <1>4, <1>6, <1>7, <1>8

LEMMA FallbackFoundPreserves ==
  ASSUME ConstantsAreSound, IInv, NEW r \in DOMAIN requests, FallbackFound(r)
  PROVE  IInv'
<1>1. TypeOK /\ FallbackIsAsked
  BY DEF IInv
<1>2. /\ StartCancelling /\ fallback' = NoFallback /\ asked' = asked \ {r}
      /\ UNCHANGED <<alive, document, deletions, published, seen, job, requests>>
  BY DEF FallbackFound
<1>3. /\ fallback.operation # None /\ r \in asked
      /\ alive => fallback.job \in {r, None}
  BY ClaimedRequest DEF FallbackFound
<1>4. \A q \in asked : q # None
  BY <1>1, Numbers DEF TypeOK, None
<1>5. alive => (\A q \in asked' : q = fallback'.job \/ BeingAsked(q))
               /\ (fallback' = fallback => asked' = asked)
  BY <1>1, <1>2, <1>3, <1>4 DEF FallbackIsAsked, NoFallback
<1> QED
  BY <1>2, <1>5, StartCancellingPreserves

LEMMA TryBookPreserves ==
  ASSUME ConstantsAreSound, IInv, NEW r \in DOMAIN requests, TryBook(r)
  PROVE  IInv'
<1>1. /\ TypeOK /\ FramesAreTheirs /\ BusyWithLatest /\ SomebodySettles /\ PublishedIsOwed
      /\ FallbackIsAsked
  BY DEF IInv
<1>2. PICK n : n = Len(requests) + 1
  OBVIOUS
<1>3. PICK g : g = Frame("asking", n, FALSE)
  OBVIOUS
<1>4. /\ asked' = (asked \ {r}) \cup {n} /\ stack' = Append(stack, g)
      /\ UNCHANGED <<alive, document, deletions, state, published, seen, job, running>>
  BY <1>2, <1>3 DEF TryBook, controller
<1>5. /\ r \in asked /\ r # None /\ fallback.operation # None
      /\ fallback.operation = requests[r].operation /\ fallback.operation \in 1..deletions
      /\ alive => fallback.job \in {r, None}
      /\ stack = <<>> \/ Top.at = "asking"
  BY ClaimedRequest DEF TryBook
<1>6. PICK left \in 0..2 : Ask(requests[r].operation, left)
  <2>1. requests[r].books \in 0..2
    BY <1>1, RequestTypes
  <2>2. PICK left \in 0..(requests[r].books - 1) : Ask(requests[r].operation, left)
    BY DEF TryBook
  <2>3. left \in 0..2
    BY <2>1, <2>2
  <2> QED
    BY <2>2, <2>3
<1>7. PICK d : d = requests[r].operation
  OBVIOUS
<1>8. /\ requests' \in Seq([operation : Deletions, books : 0..2])
      /\ Len(requests') = n /\ Len(requests') <= MaxRequests
      /\ DOMAIN requests' = DOMAIN requests \cup {n}
      /\ n \notin DOMAIN requests /\ n \in RequestIds
      /\ \A q \in DOMAIN requests : requests'[q] = requests[q]
      /\ requests'[n].operation = d
      /\ fallback' = [operation |-> d, request |-> n, job |-> None]
  <2>1. d \in 1..deletions /\ Ask(d, left)
    BY <1>5, <1>6, <1>7
  <2> QED
    BY <1>1, <1>2, <2>1, Asked
<1>9. g \in Frames /\ g.at = "asking" /\ g.id = n
  BY <1>3, <1>8 DEF Frame, Frames
<1>10. /\ stack' \in Seq(Frames)
       /\ DOMAIN stack' = DOMAIN stack \cup {Len(stack) + 1}
       /\ \A i \in DOMAIN stack : stack'[i] = stack[i]
       /\ stack'[Len(stack) + 1] = g
  BY <1>1, <1>4, <1>9, Called
<1>11. TypeOK'
  <2>1. fallback' \in [operation : 0..deletions, request : 0..Len(requests'),
                       job : 0..Len(requests')]
    BY <1>5, <1>7, <1>8 DEF RequestIds, None
  <2>2. asked' \subseteq DOMAIN requests'
    BY <1>1, <1>4, <1>8 DEF TypeOK
  <2> QED
    BY <1>1, <1>4, <1>8, <1>10, <2>1, <2>2 DEF TypeOK
<1>12. FramesAreTheirs'
  <2>1. FrameIsTheirs(g)'
    BY <1>8, <1>9 DEF FrameIsTheirs, RequestIds
  <2>2. Len(requests) <= Len(requests')
    BY <1>1, <1>2, <1>8, Numbers
  <2> QED
    BY <1>1, <1>4, <1>10, <1>11, <2>1, <2>2, FramesStay DEF Busy
<1>13. BusyWithLatest'
  BY <1>1, <1>4 DEF BusyWithLatest, Busy
<1>14. SomebodySettles'
  <2>1. ~OnTheWay /\ ~Latest("clearing")
    BY <1>5 DEF OnTheWay, Latest
  <2>2. \A i \in DOMAIN stack : Falls(i) => i \in DOMAIN stack' /\ Falls(i)'
    BY <1>4, <1>9, <1>10 DEF Falls
  <2>3. Kept => Kept'
    BY <1>4 DEF Kept
  <2>4. OpeningFallback => OpeningFallback'
    BY <1>4, <2>1, <2>2 DEF OpeningFallback
  <2> QED
    BY <1>1, <1>4, <2>1, <2>3, <2>4 DEF SomebodySettles, Busy
<1>15. PublishedIsOwed'
  <2>1. \A i \in DOMAIN stack : Takes(i, published) => i \in DOMAIN stack' /\ Takes(i, published)'
    BY <1>4, <1>10 DEF Takes
  <2> QED
    BY <1>1, <1>4, <2>1 DEF PublishedIsOwed, Busy
<1>16. FallbackIsAsked'
  <2>1. \A q : BeingAsked(q) => BeingAsked(q)'
    BY <1>10 DEF BeingAsked
  <2>2. BeingAsked(n)'
    BY <1>9, <1>10 DEF BeingAsked
  <2>3. \A q \in asked : q # None
    BY <1>1, Numbers DEF TypeOK, None
  <2> QED
    BY <1>1, <1>4, <1>5, <1>8, <2>1, <2>2, <2>3 DEF FallbackIsAsked
<1> QED
  BY <1>11, <1>12, <1>13, <1>14, <1>15, <1>16 DEF IInv

LEMMA NothingFoundPreserves ==
  ASSUME IInv, NEW r \in DOMAIN requests, NothingFound(r)
  PROVE  IInv'
<1>1. /\ fallback' = [fallback EXCEPT !.operation = None, !.request = None]
      /\ asked' = asked \ {r}
      /\ UNCHANGED <<alive, document, deletions, state, published, seen, job, running, requests,
                     stack>>
  BY DEF NothingFound, controller
<1>2. TypeOK'
  <2>1. TypeOK
    BY DEF IInv
  <2>2. fallback' \in [operation : 0..deletions, request : 0..Len(requests),
                       job : 0..Len(requests)]
    <3>1. fallback \in [operation : 0..deletions, request : 0..Len(requests),
                         job : 0..Len(requests)]
      BY <2>1 DEF TypeOK
    <3>2. None \in 0..deletions /\ None \in 0..Len(requests)
      BY <2>1, Numbers DEF None
    <3> QED
      BY <1>1, <3>1, <3>2
  <2> QED
    BY <1>1, <2>1, <2>2 DEF TypeOK
<1>3. FramesAreTheirs' /\ BusyWithLatest'
  BY <1>1 DEF IInv, FramesAreTheirs, FrameIsTheirs, BusyWithLatest, Busy
<1>4. SomebodySettles'
  BY <1>1 DEF IInv, SomebodySettles, Kept, OnTheWay, OpeningFallback, Latest, Falls, Top, Busy
<1>5. PublishedIsOwed'
  BY <1>1 DEF IInv, PublishedIsOwed, Takes, Busy
<1>6. FallbackIsAsked'
  <2>1. FallbackIsAsked
    BY DEF IInv
  <2>2. fallback'.operation = None /\ fallback'.job = fallback.job
    BY <1>1 DEF IInv, TypeOK
  <2> QED
    BY <1>1, <2>1, <2>2 DEF FallbackIsAsked, BeingAsked
<1> QED
  BY <1>2, <1>3, <1>4, <1>5, <1>6 DEF IInv

LEMMA AskReturnsPreserves == ASSUME IInv, AskReturns PROVE IInv'
<1>1. /\ TypeOK /\ FramesAreTheirs /\ BusyWithLatest /\ SomebodySettles /\ PublishedIsOwed
      /\ FallbackIsAsked
  BY DEF IInv
<1>2. /\ Return
      /\ UNCHANGED <<alive, document, deletions, state, published, seen, job, running, requests>>
  BY DEF AskReturns, controller
<1>3. Top.at = "asking" /\ Top # EventLoop
  BY NotAtRest DEF AskReturns
<1>4. stack # <<>> /\ Len(stack) \in DOMAIN stack /\ Top = stack[Len(stack)] /\ Top \in Frames
  BY <1>1, <1>3, Waiting
<1>5. PICK r : r = Top.id
  OBVIOUS
<1>6. r \in 1..Len(requests) /\ r # None
  BY <1>1, <1>3, <1>4, <1>5 DEF FramesAreTheirs, FrameIsTheirs, None
<1>7. /\ stack' \in Seq(Frames) /\ DOMAIN stack' = DOMAIN stack \ {Len(stack)}
      /\ \A i \in DOMAIN stack' : stack'[i] = stack[i]
  BY <1>1, <1>2, <1>4, Returned
<1>8. \/ /\ fallback.operation = requests[r].operation /\ fallback.request = r
         /\ fallback' = [fallback EXCEPT !.job = r]
         /\ asked' = asked \ ({fallback.job} \ {r})
      \/ /\ ~(fallback.operation = requests[r].operation /\ fallback.request = r)
         /\ fallback' = fallback /\ asked' = asked \ {r}
  BY <1>5 DEF AskReturns, RetainIfCurrent
<1>9. TypeOK'
  <2>1. fallback' \in [operation : 0..deletions, request : 0..Len(requests),
                       job : 0..Len(requests)]
    BY <1>1, <1>6, <1>8, Numbers DEF TypeOK
  <2>2. asked' \subseteq DOMAIN requests
    BY <1>1, <1>8 DEF TypeOK
  <2> QED
    BY <1>1, <1>2, <1>7, <2>1, <2>2 DEF TypeOK
<1>10. FramesAreTheirs'
  BY <1>1, <1>2, <1>7, <1>9, Numbers, FramesStay DEF Busy
<1>11. BusyWithLatest'
  BY <1>1, <1>2 DEF BusyWithLatest, Busy
<1>12. SomebodySettles'
  <2>1. ~OnTheWay /\ ~Latest("clearing")
    BY <1>3 DEF OnTheWay, Latest
  <2>2. \A i \in DOMAIN stack : Falls(i) => i \in DOMAIN stack' /\ Falls(i)'
    BY <1>2, <1>3, <1>4, <1>7 DEF Falls
  <2>3. Kept => Kept'
    BY <1>2 DEF Kept
  <2>4. OpeningFallback => OpeningFallback'
    BY <1>2, <2>1, <2>2 DEF OpeningFallback
  <2> QED
    BY <1>1, <1>2, <2>1, <2>3, <2>4 DEF SomebodySettles, Busy
<1>13. PublishedIsOwed'
  <2>1. \A i \in DOMAIN stack : Takes(i, published) => i \in DOMAIN stack' /\ Takes(i, published)'
    BY <1>2, <1>3, <1>4, <1>7 DEF Takes
  <2> QED
    BY <1>1, <1>2, <2>1 DEF PublishedIsOwed, Busy
<1>14. FallbackIsAsked'
  <2>1. \A q : BeingAsked(q) /\ q # r => BeingAsked(q)'
    BY <1>4, <1>5, <1>7 DEF BeingAsked
  <2>2. CASE /\ fallback.operation = requests[r].operation /\ fallback.request = r
             /\ fallback' = [fallback EXCEPT !.job = r]
             /\ asked' = asked \ ({fallback.job} \ {r})
    <3>1. /\ fallback'.job = r /\ fallback'.operation = fallback.operation
          /\ fallback'.request = r
      BY <1>1, <2>2 DEF TypeOK
    <3> QED
      BY <1>1, <1>2, <2>1, <2>2, <3>1 DEF FallbackIsAsked
  <2>3. CASE /\ ~(fallback.operation = requests[r].operation /\ fallback.request = r)
             /\ fallback' = fallback /\ asked' = asked \ {r}
    BY <1>1, <1>2, <2>1, <2>3 DEF FallbackIsAsked
  <2> QED
    BY <1>8, <2>2, <2>3
<1> QED
  BY <1>9, <1>10, <1>11, <1>12, <1>13, <1>14 DEF IInv

-----------------------------------------------------------------------------

LEMMA NextPreserves == ConstantsAreSound /\ IInv /\ [Next]_vars => IInv'
<1> SUFFICES ASSUME ConstantsAreSound, IInv, [Next]_vars PROVE IInv'
  OBVIOUS
<1>1. CASE DeletionContinues
  BY <1>1, PublishStartedPreserves, CallProviderPreserves, KeepJobPreserves, SettlePreserves
  DEF DeletionContinues
<1>2. CASE FallbackContinues
  BY <1>2, OpenFallbackPreserves, OpenNoFallbackPreserves, CancelFileReturnsPreserves,
     CancelFallbackReturnsPreserves, SettledReturnsPreserves, AskReturnsPreserves
  DEF FallbackContinues
<1>3. ASSUME NEW d \in Deletions, ProviderAnswers(d) PROVE IInv'
  BY <1>3, FileDeletedPreserves, FileKeptPreserves DEF ProviderAnswers
<1>4. ASSUME NEW r \in DOMAIN requests, CandidatesArrive(r) PROVE IInv'
  BY <1>4, FallbackFoundPreserves, TryBookPreserves, NothingFoundPreserves DEF CandidatesArrive
<1>5. CASE UNCHANGED vars
  <2>1. UNCHANGED <<alive, document, deletions, state, published, seen, job, running, fallback,
                    requests, asked, stack>>
    BY <1>5 DEF vars, controller, fallbackState
  <2>2. TypeOK' /\ FramesAreTheirs' /\ BusyWithLatest'
    BY <2>1 DEF IInv, TypeOK, FramesAreTheirs, FrameIsTheirs, BusyWithLatest, Busy
  <2>3. SomebodySettles'
    BY <2>1 DEF IInv, SomebodySettles, Kept, OnTheWay, OpeningFallback, Latest, Falls, Top, Busy
  <2>4. PublishedIsOwed' /\ FallbackIsAsked'
    BY <2>1 DEF IInv, PublishedIsOwed, FallbackIsAsked, Takes, BeingAsked, Busy
  <2> QED
    BY <2>2, <2>3, <2>4 DEF IInv
<1> QED
  BY <1>1, <1>2, <1>3, <1>4, <1>5, DeletePreserves, CancelDeletionPreserves, ShowImagePreserves,
     DestroyPreserves
  DEF Next

\* At rest nobody owes anything, and nobody is being asked.
LEMMA RestsWhole == ASSUME IInv PROVE RestingIsWhole
<1> SUFFICES ASSUME alive, stack = <<>>
             PROVE  /\ Busy = (published # None) /\ seen = Busy
                    /\ Busy => /\ published = state.active /\ job = state.active
                               /\ job \in running
                    /\ fallback.operation # None => /\ fallback.request \in asked
                                                    /\ fallback.job = fallback.request
                    /\ asked \subseteq {fallback.job}
  BY DEF RestingIsWhole, Busy
<1>1. /\ TypeOK /\ BusyWithLatest /\ SomebodySettles /\ PublishedIsOwed /\ FallbackIsAsked
  BY DEF IInv
<1>2. DOMAIN stack = {}
  OBVIOUS
<1>3. Busy => Kept /\ state.active = deletions /\ deletions # None
  <2>1. ~OnTheWay /\ ~OpeningFallback
    BY <1>2 DEF OnTheWay, OpeningFallback, Latest
  <2> QED
    BY <1>1, <2>1 DEF SomebodySettles, BusyWithLatest
<1>4. published # None => Busy
  BY <1>1, <1>2 DEF PublishedIsOwed
<1>5. Busy \in BOOLEAN /\ seen \in BOOLEAN
  BY <1>1 DEF TypeOK, Busy
<1>6. Busy = (published # None) /\ seen = Busy
  BY <1>1, <1>3, <1>4, <1>5 DEF Kept, PublishedIsOwed
<1>7. \A r : ~BeingAsked(r)
  BY <1>2 DEF BeingAsked
<1> QED
  BY <1>1, <1>3, <1>6, <1>7 DEF Kept, FallbackIsAsked

-----------------------------------------------------------------------------

\* The strengthened invariant holds in every reachable state, for any number of deletions
\* and requests.
THEOREM Inductive == ASSUME ConstantsAreSound PROVE Spec => []IInv
<1>1. Init => IInv
  BY InitHolds
<1>2. IInv /\ [Next]_vars => IInv'
  BY NextPreserves
<1> QED
  BY <1>1, <1>2, PTL DEF Spec

\* Every variable keeps its type.
THEOREM TypeCorrect == ASSUME ConstantsAreSound PROVE Spec => []TypeOK
<1>1. IInv => TypeOK
  BY DEF IInv
<1> QED
  BY <1>1, Inductive, PTL

\* When all calls have returned, the subscribers know what is true, the provider at work
\* can be cancelled and no unwanted request is left.
THEOREM RestIsWhole == ASSUME ConstantsAreSound PROVE Spec => []RestingIsWhole
<1>1. IInv => RestingIsWhole
  BY RestsWhole
<1> QED
  BY <1>1, Inductive, PTL
=============================================================================
