------------------------ MODULE VideoDocumentProofs ------------------------
(***************************************************************************)
(* Proofs about VideoDocument: every safety property its run checks, and   *)
(* that it implements LatestRequest, for any locations and any number of   *)
(* calls made from inside one another.  That a change of source settles is *)
(* liveness and stays with TLC.                                            *)
(***************************************************************************)
EXTENDS VideoDocument, SequenceTheorems, TLAPS

Depth == Len(stack)

\* TypeOK, one variable at a time.
Types ==
  /\ asked \in Seq(Urls \cup {NoUrl}) /\ Len(asked) \in Nat /\ Len(asked) <= MaxCalls
  /\ admitted \in 0..Len(asked) /\ transition \in 0..Len(asked)
  /\ lifecycle \in 0..Len(asked) /\ backend \in 0..Len(asked)
  /\ device \in 0..Len(asked) /\ shown \in 0..Len(asked)
  /\ failure \in 0..Len(asked) /\ metadata \in 0..Len(asked)
  /\ parsing \in 0..Len(asked)
  /\ stack \in Seq(Frames) /\ Depth \in Nat /\ alive \in BOOLEAN
  /\ phase \in Phases /\ (phase = "idle" <=> transition = None)
  /\ status \in Statuses
  /\ requests \subseteq Calls /\ jobs \subseteq Calls /\ connected \subseteq Calls
  /\ media \in [Calls -> MediaStatuses]

\* The frame that carries the current transition; there is at most one.
Current(i) == alive /\ transition # None /\ stack[i].op = transition

Clean == lifecycle = None /\ backend = None /\ device = None
BackendPlaces == {"loading", "reporting"}
LatePlaces == ApplyPlaces \cup {"resetting"}

\* Frames belong to different calls, those with a result to apply to calls with a location.
FrameIsCall(i) ==
  /\ stack[i].op \in 0..Len(asked)
  /\ stack[i].op = None => ~alive /\ stack[i].at \in RetirePlaces \cup {"quitting"}
  /\ stack[i].at = "quitting" => stack[i].op = None
  /\ stack[i].op \notin requests
  /\ stack[i].byDevice \/ stack[i].at \in ApplyPlaces => UrlOf(stack[i].op) # NoUrl

FramesAreCalls ==
  /\ \A i \in 1..Depth : FrameIsCall(i)
  /\ \A i, j \in 1..Depth : stack[i].op = stack[j].op => i = j

RequestsAreCalls ==
  /\ requests \subseteq 1..Len(asked)
  /\ \A c \in requests : UrlOf(c) # NoUrl

TransitionIsLatest ==
  /\ transition \in {None, admitted}
  /\ ~alive => transition = None
  /\ alive /\ transition = None => shown = admitted /\ backend = lifecycle

\* A transition waits for the resolver or has its frame on the stack.
SomebodyContinues ==
  alive /\ transition # None => transition \in requests \/ \E i \in 1..Depth : Current(i)

WaitingIsClean ==
  transition \in requests =>
    phase = "resolving" /\ shown = transition /\ Clean /\ status = "loading"

\* What the current frame has done by the place it has reached.
PlaceIsReached(i) ==
  /\ stack[i].at = "cancelling" => backend < transition
  /\ stack[i].at \in BackendPlaces => lifecycle = transition /\ backend = transition
  /\ stack[i].at \notin BackendPlaces => lifecycle = None
  /\ stack[i].at \notin BackendPlaces \cup {"cancelling"} => Clean
  /\ stack[i].at \in LatePlaces => shown = transition
  /\ stack[i].at = "resetting" /\ UrlOf(transition) # NoUrl => status = "loading"
  /\ stack[i].at \in ApplyPlaces \/ stack[i].byDevice => phase = "applying"

ChangeIsOrdered == \A i \in 1..Depth : Current(i) => PlaceIsReached(i)

\* What may report to the document is about the source that is shown and was admitted last.
PlayingIsShown ==
  /\ lifecycle # None => /\ lifecycle = backend /\ lifecycle = shown /\ lifecycle = admitted
                         /\ UrlOf(lifecycle) # NoUrl
  /\ parsing # None => parsing = shown /\ parsing = admitted
  /\ device \in {None, backend}

\* A backend that still holds callbacks is the installed one or is being retired by a frame.
RetiredAreLetGo ==
  /\ backend # None => backend \in connected
  /\ \A i \in 1..Depth : stack[i].at = "stopping" =>
        /\ stack[i].old # None /\ stack[i].old # backend
        /\ alive => stack[i].old < admitted
  /\ \A b \in connected :
        b = backend \/ \E i \in 1..Depth : stack[i].at = "stopping" /\ stack[i].old = b

StatusAgrees ==
  /\ (status = "error") <=> (failure # None)
  /\ failure \in {None, shown}
  /\ (status = "null") <=> (SourceUrl = NoUrl)
  /\ alive /\ lifecycle # None =>
       \/ status \in {media[lifecycle], "error"}
       \/ \E i \in 1..Depth : Current(i) /\ stack[i].at = "loading"

IInv == /\ Types /\ FramesAreCalls /\ RequestsAreCalls /\ TransitionIsLatest
        /\ SomebodyContinues /\ WaitingIsClean /\ ChangeIsOrdered /\ PlayingIsShown
        /\ RetiredAreLetGo /\ StatusAgrees

-----------------------------------------------------------------------------
(* Facts about the values the actions use. *)

LEMMA TypesSuffice == Types <=> TypeOK
  BY CallAssumption DEF Types, TypeOK, Optional, None, Depth

LEMMA UrlTypes ==
  ASSUME Types, NEW c \in 0..Len(asked)
  PROVE  UrlOf(c) \in Urls \cup {NoUrl}
<1>1. Len(asked) \in Nat /\ \A i \in 1..Len(asked) : asked[i] \in Urls \cup {NoUrl}
  BY DEF Types
<1> QED
  BY <1>1 DEF UrlOf, None

LEMMA AskGrows ==
  ASSUME Types, NEW u \in Urls \cup {NoUrl}, Ask(u)
  PROVE  /\ asked' \in Seq(Urls \cup {NoUrl})
         /\ Len(asked') = Len(asked) + 1 /\ Len(asked') <= MaxCalls
         /\ \A c \in 0..Len(asked) : UrlOf(c)' = UrlOf(c)
         /\ \A c : c = Len(asked) + 1 => UrlOf(c)' = u
<1>1. asked \in Seq(Urls \cup {NoUrl}) /\ Len(asked) \in Nat /\ asked' = Append(asked, u)
      /\ Len(asked) < MaxCalls
  BY DEF Types, Ask
<1>2. Len(asked') = Len(asked) + 1 /\ asked'[Len(asked) + 1] = u
      /\ \A i \in 1..Len(asked) : asked'[i] = asked[i]
  BY <1>1
<1> QED
  BY <1>1, <1>2, CallAssumption DEF UrlOf, None

LEMMA FrameFields ==
  ASSUME Types, NEW i \in 1..Depth
  PROVE  /\ stack[i] \in Frames
         /\ stack[i].op \in 0..MaxCalls /\ stack[i].old \in 0..MaxCalls
         /\ stack[i].at \in Places /\ stack[i].byDevice \in BOOLEAN
<1>1. stack[i] \in Frames
  BY DEF Types, Depth
<1> QED
  BY <1>1, CallAssumption DEF Frames, Optional, Calls, None

\* The three things a step does to the stack.
LEMMA PushFacts ==
  ASSUME Types, NEW f \in Frames, Push(f)
  PROVE  /\ stack' \in Seq(Frames) /\ Depth' = Depth + 1 /\ stack'[Depth'] = f
         /\ \A i \in 1..Depth : stack'[i] = stack[i]
         /\ \A i \in 1..Depth' : i \in 1..Depth \/ i = Depth'
         /\ 1..Depth \subseteq 1..Depth' /\ Depth' \in 1..Depth' /\ Depth' \notin 1..Depth
<1>1. /\ stack' \in Seq(Frames) /\ Depth' = Depth + 1 /\ stack'[Depth + 1] = f
      /\ \A i \in 1..Depth : stack'[i] = stack[i]
  BY DEF Types, Push, Depth
<1>2. Depth \in Nat
  BY DEF Types
<1> QED
  BY <1>1, <1>2

LEMMA ReturnFacts ==
  ASSUME Types, stack # <<>>, Return
  PROVE  /\ stack' \in Seq(Frames) /\ Depth \in Nat \ {0} /\ Depth' = Depth - 1
         /\ \A i \in 1..(Depth - 1) : stack'[i] = stack[i]
<1>1. stack \in Seq(Frames) /\ Depth \in Nat \ {0} /\ stack' = SubSeq(stack, 1, Depth - 1)
  BY DEF Types, Return, Depth
<1>2. Depth - 1 \in Int /\ \A i \in 1..(Depth - 1) : stack[i] \in Frames
  BY <1>1 DEF Depth
<1>3. /\ stack' \in Seq(Frames) /\ Len(stack') = IF 1 <= Depth - 1 THEN Depth - 1 - 1 + 1 ELSE 0
      /\ \A i \in 1..(Depth - 1 - 1 + 1) : stack'[i] = stack[1 + i - 1]
  BY <1>1, <1>2, SubSeqProperties
<1>4. Len(stack') = Depth - 1
  BY <1>1, <1>3
<1>5. ASSUME NEW i \in 1..(Depth - 1) PROVE stack'[i] = stack[i]
  <2>1. i \in 1..(Depth - 1 - 1 + 1) /\ 1 + i - 1 = i
    BY <1>1
  <2> QED
    BY <1>3, <2>1
<1> QED
  BY <1>1, <1>3, <1>4, <1>5 DEF Depth

Advances(place) ==
  /\ stack' \in Seq(Frames) /\ Depth' = Depth /\ Depth \in 1..Depth
  /\ \A i \in 1..Depth : i # Depth => stack'[i] = stack[i]
  /\ stack'[Depth].op = stack[Depth].op /\ stack'[Depth].byDevice = stack[Depth].byDevice
  /\ stack'[Depth].at = place

LEMMA WaitFacts ==
  ASSUME Types, stack # <<>>, NEW place \in Places, WaitIn(place)
  PROVE  Advances(place)
<1>1. Depth \in Nat \ {0} /\ Top \in Frames /\ stack \in Seq(Frames) /\ Top = stack[Depth]
  BY DEF Types, Depth, Top
<1>2. stack' = [stack EXCEPT ![Depth] = [Top EXCEPT !.at = place]]
  BY <1>1 DEF WaitIn, Depth, Top
<1>3. [Top EXCEPT !.at = place] \in Frames
  BY <1>1 DEF Frames
<1>4. /\ [Top EXCEPT !.at = place].op = Top.op /\ [Top EXCEPT !.at = place].at = place
      /\ [Top EXCEPT !.at = place].byDevice = Top.byDevice
  BY <1>1 DEF Frames
<1> QED
  BY <1>1, <1>2, <1>3, <1>4 DEF Depth, Advances

LEMMA RetiringFacts ==
  ASSUME Types, stack # <<>>, NEW place \in Places, NEW b \in Optional(Calls),
         Retiring(place, b)
  PROVE  Advances(place) /\ stack'[Depth].old = b
<1>1. Depth \in Nat \ {0} /\ Top \in Frames /\ stack \in Seq(Frames) /\ Top = stack[Depth]
  BY DEF Types, Depth, Top
<1> DEFINE f == [Top EXCEPT !.at = place, !.old = b]
<1>2. stack' = [stack EXCEPT ![Depth] = f]
  BY <1>1 DEF Retiring, Depth, Top
<1>3. f \in Frames /\ f.op = Top.op /\ f.at = place /\ f.byDevice = Top.byDevice /\ f.old = b
  BY <1>1 DEF Frames
<1> HIDE DEF f
<1> QED
  BY <1>1, <1>2, <1>3 DEF Depth, Advances

LEMMA InitHolds == Init => IInv
<1> SUFFICES ASSUME Init PROVE IInv
  OBVIOUS
<1>1. stack = <<>> /\ asked = <<>> /\ Depth = 0 /\ Len(asked) = 0
  BY DEF Init, Depth
<1>2. Types
  BY <1>1, CallAssumption DEF Init, Types, None, Phases, Statuses, MediaStatuses
<1> QED
  BY <1>1, <1>2 DEF Init, IInv, FramesAreCalls, RequestsAreCalls, TransitionIsLatest,
     SomebodyContinues, WaitingIsClean, ChangeIsOrdered, PlayingIsShown, RetiredAreLetGo,
     StatusAgrees, SourceUrl, UrlOf, None

-----------------------------------------------------------------------------
(* Steps that only return. *)

Unchanged ==
  /\ asked' = asked /\ admitted' = admitted /\ alive' = alive /\ transition' = transition
  /\ phase' = phase /\ lifecycle' = lifecycle /\ backend' = backend /\ device' = device
  /\ shown' = shown /\ status' = status /\ failure' = failure /\ metadata' = metadata
  /\ parsing' = parsing /\ jobs' = jobs /\ requests' = requests /\ connected' = connected
  /\ media' = media

LEMMA ReturnPreserves ==
  ASSUME IInv, stack # <<>>, ~Current(Depth), stack[Depth].at # "stopping", Return, Unchanged
  PROVE  IInv'
<1> USE DEF IInv
<1>1. /\ stack' \in Seq(Frames) /\ Depth \in Nat \ {0} /\ Depth' = Depth - 1
      /\ \A i \in 1..(Depth - 1) : stack'[i] = stack[i]
  BY ReturnFacts
<1>2. 1..Depth' \subseteq 1..Depth /\ \A i \in 1..Depth : i \in 1..Depth' \/ i = Depth
  BY <1>1
<1>3. Types'
  BY <1>1 DEF Unchanged, Types
<1>4. FramesAreCalls'
  BY <1>1, <1>2 DEF Unchanged, FramesAreCalls, FrameIsCall, UrlOf
<1>5. RequestsAreCalls' /\ TransitionIsLatest' /\ WaitingIsClean' /\ PlayingIsShown'
  BY DEF Unchanged, RequestsAreCalls, TransitionIsLatest, WaitingIsClean, PlayingIsShown,
     Clean, UrlOf
<1>6. SomebodyContinues'
  BY <1>1, <1>2 DEF Unchanged, SomebodyContinues, Current
<1>7. ChangeIsOrdered'
  BY <1>1, <1>2 DEF Unchanged, ChangeIsOrdered, PlaceIsReached, Current, Clean, UrlOf
<1>8. RetiredAreLetGo'
  BY <1>1, <1>2 DEF Unchanged, RetiredAreLetGo
<1>9. StatusAgrees'
  BY <1>1, <1>2 DEF Unchanged, StatusAgrees, Current, SourceUrl, UrlOf
<1> QED
  BY <1>3, <1>4, <1>5, <1>6, <1>7, <1>8, <1>9

LEMMA SupersededPreserves ==
  ASSUME IInv, NEW place \in ChangePlaces \cup {"detaching", "creating", "failing"},
         Superseded(place)
  PROVE  IInv'
<1>1. stack # <<>> /\ Top = stack[Depth] /\ Top.at = place /\ Return /\ Unchanged
  BY DEF Superseded, In, Top, Depth, Unchanged, sourceState, documentState, metadataState,
     external
<1>2. ~Current(Depth) /\ stack[Depth].at # "stopping"
  BY <1>1 DEF Superseded, Accepted, Current, ChangePlaces
<1> QED
  BY <1>1, <1>2, ReturnPreserves

LEMMA BackendSupersededPreserves ==
  ASSUME IInv, NEW place \in BackendPlaces, BackendSuperseded(place)
  PROVE  IInv'
<1>1. stack # <<>> /\ Top = stack[Depth] /\ Top.at = place /\ Return /\ Unchanged
  BY DEF BackendSuperseded, In, Top, Depth, Unchanged, sourceState, documentState,
     metadataState, external
<1>2. Depth \in 1..Depth
  BY <1>1 DEF Depth, IInv, Types
<1>3. ~Current(Depth) /\ stack[Depth].at # "stopping"
  BY <1>1, <1>2 DEF BackendSuperseded, BackendAccepted, Accepted, Current, BackendPlaces,
     IInv, ChangeIsOrdered, PlaceIsReached
<1> QED
  BY <1>1, <1>3, ReturnPreserves

-----------------------------------------------------------------------------
(* Calls of the owner. *)

LEMMA KeepPreserves ==
  ASSUME IInv, NEW u \in Urls \cup {NoUrl}, Ask(u), stack' = stack,
         UNCHANGED <<admitted, alive, sourceState, documentState, metadataState, external>>
  PROVE  IInv'
<1> USE DEF IInv
<1>1. /\ asked' \in Seq(Urls \cup {NoUrl})
      /\ Len(asked') = Len(asked) + 1 /\ Len(asked') <= MaxCalls
      /\ \A c \in 0..Len(asked) : UrlOf(c)' = UrlOf(c)
  BY AskGrows
<1>2. /\ admitted' = admitted /\ alive' = alive /\ transition' = transition
      /\ phase' = phase /\ lifecycle' = lifecycle /\ backend' = backend /\ device' = device
      /\ shown' = shown /\ status' = status /\ failure' = failure /\ metadata' = metadata
      /\ parsing' = parsing /\ jobs' = jobs /\ requests' = requests /\ connected' = connected
      /\ media' = media /\ Depth' = Depth
  BY DEF sourceState, documentState, metadataState, external, Depth
<1>3. /\ Len(asked) \in Nat /\ 0..Len(asked) \subseteq 0..Len(asked')
      /\ 1..Len(asked) \subseteq 1..Len(asked')
      /\ transition \in 0..Len(asked) /\ lifecycle \in 0..Len(asked)
      /\ shown \in 0..Len(asked)
  BY <1>1 DEF Types
<1>4. Types'
  BY <1>1, <1>2, <1>3 DEF Types
<1>5. FramesAreCalls' /\ RequestsAreCalls'
  BY <1>1, <1>2, <1>3 DEF FramesAreCalls, FrameIsCall, RequestsAreCalls
<1>6. TransitionIsLatest' /\ SomebodyContinues' /\ WaitingIsClean' /\ RetiredAreLetGo'
  BY <1>2 DEF TransitionIsLatest, SomebodyContinues, WaitingIsClean, RetiredAreLetGo,
     Current, Clean
<1>7. ChangeIsOrdered' /\ PlayingIsShown' /\ StatusAgrees'
  <2>1. UrlOf(transition)' = UrlOf(transition) /\ UrlOf(lifecycle)' = UrlOf(lifecycle)
        /\ SourceUrl' = SourceUrl
    BY <1>1, <1>2, <1>3 DEF UrlOf, SourceUrl
  <2> QED
    BY <1>2, <2>1 DEF ChangeIsOrdered, PlaceIsReached, PlayingIsShown, StatusAgrees, Current, Clean
<1> QED
  BY <1>4, <1>5, <1>6, <1>7

LEMMA BeginPreserves ==
  ASSUME IInv, NEW u \in Urls \cup {NoUrl}, Ask(u), NEW byDevice \in BOOLEAN,
         byDevice => u # NoUrl, NEW p \in {"resolving", "applying"},
         byDevice => p = "applying",
         BeginSourceTransition(Len(asked) + 1, p, byDevice)
  PROVE  IInv'
<1> USE DEF IInv
<1>1. alive
  BY DEF Ask
<1> DEFINE c == Len(asked) + 1
           f == [op |-> c, at |-> "cancelling", byDevice |-> byDevice, local |-> FALSE,
                 old |-> None]
<1>2. /\ asked' \in Seq(Urls \cup {NoUrl})
      /\ Len(asked') = c /\ c <= MaxCalls
      /\ \A k \in 0..Len(asked) : UrlOf(k)' = UrlOf(k)
      /\ \A k : k = c => UrlOf(k)' = u
  BY AskGrows
<1>3. /\ admitted' = c /\ transition' = c /\ lifecycle' = None /\ parsing' = None
      /\ phase' = p /\ alive' = alive
      /\ backend' = backend /\ device' = device
      /\ shown' = shown /\ status' = status /\ failure' = failure /\ metadata' = metadata
      /\ jobs' = jobs /\ requests' = requests /\ connected' = connected
      /\ media' = media /\ Push(f)
  BY DEF BeginSourceTransition, InvalidatePlaybackCallbacks, documentState, external, Ask
<1>4. /\ Len(asked) \in Nat /\ MaxCalls \in Nat /\ c \in 1..MaxCalls
      /\ Depth \in Nat
      /\ admitted \in 0..Len(asked) /\ backend \in 0..Len(asked) /\ shown \in 0..Len(asked)
      /\ device \in 0..Len(asked) /\ failure \in 0..Len(asked) /\ metadata \in 0..Len(asked)
  BY <1>2, CallAssumption DEF Types
<1>5. f \in Frames
  BY <1>4 DEF Frames, Places, ChangePlaces, Optional, Calls
<1>6. /\ c = Len(asked) + 1 /\ f.op = c /\ f.at = "cancelling" /\ f.byDevice = byDevice
  OBVIOUS
<1> HIDE DEF c, f
<1>7. /\ stack' \in Seq(Frames) /\ Depth' = Depth + 1 /\ stack'[Depth'] = f
      /\ \A i \in 1..Depth : stack'[i] = stack[i]
      /\ \A i \in 1..Depth' : i \in 1..Depth \/ i = Depth'
      /\ 1..Depth \subseteq 1..Depth' /\ Depth' \in 1..Depth' /\ Depth' \notin 1..Depth
  BY <1>3, <1>5, PushFacts
<1>8. c \notin requests /\ \A i \in 1..Depth : stack[i].op # c
  BY <1>4, <1>6 DEF FramesAreCalls, FrameIsCall, RequestsAreCalls
<1>9. Types'
  <2>1. phase' \in Phases /\ (phase' = "idle" <=> transition' = None)
    BY <1>3, <1>4 DEF Phases, None
  <2>2. /\ stack' \in Seq(Frames) /\ Depth' \in Nat
        /\ alive' \in BOOLEAN /\ status' \in Statuses /\ media' \in [Calls -> MediaStatuses]
        /\ requests' \subseteq Calls /\ jobs' \subseteq Calls /\ connected' \subseteq Calls
    <3>1. stack' \in Seq(Frames) /\ Depth' \in Nat
      BY <1>4, <1>7
    <3>2. /\ alive \in BOOLEAN /\ status \in Statuses /\ media \in [Calls -> MediaStatuses]
          /\ requests \subseteq Calls /\ jobs \subseteq Calls /\ connected \subseteq Calls
      BY DEF Types
    <3> QED
      BY <1>3, <3>1, <3>2
  <2>3. 0..Len(asked) \subseteq 0..c /\ c \in 0..c /\ 0 \in 0..c /\ c \in Nat
    BY <1>4, <1>6
  <2>4. /\ admitted' \in 0..c /\ transition' \in 0..c /\ lifecycle' \in 0..c
        /\ backend' \in 0..c /\ device' \in 0..c /\ shown' \in 0..c
        /\ failure' \in 0..c /\ metadata' \in 0..c /\ parsing' \in 0..c
    BY <1>3, <1>4, <2>3 DEF None
  <2> QED
    BY <1>2, <2>1, <2>2, <2>3, <2>4 DEF Types
<1>10. FramesAreCalls'
  <2>1. ASSUME NEW i \in 1..Depth PROVE FrameIsCall(i)' /\ stack'[i].op # c
    <3>1. FrameIsCall(i) /\ stack[i].op # c /\ stack'[i] = stack[i]
      BY <1>7, <1>8 DEF FramesAreCalls
    <3>2. UrlOf(stack[i].op)' = UrlOf(stack[i].op) /\ stack[i].op \in 0..Len(asked')
      BY <1>2, <1>4, <1>6, <3>1 DEF UrlOf, FrameIsCall
    <3> QED
      BY <1>3, <3>1, <3>2 DEF FrameIsCall
  <2>2. ASSUME NEW i, i = Depth' PROVE FrameIsCall(i)' /\ stack'[i].op = c
    <3>1. /\ stack'[i].op = c /\ stack'[i].at = "cancelling"
          /\ stack'[i].byDevice = byDevice
      BY <1>6, <1>7, <2>2
    <3>2. UrlOf(stack[i].op)' = u /\ c # None /\ c \in 0..Len(asked')
      BY <1>2, <1>4, <1>6, <3>1 DEF UrlOf, None
    <3> QED
      BY <1>3, <1>8, <3>1, <3>2 DEF FrameIsCall, ApplyPlaces
  <2> QED
    BY <1>7, <2>1, <2>2 DEF FramesAreCalls
<1>11. RequestsAreCalls'
  BY <1>1, <1>2, <1>3, <1>4, <1>6 DEF RequestsAreCalls
<1>12. TransitionIsLatest' /\ SomebodyContinues' /\ WaitingIsClean'
  <2>1. Current(Depth)'
    BY <1>1, <1>3, <1>4, <1>6, <1>7 DEF Current, None
  <2> QED
    BY <1>1, <1>3, <1>4, <1>6, <1>7, <1>8, <2>1 DEF TransitionIsLatest, SomebodyContinues,
     WaitingIsClean, Current, None
<1>13. ChangeIsOrdered'
  <2>1. ASSUME NEW i \in 1..Depth', Current(i)' PROVE i = Depth'
    BY <1>3, <1>7, <1>8, <2>1 DEF Current
  <2>2. ASSUME NEW i, i = Depth' PROVE PlaceIsReached(i)'
    <3>1. stack'[i].at = "cancelling" /\ stack'[i].byDevice = byDevice
      BY <1>6, <1>7, <2>2
    <3>2. backend < c
      BY <1>4, <1>6
    <3> QED
      BY <1>3, <3>1, <3>2 DEF PlaceIsReached, BackendPlaces, LatePlaces, ApplyPlaces
  <2> QED
    BY <2>1, <2>2 DEF ChangeIsOrdered
<1>14. PlayingIsShown'
  BY <1>3 DEF PlayingIsShown
<1>15. RetiredAreLetGo'
  <2>1. ASSUME NEW i \in 1..Depth', stack'[i].at = "stopping"
        PROVE  /\ i \in 1..Depth /\ stack'[i] = stack[i]
               /\ stack[i].old # None /\ stack[i].old # backend /\ stack[i].old < c
    <3>1. i \in 1..Depth /\ stack'[i] = stack[i]
      BY <1>6, <1>7, <2>1
    <3>2. stack[i].old < admitted /\ stack[i].old # None /\ stack[i].old # backend
      BY <1>1, <2>1, <3>1 DEF RetiredAreLetGo
    <3>3. stack[i].old \in 0..MaxCalls
      BY <3>1, FrameFields
    <3> QED
      BY <1>4, <1>6, <3>1, <3>2, <3>3
  <2>2. ASSUME NEW i \in 1..Depth PROVE i \in 1..Depth' /\ stack'[i] = stack[i]
    BY <1>7
  <2> QED
    BY <1>3, <2>1, <2>2 DEF RetiredAreLetGo
<1>16. StatusAgrees'
  <2>1. SourceUrl' = SourceUrl
    BY <1>2, <1>3, <1>4 DEF SourceUrl, UrlOf
  <2> QED
    BY <1>3, <2>1 DEF StatusAgrees
<1> QED
  BY <1>9, <1>10, <1>11, <1>12, <1>13, <1>14, <1>15, <1>16

LEMMA DestroyPreserves ==
  ASSUME IInv, Destroy
  PROVE  IInv'
<1> USE DEF IInv
<1> DEFINE f == [op |-> None, at |-> "quitting", byDevice |-> FALSE, local |-> FALSE,
                 old |-> None]
<1>1. alive /\ ~alive' /\ alive' \in BOOLEAN
  BY DEF Destroy
<1>2. /\ transition' = None /\ parsing' = None /\ phase' = "idle"
      /\ asked' = asked /\ admitted' = admitted /\ lifecycle' = lifecycle
      /\ backend' = backend /\ device' = device
      /\ shown' = shown /\ status' = status /\ failure' = failure /\ metadata' = metadata
      /\ jobs' = jobs /\ requests' = requests /\ connected' = connected
      /\ media' = media /\ Push(f)
  BY DEF Destroy, documentState, external
<1>3. f \in Frames
  BY DEF Frames, Places, Optional
<1>4. /\ stack' \in Seq(Frames) /\ Depth' = Depth + 1 /\ stack'[Depth'] = f
      /\ \A i \in 1..Depth : stack'[i] = stack[i]
      /\ \A i \in 1..Depth' : i \in 1..Depth \/ i = Depth'
      /\ 1..Depth \subseteq 1..Depth' /\ Depth' \in 1..Depth' /\ Depth' \notin 1..Depth
  BY <1>2, <1>3, PushFacts
<1>5. Len(asked) \in Nat
  BY DEF Types
<1>6. f.op = None /\ f.at = "quitting" /\ ~f.byDevice
  OBVIOUS
<1> HIDE DEF f
<1>7. Types'
  <2>1. phase' \in Phases /\ (phase' = "idle" <=> transition' = None)
    BY <1>2 DEF Phases
  <2>2. stack' \in Seq(Frames) /\ Depth' \in Nat
    BY <1>4 DEF Types
  <2>3. transition' \in 0..Len(asked) /\ parsing' \in 0..Len(asked)
    BY <1>2, <1>5 DEF None
  <2> QED
    BY <1>1, <1>2, <2>1, <2>2, <2>3 DEF Types
<1>8. FramesAreCalls'
  <2>1. ASSUME NEW i \in 1..Depth PROVE FrameIsCall(i)' /\ stack'[i].op # None
    <3>1. FrameIsCall(i) /\ stack'[i] = stack[i] /\ stack[i].op # None
      BY <1>1, <1>4 DEF FramesAreCalls, FrameIsCall
    <3> QED
      BY <1>1, <1>2, <3>1 DEF FrameIsCall, UrlOf
  <2>2. ASSUME NEW i, i = Depth' PROVE FrameIsCall(i)' /\ stack'[i].op = None
    <3>1. stack'[i].op = None /\ stack'[i].at = "quitting" /\ ~stack'[i].byDevice
      BY <1>4, <1>6, <2>2
    <3>2. None \notin requests
      BY <1>5 DEF RequestsAreCalls, None
    <3> QED
      BY <1>1, <1>2, <1>5, <3>1, <3>2 DEF FrameIsCall, ApplyPlaces, None
  <2> QED
    BY <1>4, <2>1, <2>2 DEF FramesAreCalls
<1>9. RequestsAreCalls' /\ TransitionIsLatest' /\ SomebodyContinues' /\ WaitingIsClean'
  BY <1>1, <1>2, <1>5 DEF RequestsAreCalls, TransitionIsLatest, SomebodyContinues, WaitingIsClean,
     UrlOf, None
<1>10. ChangeIsOrdered' /\ PlayingIsShown'
  BY <1>1, <1>2 DEF ChangeIsOrdered, PlaceIsReached, PlayingIsShown, Current, UrlOf
<1>11. RetiredAreLetGo' /\ StatusAgrees'
  <2>1. stack'[Depth'].at # "stopping"
    BY <1>4, <1>6
  <2>2. RetiredAreLetGo'
    BY <1>1, <1>2, <1>4, <2>1 DEF RetiredAreLetGo
  <2>3. StatusAgrees'
    BY <1>1, <1>2 DEF StatusAgrees, SourceUrl, UrlOf
  <2> QED
    BY <2>2, <2>3
<1> QED
  BY <1>7, <1>8, <1>9, <1>10, <1>11

-----------------------------------------------------------------------------
(* Steps of the frame that carries the current transition. *)

LEMMA TopIsCurrent ==
  ASSUME IInv, stack # <<>>, Accepted(Top)
  PROVE  /\ alive /\ transition # None /\ transition = admitted
         /\ transition \in 1..Len(asked) /\ transition \in Calls
         /\ Top = stack[Depth] /\ Depth \in 1..Depth /\ Top.op = transition
         /\ transition \notin requests
         /\ \A i \in 1..Depth : Current(i) => i = Depth
         /\ FrameIsCall(Depth) /\ PlaceIsReached(Depth)
<1> USE DEF IInv
<1>1. Top = stack[Depth] /\ Depth \in 1..Depth
  BY DEF Top, Depth, Types
<1>2. FrameIsCall(Depth) /\ alive /\ Top.op = transition
  BY <1>1 DEF FramesAreCalls, Accepted
<1>3. transition # None /\ transition \notin requests
  BY <1>1, <1>2 DEF FrameIsCall
<1>4. transition \in 1..Len(asked) /\ transition = admitted /\ Len(asked) \in Nat
  BY <1>3 DEF Types, TransitionIsLatest, None
<1>5. Current(Depth)
  BY <1>1, <1>2, <1>3 DEF Current
<1>6. \A i \in 1..Depth : Current(i) => i = Depth
  BY <1>1, <1>2 DEF FramesAreCalls, Current
<1>7. 1..Len(asked) \subseteq Calls
  BY CallAssumption DEF Types, Calls
<1> QED
  BY <1>1, <1>2, <1>3, <1>4, <1>5, <1>6, <1>7 DEF ChangeIsOrdered

\* The current frame goes on to another call-out.
LEMMA AdvancePreserves ==
  ASSUME IInv, stack # <<>>, Accepted(Top), NEW place \in Places \ {"quitting"},
         Advances(place), place \in ApplyPlaces => UrlOf(transition) # NoUrl,
         UNCHANGED <<asked, admitted, alive, transition, requests>>,
         Types', PlaceIsReached(Depth)', PlayingIsShown', RetiredAreLetGo', StatusAgrees'
  PROVE  IInv'
<1>1. /\ alive /\ transition # None /\ transition = admitted
      /\ Depth \in 1..Depth /\ stack[Depth].op = transition
      /\ transition \notin requests
      /\ \A i \in 1..Depth : Current(i) => i = Depth
      /\ FrameIsCall(Depth)
  BY TopIsCurrent
<1>2. FramesAreCalls'
  <2>1. ASSUME NEW i \in 1..Depth PROVE FrameIsCall(i)' /\ stack'[i].op = stack[i].op
    <3>1. FrameIsCall(i) /\ stack'[i].op = stack[i].op
          /\ stack'[i].byDevice = stack[i].byDevice
      BY DEF Advances, IInv, FramesAreCalls
    <3>2. CASE i = Depth
      BY <1>1, <3>1, <3>2 DEF FrameIsCall, UrlOf, Advances
    <3>3. CASE i # Depth
      BY <3>1, <3>3 DEF FrameIsCall, UrlOf, Advances
    <3> QED
      BY <3>1, <3>2, <3>3
  <2> QED
    BY <2>1 DEF FramesAreCalls, Advances, IInv
<1>3. RequestsAreCalls' /\ TransitionIsLatest' /\ WaitingIsClean'
  BY <1>1 DEF IInv, RequestsAreCalls, TransitionIsLatest, WaitingIsClean, UrlOf
<1>4. Current(Depth)'
  BY <1>1 DEF Current, Advances
<1>5. SomebodyContinues'
  BY <1>1, <1>4 DEF SomebodyContinues, Advances
<1>6. ChangeIsOrdered'
  <2>1. ASSUME NEW i \in 1..Depth, Current(i)' PROVE i = Depth
    <3>1. stack[i].op = transition
      BY <2>1 DEF Current, Advances
    <3> QED
      BY <1>1, <3>1 DEF Current
  <2>2. ASSUME NEW i, i = Depth PROVE PlaceIsReached(i)'
    BY <2>2 DEF PlaceIsReached, Advances
  <2> QED
    BY <2>1, <2>2 DEF ChangeIsOrdered, Advances
<1> QED
  BY <1>2, <1>3, <1>5, <1>6 DEF IInv

\* After the destructor began little is left to keep.
LEMMA DeadPreserves ==
  ASSUME IInv, ~alive, UNCHANGED <<asked, admitted, alive, transition, requests>>,
         UNCHANGED <<shown, status, failure>>,
         Types', FramesAreCalls', PlayingIsShown', RetiredAreLetGo'
  PROVE  IInv'
<1>1. RequestsAreCalls' /\ TransitionIsLatest' /\ SomebodyContinues'
  BY DEF IInv, RequestsAreCalls, TransitionIsLatest, SomebodyContinues, UrlOf
<1>2. transition = None /\ None \notin requests
  BY DEF IInv, Types, TransitionIsLatest, RequestsAreCalls, None
<1>3. WaitingIsClean' /\ ChangeIsOrdered' /\ StatusAgrees'
  BY <1>2 DEF IInv, WaitingIsClean, ChangeIsOrdered, Current, StatusAgrees, SourceUrl, UrlOf
<1> QED
  BY <1>1, <1>3 DEF IInv

LEMMA RetirePreserves ==
  ASSUME IInv, RetirePlaybackSource
  PROVE  IInv'
<1>1. /\ lifecycle' = None /\ device' = None /\ backend' = None
      /\ UNCHANGED <<asked, admitted, alive, transition, phase>>
      /\ UNCHANGED <<shown, status, failure, metadata, parsing, jobs>>
      /\ UNCHANGED <<requests, connected, media>>
      /\ stack # <<>> /\ Top = stack[Depth] /\ Depth \in 1..Depth
  BY DEF RetirePlaybackSource, InvalidatePlaybackCallbacks, CallOutReturns, In, documentState,
     metadataState, external, Top, Depth, IInv, Types
<1>2. /\ Types
      /\ backend \in Optional(Calls) /\ backend \in 0..Len(asked) /\ 0 \in 0..Len(asked)
  BY CallAssumption DEF IInv, Types, Optional, Calls, None
<1>3. ASSUME stack' \in Seq(Frames), Depth' \in Nat PROVE Types'
  BY <1>1, <1>2, <1>3 DEF Types, None
<1>4. CASE backend # None /\ Retiring("stopping", backend)
  <2>1. Advances("stopping") /\ stack'[Depth].old = backend
    BY <1>1, <1>2, <1>4, RetiringFacts DEF Places, RetirePlaces
  <2>2. Types'
    BY <1>2, <1>3, <2>1 DEF Advances, Types
  <2>3. PlayingIsShown'
    BY <1>1 DEF PlayingIsShown, IInv
  <2>4. RetiredAreLetGo'
    <3>1. alive => backend < admitted
      <4>1. CASE In("quitting")
        BY <1>1, <4>1 DEF In, IInv, FramesAreCalls, FrameIsCall
      <4>2. CASE CallOutReturns("cancelling")
        BY <1>1, <4>2, TopIsCurrent DEF CallOutReturns, In, PlaceIsReached
      <4> QED
        BY <4>1, <4>2 DEF RetirePlaybackSource
    <3>2. ASSUME NEW i \in 1..Depth, stack'[i].at = "stopping"
          PROVE  /\ stack'[i].old # None /\ stack'[i].old # backend'
                 /\ alive => stack'[i].old < admitted
      BY <1>1, <1>4, <2>1, <3>1, <3>2 DEF Advances, IInv, RetiredAreLetGo
    <3>3. ASSUME NEW b \in connected
          PROVE  \E i \in 1..Depth : stack'[i].at = "stopping" /\ stack'[i].old = b
      <4>1. CASE b = backend
        BY <1>1, <2>1, <4>1 DEF Advances
      <4>2. CASE b # backend
        <5>1. PICK i \in 1..Depth : stack[i].at = "stopping" /\ stack[i].old = b
          BY <4>2 DEF IInv, RetiredAreLetGo
        <5>2. i # Depth
          BY <1>1, <5>1 DEF RetirePlaybackSource, In, CallOutReturns
        <5> QED
          BY <2>1, <5>1, <5>2 DEF Advances
      <4> QED
        BY <4>1, <4>2
    <3> QED
      BY <1>1, <2>1, <3>2, <3>3 DEF RetiredAreLetGo, Advances
  <2>5. CASE In("quitting")
    <3>1. ~alive /\ stack[Depth].op = None
      BY <1>1, <2>5 DEF In, IInv, FramesAreCalls, FrameIsCall
    <3>2. FramesAreCalls'
      <4>1. ASSUME NEW i \in 1..Depth PROVE FrameIsCall(i)' /\ stack'[i].op = stack[i].op
        <5>1. FrameIsCall(i) /\ stack'[i].op = stack[i].op
              /\ stack'[i].byDevice = stack[i].byDevice
          BY <2>1 DEF Advances, IInv, FramesAreCalls
        <5>2. i = Depth => stack'[i].at = "stopping"
          BY <2>1 DEF Advances
        <5>3. i # Depth => stack'[i] = stack[i]
          BY <2>1 DEF Advances
        <5>4. CASE i = Depth
          BY <1>1, <3>1, <5>1, <5>2, <5>4 DEF FrameIsCall, UrlOf, RetirePlaces, ApplyPlaces
        <5>5. CASE i # Depth
          BY <1>1, <5>1, <5>3, <5>5 DEF FrameIsCall, UrlOf
        <5> QED
          BY <5>1, <5>4, <5>5
      <4> QED
        BY <2>1, <4>1 DEF FramesAreCalls, Advances, IInv
    <3> QED
      BY <1>1, <2>2, <2>3, <2>4, <3>1, <3>2, DeadPreserves
  <2>6. CASE CallOutReturns("cancelling")
    <3>1. Accepted(Top)
      BY <2>6 DEF CallOutReturns
    <3>2. PlaceIsReached(Depth)'
      <4>1. PlaceIsReached(Depth) /\ stack[Depth].at = "cancelling"
        BY <1>1, <2>6, <3>1, TopIsCurrent DEF CallOutReturns, In
      <4>2. /\ stack'[Depth'].at = "stopping"
            /\ stack'[Depth'].byDevice = stack[Depth].byDevice
        BY <2>1 DEF Advances
      <4> QED
        BY <1>1, <4>1, <4>2 DEF PlaceIsReached, BackendPlaces, LatePlaces, ApplyPlaces, Clean
    <3>3. StatusAgrees'
      BY <1>1 DEF StatusAgrees, IInv, SourceUrl, UrlOf
    <3>4. "stopping" \in Places \ {"quitting"} /\ "stopping" \notin ApplyPlaces
      BY DEF Places, RetirePlaces, ApplyPlaces
    <3> QED
      BY <1>1, <2>1, <2>2, <2>3, <2>4, <3>1, <3>2, <3>3, <3>4, AdvancePreserves
  <2> QED
    BY <2>5, <2>6 DEF RetirePlaybackSource
<1>5. CASE backend = None /\ In("cancelling") /\ WaitIn("replacing")
  <2>1. Advances("replacing")
    BY <1>1, <1>2, <1>5, WaitFacts DEF Places, ChangePlaces
  <2>2. Types' /\ PlayingIsShown' /\ StatusAgrees'
    BY <1>1, <1>2, <1>3, <2>1 DEF Advances, Types, PlayingIsShown, StatusAgrees, IInv,
       SourceUrl, UrlOf
  <2>3. RetiredAreLetGo'
    <3>1. ASSUME NEW i \in 1..Depth
          PROVE  stack'[i].at = "stopping" <=> stack[i].at = "stopping"
      BY <1>1, <1>5, <2>1 DEF Advances, In
    <3>2. ASSUME NEW i \in 1..Depth, stack[i].at = "stopping" PROVE stack'[i] = stack[i]
      BY <1>1, <1>5, <2>1, <3>2 DEF Advances, In
    <3> QED
      BY <1>1, <1>5, <2>1, <3>1, <3>2 DEF RetiredAreLetGo, Advances, IInv
  <2>4. Accepted(Top) /\ Top.at = "cancelling"
    BY <1>5 DEF RetirePlaybackSource, CallOutReturns, In
  <2>5. PlaceIsReached(Depth)'
    <3>1. PlaceIsReached(Depth) /\ stack[Depth].at = "cancelling"
      BY <1>1, <2>4, TopIsCurrent
    <3>2. stack'[Depth'].at = "replacing" /\ stack'[Depth'].byDevice = stack[Depth].byDevice
      BY <2>1 DEF Advances
    <3> QED
      BY <1>1, <3>1, <3>2 DEF PlaceIsReached, BackendPlaces, LatePlaces, ApplyPlaces, Clean
  <2>6. "replacing" \in Places \ {"quitting"} /\ "replacing" \notin ApplyPlaces
    BY DEF Places, ChangePlaces, ApplyPlaces
  <2> QED
    BY <1>1, <2>1, <2>2, <2>3, <2>4, <2>5, <2>6, AdvancePreserves
<1>6. CASE backend = None /\ In("quitting") /\ Return
  <2>1. /\ stack' \in Seq(Frames) /\ Depth \in Nat \ {0} /\ Depth' = Depth - 1
        /\ \A i \in 1..(Depth - 1) : stack'[i] = stack[i]
    BY <1>1, <1>2, <1>6, ReturnFacts
  <2>2. 1..Depth' \subseteq 1..Depth /\ \A i \in 1..Depth : i \in 1..Depth' \/ i = Depth
    BY <2>1
  <2>3. ~alive /\ stack[Depth].at = "quitting"
    BY <1>1, <1>6 DEF In, IInv, FramesAreCalls, FrameIsCall
  <2>4. FramesAreCalls'
    BY <1>1, <2>1, <2>2 DEF IInv, FramesAreCalls, FrameIsCall, UrlOf
  <2>5. PlayingIsShown' /\ Types'
    BY <1>1, <1>2, <1>3, <2>1 DEF Types, PlayingIsShown, IInv
  <2>6. RetiredAreLetGo'
    BY <1>1, <1>6, <2>1, <2>2, <2>3 DEF RetiredAreLetGo, IInv
  <2> QED
    BY <1>1, <2>3, <2>4, <2>5, <2>6, DeadPreserves
<1> QED
  BY <1>4, <1>5, <1>6 DEF RetirePlaybackSource

LEMMA AdvanceKeepsRetired ==
  ASSUME IInv, NEW place \in Places \ {"stopping"}, Advances(place),
         stack[Depth].at # "stopping", UNCHANGED <<admitted, alive, backend, connected>>
  PROVE  RetiredAreLetGo'
<1>1. ASSUME NEW i \in 1..Depth
      PROVE  /\ stack'[i].at = "stopping" <=> stack[i].at = "stopping"
             /\ stack[i].at = "stopping" => stack'[i] = stack[i]
  BY DEF Advances
<1> QED
  BY <1>1 DEF RetiredAreLetGo, Advances, IInv

LEMMA DetachPreserves ==
  ASSUME IInv, DetachRetired
  PROVE  IInv'
<1> USE DEF IInv
<1> DEFINE old == stack[Depth].old
<1>1. /\ UNCHANGED <<asked, admitted, alive, transition, phase, lifecycle, backend, device>>
      /\ UNCHANGED <<shown, status, failure, metadata, parsing, jobs, requests>>
      /\ connected' = connected \ {old} /\ media' = [media EXCEPT ![old] = "loading"]
      /\ stack # <<>> /\ Depth \in 1..Depth /\ stack[Depth].at = "stopping"
  BY DEF DetachRetired, DisconnectRetired, In, sourceState, documentState, metadataState, Top,
     Depth, Types
<1>2. Advances("detaching")
  <2>1. None \in Optional(Calls) /\ "detaching" \in Places
    BY DEF Optional, Places, RetirePlaces
  <2> QED
    BY <1>1, <2>1, RetiringFacts DEF DetachRetired
<1>3. old # None /\ old # backend
  BY <1>1 DEF RetiredAreLetGo
<1>4. Types'
  <2>1. media' \in [Calls -> MediaStatuses] /\ connected' \subseteq Calls
    BY <1>1 DEF Types, MediaStatuses
  <2>2. stack' \in Seq(Frames) /\ Depth' = Depth
    BY <1>2 DEF Advances
  <2> QED
    BY <1>1, <2>1, <2>2 DEF Types
<1> HIDE DEF old
<1>5. FramesAreCalls'
  <2>1. ASSUME NEW i \in 1..Depth PROVE FrameIsCall(i)' /\ stack'[i].op = stack[i].op
    <3>1. FrameIsCall(i) /\ stack'[i].op = stack[i].op
          /\ stack'[i].byDevice = stack[i].byDevice
      BY <1>2 DEF Advances, FramesAreCalls
    <3>2. CASE i = Depth
      <4>1. stack'[i].at = "detaching"
        BY <1>2, <3>2 DEF Advances
      <4> QED
        BY <1>1, <3>1, <3>2, <4>1 DEF FrameIsCall, UrlOf, RetirePlaces, ApplyPlaces
    <3>3. CASE i # Depth
      <4>1. stack'[i] = stack[i]
        BY <1>2, <3>3 DEF Advances
      <4> QED
        BY <1>1, <3>1, <4>1 DEF FrameIsCall, UrlOf
    <3> QED
      BY <3>1, <3>2, <3>3
  <2> QED
    BY <1>2, <2>1 DEF FramesAreCalls, Advances
<1>6. RequestsAreCalls' /\ TransitionIsLatest' /\ WaitingIsClean' /\ PlayingIsShown'
  BY <1>1 DEF RequestsAreCalls, TransitionIsLatest, WaitingIsClean, PlayingIsShown, Clean,
     UrlOf
<1>7. \A i \in 1..Depth : Current(i)' <=> Current(i)
  BY <1>1, <1>2 DEF Current, Advances
<1>8. SomebodyContinues'
  BY <1>1, <1>2, <1>7 DEF SomebodyContinues, Advances
<1>9. ChangeIsOrdered'
  <2>1. ASSUME NEW i \in 1..Depth, Current(i) PROVE PlaceIsReached(i)'
    <3>1. PlaceIsReached(i)
      BY <2>1 DEF ChangeIsOrdered
    <3>2. CASE i = Depth
      <4>1. /\ stack'[i].at = "detaching" /\ stack'[i].byDevice = stack[i].byDevice
            /\ stack[i].at = "stopping"
        BY <1>1, <1>2, <3>2 DEF Advances
      <4> QED
        BY <1>1, <3>1, <4>1 DEF PlaceIsReached, BackendPlaces, LatePlaces, ApplyPlaces, Clean
    <3>3. CASE i # Depth
      <4>1. stack'[i] = stack[i]
        BY <1>2, <3>3 DEF Advances
      <4> QED
        BY <1>1, <3>1, <4>1 DEF PlaceIsReached, Clean, UrlOf
    <3> QED
      BY <3>2, <3>3
  <2> QED
    BY <1>2, <1>7, <2>1 DEF ChangeIsOrdered, Advances
<1>10. RetiredAreLetGo'
  <2>1. ASSUME NEW i \in 1..Depth, stack'[i].at = "stopping"
        PROVE  i # Depth /\ stack'[i] = stack[i]
    BY <1>2, <2>1 DEF Advances
  <2>2. ASSUME NEW b \in connected', b # backend
        PROVE  \E i \in 1..Depth : stack'[i].at = "stopping" /\ stack'[i].old = b
    <3>1. PICK i \in 1..Depth : stack[i].at = "stopping" /\ stack[i].old = b
      BY <1>1, <2>2 DEF RetiredAreLetGo
    <3>2. i # Depth
      BY <1>1, <2>2, <3>1 DEF old
    <3> QED
      BY <1>2, <3>1, <3>2 DEF Advances
  <2>3. Depth' = Depth
    BY <1>2 DEF Advances
  <2> QED
    BY <1>1, <1>3, <2>1, <2>2, <2>3 DEF RetiredAreLetGo
<1>11. StatusAgrees'
  <2>1. alive /\ lifecycle # None => media'[lifecycle] = media[lifecycle]
    BY <1>1, <1>3 DEF PlayingIsShown, Types
  <2>2. ASSUME NEW i \in 1..Depth, stack[i].at = "loading" PROVE stack'[i] = stack[i]
    BY <1>1, <1>2, <2>2 DEF Advances
  <2>3. Depth' = Depth
    BY <1>2 DEF Advances
  <2> QED
    BY <1>1, <1>7, <2>1, <2>2, <2>3 DEF StatusAgrees, SourceUrl, UrlOf
<1> QED
  BY <1>4, <1>5, <1>6, <1>8, <1>9, <1>10, <1>11

LEMMA ReplacePreserves ==
  ASSUME IInv, ReplacePlaybackControlSource
  PROVE  IInv'
<1>1. /\ UNCHANGED <<asked, admitted, alive, transition, phase, lifecycle, backend, device>>
      /\ UNCHANGED <<shown, status, failure, metadata, parsing, jobs, requests>>
      /\ UNCHANGED <<connected, media>>
      /\ stack # <<>> /\ Accepted(Top) /\ Top.at = "detaching" /\ WaitIn("replacing")
  BY DEF ReplacePlaybackControlSource, CallOutReturns, In, sourceState, documentState,
     metadataState, external
<1>2. "replacing" \in Places \ {"quitting", "stopping"} /\ "replacing" \notin ApplyPlaces
  BY DEF Places, ChangePlaces, ApplyPlaces
<1>3. Advances("replacing")
  BY <1>1, <1>2, WaitFacts DEF IInv
<1>4. /\ transition # None /\ Depth \in 1..Depth /\ PlaceIsReached(Depth)
      /\ stack[Depth].at = "detaching" /\ \A i \in 1..Depth : Current(i) => i = Depth
  BY <1>1, TopIsCurrent
<1>5. Types' /\ PlayingIsShown'
  BY <1>1, <1>3 DEF IInv, Types, PlayingIsShown, Advances, UrlOf
<1>6. PlaceIsReached(Depth)'
  <2>1. stack'[Depth'].at = "replacing" /\ stack'[Depth'].byDevice = stack[Depth].byDevice
    BY <1>3 DEF Advances
  <2> QED
    BY <1>1, <1>4, <2>1 DEF PlaceIsReached, BackendPlaces, LatePlaces, ApplyPlaces, Clean
<1>7. RetiredAreLetGo'
  BY <1>1, <1>2, <1>3, <1>4, AdvanceKeepsRetired
<1>8. StatusAgrees'
  <2>1. lifecycle = None
    BY <1>4 DEF PlaceIsReached, BackendPlaces
  <2> QED
    BY <1>1, <2>1 DEF IInv, StatusAgrees, SourceUrl, UrlOf
<1> QED
  BY <1>1, <1>2, <1>3, <1>5, <1>6, <1>7, <1>8, AdvancePreserves

LEMMA ResetPreserves ==
  ASSUME IInv, ResetSource
  PROVE  IInv'
<1>1. /\ UNCHANGED <<asked, admitted, alive, transition, phase, lifecycle, backend, device>>
      /\ UNCHANGED <<parsing, jobs, requests, connected, media>>
      /\ shown' = Top.op /\ failure' = None /\ metadata' = None
      /\ status' = IF UrlOf(Top.op) = NoUrl THEN "null" ELSE "loading"
      /\ stack # <<>> /\ Accepted(Top) /\ Top.at = "replacing" /\ WaitIn("resetting")
  BY DEF ResetSource, ResetDocument, CallOutReturns, In, sourceState, metadataState, external
<1>2. "resetting" \in Places \ {"quitting", "stopping"} /\ "resetting" \notin ApplyPlaces
  BY DEF Places, ChangePlaces, ApplyPlaces
<1>3. Advances("resetting")
  BY <1>1, <1>2, WaitFacts DEF IInv
<1>4. /\ transition # None /\ Depth \in 1..Depth /\ PlaceIsReached(Depth)
      /\ stack[Depth].at = "replacing" /\ Top.op = transition /\ transition = admitted
      /\ transition \in 1..Len(asked)
  BY <1>1, TopIsCurrent
<1>5. Types'
  BY <1>1, <1>3, <1>4 DEF IInv, Types, Advances, None, Statuses
<1>6. Clean /\ lifecycle = None
  BY <1>4 DEF PlaceIsReached, BackendPlaces, Clean
<1>7. PlayingIsShown'
  BY <1>1, <1>4, <1>6 DEF IInv, PlayingIsShown, UrlOf
<1>8. PlaceIsReached(Depth)'
  <2>1. stack'[Depth'].at = "resetting" /\ stack'[Depth'].byDevice = stack[Depth].byDevice
    BY <1>3 DEF Advances
  <2> QED
    BY <1>1, <1>4, <1>6, <2>1 DEF PlaceIsReached, BackendPlaces, LatePlaces, ApplyPlaces, Clean,
       UrlOf
<1>9. RetiredAreLetGo'
  BY <1>1, <1>2, <1>3, <1>4, AdvanceKeepsRetired
<1>10. StatusAgrees'
  BY <1>1, <1>4, <1>6 DEF StatusAgrees, SourceUrl, UrlOf
<1> QED
  BY <1>1, <1>2, <1>3, <1>5, <1>7, <1>8, <1>9, <1>10, AdvancePreserves

LEMMA ApplyDevicePreserves ==
  ASSUME IInv, ApplyPlaybackSourceDevice
  PROVE  IInv'
<1>1. /\ UNCHANGED <<asked, admitted, alive, transition, phase, lifecycle, backend, device>>
      /\ UNCHANGED <<shown, status, failure, metadata, parsing, jobs, requests>>
      /\ UNCHANGED <<connected, media>>
      /\ stack # <<>> /\ Accepted(Top) /\ Top.at = "resetting" /\ Top.byDevice
      /\ WaitIn("creating")
  BY DEF ApplyPlaybackSourceDevice, CallOutReturns, In, sourceState, documentState,
     metadataState, external
<1>2. "creating" \in Places \ {"quitting", "stopping"}
  BY DEF Places, ApplyPlaces
<1>3. Advances("creating")
  BY <1>1, <1>2, WaitFacts DEF IInv
<1>4. /\ transition # None /\ Depth \in 1..Depth /\ PlaceIsReached(Depth)
      /\ stack[Depth].at = "resetting" /\ stack[Depth].byDevice
      /\ FrameIsCall(Depth) /\ stack[Depth].op = transition
  BY <1>1, TopIsCurrent
<1>5. Types' /\ PlayingIsShown'
  BY <1>1, <1>3 DEF IInv, Types, PlayingIsShown, Advances, UrlOf
<1>6. PlaceIsReached(Depth)'
  <2>1. stack'[Depth'].at = "creating" /\ stack'[Depth'].byDevice = stack[Depth].byDevice
    BY <1>3 DEF Advances
  <2> QED
    BY <1>1, <1>4, <2>1 DEF PlaceIsReached, BackendPlaces, LatePlaces, ApplyPlaces, Clean
<1>7. RetiredAreLetGo'
  BY <1>1, <1>2, <1>3, <1>4, AdvanceKeepsRetired
<1>8. StatusAgrees'
  <2>1. lifecycle = None
    BY <1>4 DEF PlaceIsReached, BackendPlaces
  <2> QED
    BY <1>1, <2>1 DEF IInv, StatusAgrees, SourceUrl, UrlOf
<1>9. UrlOf(transition) # NoUrl
  BY <1>4 DEF FrameIsCall
<1> QED
  BY <1>1, <1>2, <1>3, <1>5, <1>6, <1>7, <1>8, <1>9, AdvancePreserves

LEMMA FailCreationPreserves ==
  ASSUME IInv, FailBackendCreation
  PROVE  IInv'
<1>1. /\ UNCHANGED <<asked, admitted, alive, transition, phase, backend, device>>
      /\ UNCHANGED <<shown, metadata, parsing, jobs, requests, connected, media>>
      /\ lifecycle' = None /\ status' = "error" /\ failure' = Top.op
      /\ stack # <<>> /\ Accepted(Top) /\ Top.at = "creating" /\ WaitIn("failing")
  BY DEF FailBackendCreation, InvalidatePlaybackCallbacks, SetSourceLoadFailure,
     CallOutReturns, In, metadataState, external
<1>2. "failing" \in Places \ {"quitting", "stopping"}
  BY DEF Places, ApplyPlaces
<1>3. Advances("failing")
  BY <1>1, <1>2, WaitFacts DEF IInv
<1>4. /\ transition # None /\ Depth \in 1..Depth /\ PlaceIsReached(Depth)
      /\ stack[Depth].at = "creating" /\ transition \in 1..Len(asked) /\ Top.op = transition
      /\ FrameIsCall(Depth) /\ stack[Depth].op = transition
  BY <1>1, TopIsCurrent
<1>5. Types'
  BY <1>1, <1>3, <1>4 DEF IInv, Types, Advances, None, Statuses
<1>6. Clean /\ shown = transition /\ UrlOf(transition) # NoUrl
  BY <1>4 DEF PlaceIsReached, BackendPlaces, LatePlaces, ApplyPlaces, FrameIsCall
<1>7. PlayingIsShown'
  BY <1>1 DEF IInv, PlayingIsShown
<1>8. PlaceIsReached(Depth)'
  <2>1. stack'[Depth'].at = "failing" /\ stack'[Depth'].byDevice = stack[Depth].byDevice
    BY <1>3 DEF Advances
  <2> QED
    BY <1>1, <1>4, <1>6, <2>1 DEF PlaceIsReached, BackendPlaces, LatePlaces, ApplyPlaces, Clean
<1>9. RetiredAreLetGo'
  BY <1>1, <1>2, <1>3, <1>4, AdvanceKeepsRetired
<1>10. StatusAgrees'
  BY <1>1, <1>4, <1>6 DEF StatusAgrees, SourceUrl, UrlOf
<1> QED
  BY <1>1, <1>2, <1>3, <1>5, <1>6, <1>7, <1>8, <1>9, <1>10, AdvancePreserves

LEMMA InstallPreserves ==
  ASSUME IInv, InstallBackend
  PROVE  IInv'
<1>1. /\ UNCHANGED <<asked, admitted, alive, transition, phase>>
      /\ UNCHANGED <<shown, status, failure, metadata, parsing, jobs, requests, media>>
      /\ lifecycle' = Top.op /\ backend' = Top.op /\ device' \in {None, Top.op}
      /\ connected' = connected \cup {Top.op}
      /\ stack # <<>> /\ Accepted(Top) /\ Top.at = "creating" /\ WaitIn("loading")
  BY DEF InstallBackend, CallOutReturns, In, documentState, metadataState
<1>2. "loading" \in Places \ {"quitting", "stopping"}
  BY DEF Places, ApplyPlaces
<1>3. Advances("loading")
  BY <1>1, <1>2, WaitFacts DEF IInv
<1>4. /\ alive /\ transition # None /\ Depth \in 1..Depth /\ PlaceIsReached(Depth)
      /\ stack[Depth].at = "creating" /\ transition \in 1..Len(asked) /\ Top.op = transition
      /\ transition = admitted /\ transition \in Calls
      /\ FrameIsCall(Depth) /\ stack[Depth].op = transition
  BY <1>1, TopIsCurrent
<1>5. Types'
  BY <1>1, <1>3, <1>4 DEF IInv, Types, Advances, None
<1>6. Clean /\ shown = transition /\ UrlOf(transition) # NoUrl
  BY <1>4 DEF PlaceIsReached, BackendPlaces, LatePlaces, ApplyPlaces, FrameIsCall
<1>7. PlayingIsShown'
  BY <1>1, <1>4, <1>6 DEF IInv, PlayingIsShown, UrlOf
<1>8. PlaceIsReached(Depth)'
  <2>1. stack'[Depth'].at = "loading" /\ stack'[Depth'].byDevice = stack[Depth].byDevice
    BY <1>3 DEF Advances
  <2> QED
    BY <1>1, <1>4, <1>6, <2>1 DEF PlaceIsReached, BackendPlaces, LatePlaces, ApplyPlaces, Clean
<1>9. RetiredAreLetGo'
  <2>1. ASSUME NEW i \in 1..Depth
        PROVE  /\ stack'[i].at = "stopping" <=> stack[i].at = "stopping"
               /\ stack[i].at = "stopping" => stack'[i] = stack[i]
    BY <1>3, <1>4 DEF Advances
  <2>2. ASSUME NEW i \in 1..Depth, stack[i].at = "stopping"
        PROVE  stack[i].old # None /\ stack[i].old < admitted /\ stack[i].old # admitted
    <3>1. stack[i].old # None /\ stack[i].old < admitted
      BY <1>4, <2>2 DEF IInv, RetiredAreLetGo
    <3>2. stack[i].old \in 0..MaxCalls /\ admitted \in 0..Len(asked)
      BY FrameFields DEF IInv, Types
    <3> QED
      BY <3>1, <3>2
  <2>3. Depth' = Depth
    BY <1>3 DEF Advances
  <2>4. ASSUME NEW b \in connected', b # transition
        PROVE  \E i \in 1..Depth : stack'[i].at = "stopping" /\ stack'[i].old = b
    <3>1. b \in connected /\ b # None
      BY <1>1, <1>4, <2>4 DEF IInv, Types, Calls, None
    <3>2. PICK i \in 1..Depth : stack[i].at = "stopping" /\ stack[i].old = b
      BY <1>6, <3>1 DEF IInv, RetiredAreLetGo, Clean
    <3> QED
      BY <2>1, <3>2
  <2> QED
    BY <1>1, <1>4, <2>1, <2>2, <2>3, <2>4 DEF RetiredAreLetGo
<1>10. StatusAgrees'
  <2>1. \E i \in 1..Depth' : Current(i)' /\ stack'[i].at = "loading"
    BY <1>1, <1>3, <1>4 DEF Current, Advances
  <2> QED
    BY <1>1, <2>1 DEF IInv, StatusAgrees, SourceUrl, UrlOf
<1> QED
  BY <1>1, <1>2, <1>3, <1>5, <1>6, <1>7, <1>8, <1>9, <1>10, AdvancePreserves

\* What a report of backend c makes of the status, and when it may.
LEMMA UpdateFacts ==
  ASSUME IInv, NEW c \in Calls, NEW s \in MediaStatuses, UpdateStatusFromBackend(c, s),
         alive, lifecycle = c, phase # "resolving"
  PROVE  /\ status' = s /\ shown' = shown /\ metadata' = metadata /\ c = shown
         /\ failure' = IF s = "error" THEN c ELSE None
         /\ SourceUrl # NoUrl /\ status' \in Statuses /\ failure' \in 0..Len(asked)
         /\ (status' = "error") <=> (failure' # None)
         /\ failure' \in {None, shown}
         /\ status' # "null"
<1>1. c # None
  BY DEF Calls, None
<1>2. c = shown /\ SourceUrl # NoUrl
  BY <1>1 DEF IInv, PlayingIsShown, SourceUrl
<1>3. StatusPlan(s) = s
  BY <1>2 DEF StatusPlan
<1>4. shown \in 0..Len(asked) /\ 0 \in 0..Len(asked)
  BY DEF IInv, Types
<1> QED
  BY <1>1, <1>2, <1>3, <1>4 DEF UpdateStatusFromBackend, MediaStatuses, Statuses, None

LEMMA ReportPreserves ==
  ASSUME IInv, ReportBackend
  PROVE  IInv'
<1>1. /\ UNCHANGED <<asked, admitted, alive, transition, phase, lifecycle, backend, device>>
      /\ UNCHANGED <<parsing, jobs, requests, connected, media>>
      /\ UpdateStatusFromBackend(Top.op, media[Top.op])
      /\ stack # <<>> /\ Accepted(Top) /\ Top.at = "loading" /\ WaitIn("reporting")
  BY DEF ReportBackend, BackendCallReturns, BackendAccepted, In, sourceState, metadataState,
     external
<1>2. "reporting" \in Places \ {"quitting", "stopping"}
  BY DEF Places, ApplyPlaces
<1>3. Advances("reporting")
  BY <1>1, <1>2, WaitFacts DEF IInv
<1>4. /\ alive /\ transition # None /\ Depth \in 1..Depth /\ PlaceIsReached(Depth)
      /\ stack[Depth].at = "loading" /\ transition \in 1..Len(asked) /\ Top.op = transition
      /\ transition = admitted /\ transition \in Calls
      /\ FrameIsCall(Depth) /\ stack[Depth].op = transition
  BY <1>1, TopIsCurrent
<1>5. /\ lifecycle = transition /\ phase = "applying" /\ UrlOf(transition) # NoUrl
      /\ shown = transition
  BY <1>4 DEF PlaceIsReached, BackendPlaces, LatePlaces, ApplyPlaces, FrameIsCall
<1>6. media[transition] \in MediaStatuses
  BY <1>4 DEF IInv, Types
<1>7. /\ status' = media[transition] /\ shown' = shown /\ metadata' = metadata
      /\ SourceUrl # NoUrl /\ status' \in Statuses /\ failure' \in 0..Len(asked)
      /\ (status' = "error") <=> (failure' # None)
      /\ failure' \in {None, shown} /\ status' # "null"
  BY <1>1, <1>4, <1>5, <1>6, UpdateFacts
<1>8. Types'
  BY <1>1, <1>3, <1>7 DEF IInv, Types, Advances
<1>9. PlayingIsShown'
  BY <1>1, <1>7 DEF IInv, PlayingIsShown, UrlOf
<1>10. PlaceIsReached(Depth)'
  <2>1. stack'[Depth'].at = "reporting" /\ stack'[Depth'].byDevice = stack[Depth].byDevice
    BY <1>3 DEF Advances
  <2> QED
    BY <1>1, <1>4, <1>5, <1>7, <2>1 DEF PlaceIsReached, BackendPlaces, LatePlaces, ApplyPlaces
<1>11. RetiredAreLetGo'
  BY <1>1, <1>2, <1>3, <1>4, AdvanceKeepsRetired
<1>12. StatusAgrees'
  BY <1>1, <1>5, <1>7 DEF StatusAgrees, SourceUrl, UrlOf
<1> QED
  BY <1>1, <1>2, <1>3, <1>5, <1>8, <1>9, <1>10, <1>11, <1>12, AdvancePreserves

\* The current frame returns and its transition is over.
LEMMA FinishPreserves ==
  ASSUME IInv, stack # <<>>, Accepted(Top), Top.at \in {"resetting", "failing", "reporting"},
         Return, FinishSourceTransition,
         UNCHANGED <<asked, admitted, alive, lifecycle, backend, device>>,
         UNCHANGED <<shown, status, failure, metadata, requests, connected, media>>,
         parsing' \in {parsing, Top.op}, jobs' \subseteq jobs \cup {Top.op}
  PROVE  IInv'
<1> USE DEF IInv
<1>1. /\ alive /\ transition # None /\ transition = admitted
      /\ transition \in 1..Len(asked) /\ transition \in Calls
      /\ Depth \in 1..Depth /\ Top.op = transition /\ Top.at = stack[Depth].at
      /\ \A i \in 1..Depth : Current(i) => i = Depth
      /\ PlaceIsReached(Depth)
  BY TopIsCurrent
<1>2. transition' = None /\ phase' = "idle"
  BY DEF FinishSourceTransition
<1>3. shown = transition /\ backend = lifecycle
  <2>1. shown = transition
    BY <1>1 DEF PlaceIsReached, LatePlaces, ApplyPlaces
  <2>2. backend = lifecycle
    BY <1>1 DEF PlaceIsReached, BackendPlaces, Clean
  <2> QED
    BY <2>1, <2>2
<1>4. /\ stack' \in Seq(Frames) /\ Depth \in Nat \ {0} /\ Depth' = Depth - 1
      /\ \A i \in 1..(Depth - 1) : stack'[i] = stack[i]
  BY ReturnFacts
<1>5. 1..Depth' \subseteq 1..Depth /\ \A i \in 1..Depth : i \in 1..Depth' \/ i = Depth
  BY <1>4
<1>6. Types'
  BY <1>1, <1>2, <1>4 DEF Types, Phases, None
<1>7. FramesAreCalls'
  BY <1>4, <1>5 DEF FramesAreCalls, FrameIsCall, UrlOf
<1>8. RequestsAreCalls' /\ TransitionIsLatest' /\ SomebodyContinues' /\ ChangeIsOrdered'
  BY <1>1, <1>2, <1>3 DEF RequestsAreCalls, TransitionIsLatest, SomebodyContinues,
     ChangeIsOrdered, Current, UrlOf
<1>9. WaitingIsClean'
  BY <1>2 DEF WaitingIsClean, RequestsAreCalls, None
<1>10. PlayingIsShown'
  BY <1>1, <1>3 DEF PlayingIsShown, UrlOf
<1>11. RetiredAreLetGo'
  BY <1>1, <1>4, <1>5 DEF RetiredAreLetGo
<1>12. StatusAgrees'
  <2>1. lifecycle # None => status \in {media[lifecycle], "error"}
    BY <1>1 DEF StatusAgrees
  <2> QED
    BY <2>1 DEF StatusAgrees, SourceUrl, UrlOf
<1> QED
  BY <1>6, <1>7, <1>8, <1>9, <1>10, <1>11, <1>12

LEMMA FinishedPreserves ==
  ASSUME IInv, FinishCleared \/ PublishFailed \/ FinishApplied
  PROVE  IInv'
<1>1. CASE FinishCleared
  <2>1. /\ stack # <<>> /\ Accepted(Top) /\ Top.at = "resetting" /\ Return
        /\ FinishSourceTransition
        /\ UNCHANGED <<asked, admitted, alive, lifecycle, backend, device>>
        /\ UNCHANGED <<shown, status, failure, metadata, requests, connected, media>>
        /\ parsing' = parsing /\ jobs' = jobs
    BY <1>1 DEF FinishCleared, CallOutReturns, In, documentState, metadataState, external
  <2> QED
    BY <2>1, FinishPreserves
<1>2. CASE PublishFailed
  <2>1. /\ stack # <<>> /\ Accepted(Top) /\ Top.at = "failing" /\ Return
        /\ FinishSourceTransition
        /\ UNCHANGED <<asked, admitted, alive, lifecycle, backend, device>>
        /\ UNCHANGED <<shown, status, failure, metadata, requests, connected, media>>
        /\ parsing' = parsing /\ jobs' = jobs
    BY <1>2 DEF PublishFailed, CallOutReturns, In, documentState, metadataState, external
  <2> QED
    BY <2>1, FinishPreserves
<1>3. CASE FinishApplied
  <2>1. /\ stack # <<>> /\ Accepted(Top) /\ Top.at = "reporting" /\ Return
        /\ FinishSourceTransition
        /\ UNCHANGED <<asked, admitted, alive, lifecycle, backend, device>>
        /\ UNCHANGED <<shown, status, failure, metadata, requests, connected, media>>
        /\ parsing' \in {parsing, Top.op} /\ jobs' \subseteq jobs \cup {Top.op}
    BY <1>3 DEF FinishApplied, BackendCallReturns, BackendAccepted, In, documentState,
       metadataState, external
  <2> QED
    BY <2>1, FinishPreserves
<1> QED
  BY <1>1, <1>2, <1>3

LEMMA ResolvePreserves ==
  ASSUME IInv, ResolvePlaybackUrl
  PROVE  IInv'
<1> USE DEF IInv
<1>1. /\ UNCHANGED <<asked, admitted, alive, transition, phase, lifecycle, backend, device>>
      /\ UNCHANGED <<shown, status, failure, metadata, parsing, jobs, connected, media>>
      /\ requests' = requests \cup {Top.op} /\ phase = "resolving" /\ UrlOf(Top.op) # NoUrl
      /\ stack # <<>> /\ Accepted(Top) /\ Top.at = "resetting" /\ Return
  BY DEF ResolvePlaybackUrl, CallOutReturns, In, sourceState, documentState, metadataState
<1>2. /\ alive /\ transition # None /\ transition = admitted
      /\ transition \in 1..Len(asked) /\ transition \in Calls
      /\ Depth \in 1..Depth /\ Top.op = transition /\ Top = stack[Depth]
      /\ \A i \in 1..Depth : Current(i) => i = Depth
      /\ PlaceIsReached(Depth)
  BY <1>1, TopIsCurrent
<1>3. Clean /\ shown = transition /\ status = "loading"
  BY <1>1, <1>2 DEF PlaceIsReached, BackendPlaces, LatePlaces
<1>4. /\ stack' \in Seq(Frames) /\ Depth \in Nat \ {0} /\ Depth' = Depth - 1
      /\ \A i \in 1..(Depth - 1) : stack'[i] = stack[i]
  BY <1>1, ReturnFacts
<1>5. /\ 1..Depth' \subseteq 1..Depth /\ \A i \in 1..Depth : i \in 1..Depth' \/ i = Depth
      /\ \A i \in 1..Depth' : i # Depth
  BY <1>4
<1>6. Types'
  BY <1>1, <1>2, <1>4 DEF Types
<1>7. FramesAreCalls'
  <2>1. ASSUME NEW i \in 1..Depth' PROVE FrameIsCall(i)' /\ stack'[i] = stack[i]
    <3>1. i \in 1..Depth /\ i # Depth /\ stack'[i] = stack[i] /\ FrameIsCall(i)
      BY <1>4, <1>5 DEF FramesAreCalls
    <3>2. stack[i].op # transition
      BY <1>2, <3>1 DEF FramesAreCalls
    <3> QED
      BY <1>1, <1>2, <3>1, <3>2 DEF FrameIsCall, UrlOf
  <2> QED
    BY <1>5, <2>1 DEF FramesAreCalls
<1>8. RequestsAreCalls' /\ TransitionIsLatest' /\ SomebodyContinues' /\ WaitingIsClean'
  BY <1>1, <1>2, <1>3 DEF RequestsAreCalls, TransitionIsLatest, SomebodyContinues,
     WaitingIsClean, Clean, UrlOf
<1>9. ChangeIsOrdered'
  BY <1>1, <1>2, <1>4, <1>5 DEF ChangeIsOrdered, Current
<1>10. PlayingIsShown'
  BY <1>1 DEF PlayingIsShown, UrlOf
<1>11. RetiredAreLetGo'
  BY <1>1, <1>2, <1>4, <1>5 DEF RetiredAreLetGo
<1>12. StatusAgrees'
  BY <1>1, <1>3 DEF StatusAgrees, SourceUrl, UrlOf, Clean
<1> QED
  BY <1>6, <1>7, <1>8, <1>9, <1>10, <1>11, <1>12

-----------------------------------------------------------------------------
(* Answers of the resolver, and what backends and the worker report. *)

LEMMA AnswerPreserves ==
  ASSUME IInv, NEW c \in Calls, Answered(c), AnswerAccepted(c), NEW f \in Frames, Push(f),
         f.op = c, f.at \in {"creating", "failing"}, f.byDevice = FALSE, phase' = "applying",
         UNCHANGED <<asked, admitted, alive, transition, backend, device>>,
         UNCHANGED <<shown, metadata, parsing, jobs, connected, media>>,
         lifecycle' \in {lifecycle, None},
         \/ UNCHANGED <<status, failure>>
         \/ status' = "error" /\ failure' = c
  PROVE  IInv'
<1> USE DEF IInv
<1>1. /\ alive /\ transition = c /\ phase = "resolving" /\ c \in requests
      /\ requests' = requests \ {c}
  BY DEF Answered, AnswerAccepted
<1>2. /\ c \in 1..Len(asked) /\ c # None /\ c = admitted /\ UrlOf(c) # NoUrl
      /\ \A i \in 1..Depth : stack[i].op # c
  BY <1>1 DEF RequestsAreCalls, TransitionIsLatest, FramesAreCalls, FrameIsCall, None
<1>3. shown = c /\ Clean /\ status = "loading" /\ lifecycle' = None
  BY <1>1 DEF WaitingIsClean, Clean
<1>4. /\ stack' \in Seq(Frames) /\ Depth' = Depth + 1 /\ stack'[Depth'] = f
      /\ \A i \in 1..Depth : stack'[i] = stack[i]
      /\ \A i \in 1..Depth' : i \in 1..Depth \/ i = Depth'
      /\ 1..Depth \subseteq 1..Depth' /\ Depth' \in 1..Depth' /\ Depth' \notin 1..Depth
  BY PushFacts
<1>5. status' \in Statuses /\ failure' \in 0..Len(asked)
  BY <1>2 DEF Types, Statuses
<1>6. Types'
  <2>1. phase' \in Phases /\ (phase' = "idle" <=> transition' = None)
    BY <1>1, <1>2 DEF Phases
  <2>2. Depth' \in Nat /\ requests' \subseteq Calls /\ lifecycle' \in 0..Len(asked)
    BY <1>1, <1>3, <1>4 DEF Types, None
  <2> QED
    BY <1>4, <1>5, <2>1, <2>2 DEF Types
<1>7. FramesAreCalls'
  <2>1. ASSUME NEW i \in 1..Depth PROVE FrameIsCall(i)' /\ stack'[i].op # c
    <3>1. FrameIsCall(i) /\ stack[i].op # c /\ stack'[i] = stack[i]
      BY <1>2, <1>4 DEF FramesAreCalls
    <3> QED
      BY <1>1, <3>1 DEF FrameIsCall, UrlOf
  <2>2. ASSUME NEW i, i = Depth' PROVE FrameIsCall(i)' /\ stack'[i].op = c
    <3>1. /\ stack'[i].op = c /\ stack'[i].at \in {"creating", "failing"}
          /\ stack'[i].byDevice = FALSE
      BY <1>4, <2>2
    <3>2. UrlOf(stack[i].op)' # NoUrl /\ c \in 0..Len(asked)
      BY <1>2, <3>1 DEF UrlOf, Types
    <3> QED
      BY <1>1, <1>2, <3>1, <3>2 DEF FrameIsCall
  <2> QED
    BY <1>4, <2>1, <2>2 DEF FramesAreCalls
<1>8. RequestsAreCalls' /\ TransitionIsLatest' /\ WaitingIsClean'
  BY <1>1, <1>2 DEF RequestsAreCalls, TransitionIsLatest, WaitingIsClean, UrlOf
<1>9. ASSUME NEW i \in 1..Depth' PROVE Current(i)' <=> i = Depth'
  BY <1>1, <1>2, <1>4 DEF Current
<1>10. SomebodyContinues'
  BY <1>4, <1>9 DEF SomebodyContinues
<1>11. ChangeIsOrdered'
  <2>1. ASSUME NEW i, i = Depth' PROVE PlaceIsReached(i)'
    <3>1. stack'[i].at \in {"creating", "failing"}
      BY <1>4, <2>1
    <3> QED
      BY <1>1, <1>2, <1>3, <3>1 DEF PlaceIsReached, BackendPlaces, Clean
  <2> QED
    BY <1>9, <2>1 DEF ChangeIsOrdered
<1>12. PlayingIsShown'
  BY <1>3 DEF PlayingIsShown
<1>13. RetiredAreLetGo'
  <2>1. ASSUME NEW i \in 1..Depth', stack'[i].at = "stopping"
        PROVE  i \in 1..Depth /\ stack'[i] = stack[i]
    BY <1>4, <2>1
  <2>2. ASSUME NEW i \in 1..Depth PROVE i \in 1..Depth' /\ stack'[i] = stack[i]
    BY <1>4
  <2> QED
    BY <2>1, <2>2 DEF RetiredAreLetGo
<1>14. StatusAgrees'
  BY <1>2, <1>3 DEF StatusAgrees, SourceUrl, UrlOf
<1> QED
  BY <1>6, <1>7, <1>8, <1>10, <1>11, <1>12, <1>13, <1>14

LEMMA ResolverPreserves ==
  ASSUME IInv, NEW c \in Calls, ResolverAnswers(c)
  PROVE  IInv'
<1>1. ASSUME NEW place \in {"creating", "failing"}, NEW isLocal \in BOOLEAN
      PROVE  /\ ApplyFrame(c, place, isLocal) \in Frames
             /\ ApplyFrame(c, place, isLocal).op = c
             /\ ApplyFrame(c, place, isLocal).at = place
             /\ ApplyFrame(c, place, isLocal).byDevice = FALSE
  BY DEF ApplyFrame, Frames, Optional, Places, ApplyPlaces
<1>2. CASE \E isLocal \in BOOLEAN : CompletePlaybackUrlResolution(c, isLocal)
  <2>1. PICK isLocal \in BOOLEAN : CompletePlaybackUrlResolution(c, isLocal)
    BY <1>2
  <2>2. /\ Answered(c) /\ AnswerAccepted(c) /\ Push(ApplyFrame(c, "creating", isLocal))
        /\ phase' = "applying"
        /\ UNCHANGED <<asked, admitted, alive, transition, backend, device>>
        /\ UNCHANGED <<shown, metadata, parsing, jobs, connected, media>>
        /\ lifecycle' = lifecycle /\ UNCHANGED <<status, failure>>
    BY <2>1 DEF CompletePlaybackUrlResolution, documentState, metadataState
  <2> QED
    BY <1>1, <2>2, AnswerPreserves
<1>3. CASE FailPlaybackUrlResolution(c)
  <2>1. /\ Answered(c) /\ AnswerAccepted(c) /\ Push(ApplyFrame(c, "failing", FALSE))
        /\ phase' = "applying"
        /\ UNCHANGED <<asked, admitted, alive, transition, backend, device>>
        /\ UNCHANGED <<shown, metadata, parsing, jobs, connected, media>>
        /\ lifecycle' = None /\ status' = "error" /\ failure' = c
    BY <1>3 DEF FailPlaybackUrlResolution, InvalidatePlaybackCallbacks, SetSourceLoadFailure,
       metadataState
  <2> QED
    BY <1>1, <2>1, AnswerPreserves
<1>4. CASE IgnoreAnswer(c)
  <2> USE DEF IInv
  <2>1. /\ UNCHANGED <<asked, admitted, alive, stack, transition, phase, lifecycle>>
        /\ UNCHANGED <<backend, device, shown, status, failure, metadata, parsing, jobs>>
        /\ UNCHANGED <<connected, media>> /\ requests' = requests \ {c} /\ Depth' = Depth
    BY <1>4 DEF IgnoreAnswer, Answered, frames, sourceState, documentState, metadataState,
       Depth
  <2>2. transition \in requests => transition \in requests'
    <3>1. ASSUME transition = c, c \in requests PROVE FALSE
      <4>1. phase = "resolving" /\ ~AnswerAccepted(c)
        BY <1>4, <3>1 DEF WaitingIsClean, IgnoreAnswer
      <4>2. alive
        BY <3>1 DEF TransitionIsLatest, RequestsAreCalls, Types, None
      <4> QED
        BY <3>1, <4>1, <4>2 DEF AnswerAccepted
    <3> QED
      BY <2>1, <3>1
  <2>3. Types' /\ RequestsAreCalls' /\ WaitingIsClean'
    BY <2>1 DEF Types, RequestsAreCalls, WaitingIsClean, Clean, UrlOf
  <2>4. FramesAreCalls'
    BY <2>1 DEF FramesAreCalls, FrameIsCall, UrlOf
  <2>5. TransitionIsLatest' /\ SomebodyContinues' /\ PlayingIsShown' /\ RetiredAreLetGo'
    BY <2>1, <2>2 DEF TransitionIsLatest, SomebodyContinues, Current, PlayingIsShown,
       RetiredAreLetGo, UrlOf
  <2>6. ChangeIsOrdered' /\ StatusAgrees'
    BY <2>1 DEF ChangeIsOrdered, PlaceIsReached, Current, Clean, StatusAgrees, SourceUrl, UrlOf
  <2> QED
    BY <2>3, <2>4, <2>5, <2>6
<1> QED
  BY <1>2, <1>3, <1>4 DEF ResolverAnswers

\* A report changes neither the stack nor the source: only what is shown may be disturbed.
LEMMA HearingPreserves ==
  ASSUME IInv, UNCHANGED <<asked, admitted, alive, stack, transition, phase, lifecycle>>,
         UNCHANGED <<backend, device, shown, requests, connected>>,
         Types', PlayingIsShown', StatusAgrees', lifecycle = None => status' = status
  PROVE  IInv'
<1> USE DEF IInv
<1>1. Depth' = Depth
  BY DEF Depth
<1>2. FramesAreCalls' /\ RequestsAreCalls'
  BY <1>1 DEF FramesAreCalls, FrameIsCall, RequestsAreCalls, UrlOf
<1>3. TransitionIsLatest' /\ SomebodyContinues' /\ WaitingIsClean' /\ RetiredAreLetGo'
  BY <1>1 DEF TransitionIsLatest, SomebodyContinues, Current, WaitingIsClean, Clean,
     RetiredAreLetGo
<1>4. ChangeIsOrdered'
  <2>1. ASSUME NEW i \in 1..Depth, PlaceIsReached(i) PROVE PlaceIsReached(i)'
    <3>1. stack[i].at = "resetting" => lifecycle = None
      BY <2>1 DEF PlaceIsReached, BackendPlaces
    <3> QED
      BY <2>1, <3>1 DEF PlaceIsReached, Clean, UrlOf
  <2> QED
    BY <1>1, <2>1 DEF ChangeIsOrdered, Current
<1> QED
  BY <1>2, <1>3, <1>4

LEMMA BackendsPreserve ==
  ASSUME IInv, NEW c \in Calls,
         \/ \E s \in MediaStatuses : MediaStatusChanges(c, s)
         \/ UpdateErrorFromBackend(c)
         \/ MetadataParsed(c)
  PROVE  IInv'
<1> USE DEF IInv
<1>1. c # None
  BY DEF Calls, None
<1>2. ASSUME NEW s \in MediaStatuses, MediaStatusChanges(c, s) PROVE IInv'
  <2>1. /\ UNCHANGED <<asked, admitted, alive, stack, transition, phase, lifecycle>>
        /\ UNCHANGED <<backend, device, shown, requests, connected, metadata, parsing, jobs>>
        /\ media' = [media EXCEPT ![c] = s] /\ c \in connected
    BY <1>2 DEF MediaStatusChanges, UpdateStatusFromBackend, frames, sourceState,
       documentState, metadataState
  <2>2. media' \in [Calls -> MediaStatuses]
    BY <2>1 DEF Types
  <2>3. CASE PlaybackCallbacksAccepted(c) /\ backend # None /\ UpdateStatusFromBackend(c, s)
    <3>1. alive /\ lifecycle = c
      BY <2>3 DEF PlaybackCallbacksAccepted
    <3>2. phase # "resolving"
      <4>1. CASE transition = None
        BY <4>1 DEF Types
      <4>2. CASE transition # None
        <5>1. transition \notin requests
          BY <1>1, <3>1 DEF WaitingIsClean, Clean
        <5>2. PICK i \in 1..Depth : Current(i)
          BY <3>1, <4>2, <5>1 DEF SomebodyContinues
        <5>3. PlaceIsReached(i)
          BY <5>2 DEF ChangeIsOrdered
        <5> QED
          BY <1>1, <3>1, <5>3 DEF PlaceIsReached, BackendPlaces, ApplyPlaces
      <4> QED
        BY <4>1, <4>2
    <3>3. /\ status' = s /\ c = shown /\ SourceUrl # NoUrl
          /\ status' \in Statuses /\ failure' \in 0..Len(asked)
          /\ (status' = "error") <=> (failure' # None)
          /\ failure' \in {None, shown} /\ status' # "null"
      BY <2>3, <3>1, <3>2, UpdateFacts
    <3>4. Types' /\ PlayingIsShown'
      BY <2>1, <2>2, <3>3 DEF Types, PlayingIsShown, Depth, UrlOf
    <3>5. media'[lifecycle'] = s
      BY <2>1, <3>1 DEF Types
    <3>6. StatusAgrees'
      BY <2>1, <3>3, <3>5 DEF StatusAgrees, SourceUrl, UrlOf
    <3> QED
      BY <1>1, <2>1, <3>1, <3>4, <3>6, HearingPreserves
  <2>4. CASE ~(PlaybackCallbacksAccepted(c) /\ backend # None) /\ UNCHANGED documentState
    <3>1. UNCHANGED <<status, failure>>
      BY <2>4 DEF documentState
    <3>2. Types' /\ PlayingIsShown'
      BY <2>1, <2>2, <3>1 DEF Types, PlayingIsShown, Depth, UrlOf
    <3>3. StatusAgrees'
      <4>1. alive /\ lifecycle # None => media'[lifecycle] = media[lifecycle]
        <5>1. alive /\ lifecycle # None => lifecycle # c
          BY <2>4 DEF PlaybackCallbacksAccepted, PlayingIsShown
        <5> QED
          BY <2>1, <5>1 DEF Types
      <4>2. Depth' = Depth /\ SourceUrl' = SourceUrl
        BY <2>1 DEF Depth, SourceUrl, UrlOf
      <4> QED
        BY <2>1, <3>1, <4>1, <4>2 DEF StatusAgrees, Current
    <3> QED
      BY <2>1, <3>1, <3>2, <3>3, HearingPreserves
  <2> QED
    BY <1>2, <2>3, <2>4 DEF MediaStatusChanges
<1>3. CASE UpdateErrorFromBackend(c)
  <2>1. /\ UNCHANGED <<asked, admitted, alive, stack, transition, phase, lifecycle>>
        /\ UNCHANGED <<backend, device, shown, requests, connected, metadata, parsing, jobs>>
        /\ UNCHANGED media /\ status' = "error" /\ failure' = c
        /\ lifecycle = c
    BY <1>3 DEF UpdateErrorFromBackend, PlaybackCallbacksAccepted, frames, sourceState,
       metadataState, external
  <2>2. c = shown /\ UrlOf(c) # NoUrl /\ c \in 0..Len(asked)
    BY <1>1, <2>1 DEF PlayingIsShown, Types
  <2>3. Types' /\ PlayingIsShown'
    BY <2>1, <2>2 DEF Types, PlayingIsShown, Depth, UrlOf, Statuses
  <2>4. StatusAgrees'
    BY <1>1, <2>1, <2>2 DEF StatusAgrees, SourceUrl, UrlOf
  <2> QED
    BY <1>1, <2>1, <2>3, <2>4, HearingPreserves
<1>4. CASE MetadataParsed(c)
  <2>1. /\ UNCHANGED <<asked, admitted, alive, stack, transition, phase, lifecycle>>
        /\ UNCHANGED <<backend, device, shown, requests, connected, status, failure, media>>
        /\ jobs' \subseteq jobs
        /\ \/ parsing = c /\ parsing' = None /\ metadata' = c
           \/ UNCHANGED <<parsing, metadata>>
    BY <1>4 DEF MetadataParsed, MetadataAccepted, frames, sourceState, external
  <2>2. Types' /\ PlayingIsShown'
    BY <2>1 DEF Types, PlayingIsShown, Depth, UrlOf, None
  <2>3. StatusAgrees'
    <3>1. Depth' = Depth /\ SourceUrl' = SourceUrl
      BY <2>1 DEF Depth, SourceUrl, UrlOf
    <3> QED
      BY <2>1, <3>1 DEF StatusAgrees, Current
  <2> QED
    BY <2>1, <2>2, <2>3, HearingPreserves
<1> QED
  BY <1>2, <1>3, <1>4

-----------------------------------------------------------------------------
(* The theorems. *)

LEMMA TransitionPreserves ==
  ASSUME IInv, TransitionStep
  PROVE  IInv'
<1>1. ASSUME NEW place \in ChangePlaces \cup {"detaching", "creating", "failing"},
             Superseded(place)
      PROVE  IInv'
  BY <1>1, SupersededPreserves
<1>2. ASSUME NEW place \in ApplyPlaces \ {"creating", "failing"}, BackendSuperseded(place)
      PROVE  IInv'
  BY <1>2, BackendSupersededPreserves DEF ApplyPlaces, BackendPlaces
<1> QED
  BY <1>1, <1>2, RetirePreserves, DetachPreserves, ReplacePreserves, ResetPreserves,
     FinishedPreserves, ResolvePreserves, ApplyDevicePreserves, FailCreationPreserves,
     InstallPreserves, ReportPreserves DEF TransitionStep

LEMMA OwnerPreserves ==
  ASSUME IInv, Owner
  PROVE  IInv'
<1>1. ASSUME NEW u \in Urls \cup {NoUrl}, SetSourceUrl(u) PROVE IInv'
  <2>1. Ask(u)
    BY <1>1 DEF SetSourceUrl
  <2>2. CASE KeepSource(u)
    <3>1. /\ stack' = stack
          /\ UNCHANGED <<admitted, alive, sourceState, documentState, metadataState, external>>
      BY <1>1, <2>2 DEF SetSourceUrl
    <3> QED
      BY <2>1, <3>1, KeepPreserves
  <2>3. CASE ~KeepSource(u)
    <3>1. BeginSourceTransition(Len(asked) + 1, FirstPhase(u), FALSE)
      BY <1>1, <2>3 DEF SetSourceUrl
    <3>2. FirstPhase(u) \in {"resolving", "applying"}
      BY DEF FirstPhase
    <3> QED
      BY <2>1, <3>1, <3>2, BeginPreserves
  <2> QED
    BY <2>2, <2>3
<1>2. ASSUME NEW u \in Urls, SetSourceDevice(u) PROVE IInv'
  BY <1>2, BeginPreserves DEF SetSourceDevice
<1> QED
  BY <1>1, <1>2, DestroyPreserves DEF Owner

LEMMA StutterPreserves ==
  ASSUME IInv, UNCHANGED vars
  PROVE  IInv'
<1> USE DEF IInv
<1>1. /\ UNCHANGED <<asked, admitted, alive, stack, transition, phase, lifecycle>>
      /\ UNCHANGED <<backend, device, shown, requests, connected, status, failure, media>>
      /\ UNCHANGED <<metadata, parsing, jobs>> /\ Depth' = Depth
      /\ SourceUrl' = SourceUrl
  BY DEF vars, frames, sourceState, documentState, metadataState, external, Depth, SourceUrl,
     UrlOf
<1>2. Types' /\ PlayingIsShown'
  BY <1>1 DEF Types, PlayingIsShown, UrlOf
<1>3. StatusAgrees'
  BY <1>1 DEF StatusAgrees, Current
<1> QED
  BY <1>1, <1>2, <1>3, HearingPreserves

\* The strengthened invariant holds in every reachable state.
THEOREM Inductive == Spec => []IInv
<1>1. IInv /\ [Next]_vars => IInv'
  <2> SUFFICES ASSUME IInv, [Next]_vars PROVE IInv'
    OBVIOUS
  <2>1. CASE TransitionStep
    BY <2>1, TransitionPreserves
  <2>2. CASE \E c \in Calls : ResolverAnswers(c)
    BY <2>2, ResolverPreserves
  <2>3. CASE Owner
    BY <2>3, OwnerPreserves
  <2>4. CASE Backends
    BY <2>4, BackendsPreserve DEF Backends
  <2>5. CASE UNCHANGED vars
    BY <2>5, StutterPreserves
  <2> QED
    BY <2>1, <2>2, <2>3, <2>4, <2>5 DEF Next
<1> QED
  BY <1>1, InitHolds, PTL DEF Spec

\* Every variable keeps its type.
THEOREM TypeCorrect == Spec => []TypeOK
<1>1. IInv => TypeOK
  BY TypesSuffice DEF IInv
<1> QED
  BY <1>1, Inductive, PTL

\* With no call in progress the runtime plays what it shows, waits for the resolver, or has no
\* backend, and no replaced backend still holds its callbacks.
THEOREM RestIsWhole == Spec => []RestingStateIsWhole
<1>1. IInv => RestingStateIsWhole
  <2> SUFFICES ASSUME IInv, alive, stack = <<>>
               PROVE  /\ phase # "applying"
                      /\ shown = admitted
                      /\ phase = "resolving" => /\ transition = shown /\ shown \in requests
                                                /\ backend = None
                      /\ backend = lifecycle
                      /\ backend \in {None, shown}
                      /\ connected = {backend} \ {None}
                      /\ device \in {None, backend}
    BY DEF RestingStateIsWhole, AtRest
  <2> USE DEF IInv
  <2>1. Depth = 0
    BY DEF Depth
  <2>2. transition # None => transition \in requests
    BY <2>1 DEF SomebodyContinues
  <2>3. transition # None =>
          phase = "resolving" /\ shown = transition /\ Clean /\ transition = admitted
    BY <2>2 DEF WaitingIsClean, TransitionIsLatest
  <2>4. phase # "applying" /\ shown = admitted /\ backend = lifecycle
    BY <2>3 DEF Types, TransitionIsLatest, Clean
  <2>5. phase = "resolving" => transition = shown /\ shown \in requests /\ backend = None
    BY <2>2, <2>3 DEF Types, Clean
  <2>6. backend \in {None, shown} /\ device \in {None, backend}
    BY <2>4 DEF PlayingIsShown
  <2>7. connected = {backend} \ {None}
    <3>1. \A b \in connected : b = backend /\ b # None
      BY <2>1 DEF RetiredAreLetGo, Types, Calls, None
    <3>2. backend # None => backend \in connected
      BY DEF RetiredAreLetGo
    <3> QED
      BY <3>1, <3>2
  <2> QED
    BY <2>4, <2>5, <2>6, <2>7
<1> QED
  BY <1>1, Inductive, PTL

\* At rest an error is the failure of the shown source, and what is shown of a playing source
\* is what its backend last reported.
THEOREM StatusCurrent == Spec => []StatusIsCurrent
<1>1. IInv => StatusIsCurrent
  <2> SUFFICES ASSUME IInv, alive, stack = <<>>
               PROVE  /\ (status = "error") = (failure # None)
                      /\ failure \in {None, shown}
                      /\ (status = "null") = (SourceUrl = NoUrl)
                      /\ phase = "resolving" => status = "loading"
                      /\ backend # None => status \in {media[backend], "error"}
    BY DEF StatusIsCurrent, AtRest
  <2> USE DEF IInv
  <2>1. Depth = 0
    BY DEF Depth
  <2>2. transition # None => transition \in requests
    BY <2>1 DEF SomebodyContinues
  <2>3. phase = "resolving" => status = "loading"
    BY <2>2 DEF Types, WaitingIsClean
  <2>4. backend = lifecycle
    BY <2>2 DEF WaitingIsClean, TransitionIsLatest, Clean
  <2>5. backend # None => status \in {media[backend], "error"}
    BY <2>1, <2>4 DEF StatusAgrees
  <2> QED
    BY <2>3, <2>5 DEF StatusAgrees
<1> QED
  BY <1>1, Inductive, PTL

\* Nothing of the runtime is written after its destructor began.
THEOREM Inert == Spec => DestroyedIsInert
<1>1. ASSUME Types, [Next]_vars, ~alive
      PROVE  UNCHANGED <<transition, phase, documentState, metadataState>>
  <2>1. CASE TransitionStep
    BY <1>1, <2>1 DEF TransitionStep, Superseded, BackendSuperseded, RetirePlaybackSource,
       DetachRetired, ReplacePlaybackControlSource, ResetSource, FinishCleared,
       ResolvePlaybackUrl, ApplyPlaybackSourceDevice, FailBackendCreation, PublishFailed,
       InstallBackend, ReportBackend, FinishApplied, CallOutReturns, BackendCallReturns,
       BackendAccepted, Accepted, sourceState
  <2>2. CASE \E c \in Calls : ResolverAnswers(c)
    BY <1>1, <2>2 DEF ResolverAnswers, CompletePlaybackUrlResolution, FailPlaybackUrlResolution,
       IgnoreAnswer, AnswerAccepted, sourceState
  <2>3. CASE Owner
    BY <1>1, <2>3 DEF Owner, SetSourceUrl, SetSourceDevice, Destroy, Ask
  <2>4. CASE Backends
    BY <1>1, <2>4 DEF Backends, MediaStatusChanges, UpdateErrorFromBackend, MetadataParsed,
       PlaybackCallbacksAccepted, sourceState
  <2>5. CASE UNCHANGED vars
    BY <2>5 DEF vars, sourceState
  <2> QED
    BY <1>1, <2>1, <2>2, <2>3, <2>4, <2>5 DEF Next
<1>2. IInv => Types
  BY DEF IInv
<1>3. IInv /\ [Next]_vars =>
        [~alive => UNCHANGED <<transition, phase, documentState, metadataState>>]_vars
  BY <1>1, <1>2
<1> QED
  BY <1>3, Inductive, PTL DEF Spec, DestroyedIsInert

-----------------------------------------------------------------------------
(* The refinement of LatestRequest. *)

\* Whatever is reported is in the set of reports of the abstract component.
LEMMA ReportsAreReports ==
  ASSUME Types
  PROVE  <<status, failure, metadata>> \in Statuses \X Optional(Calls) \X Optional(Calls)
<1>1. 0..Len(asked) \subseteq Optional(Calls)
  BY CallAssumption DEF Types, Optional, Calls, None
<1> QED
  BY <1>1 DEF Types

\* A report heard while the shown source is the admitted one, or no change at all.
ReportsShown ==
  /\ admitted' = admitted /\ shown' = shown
  /\ shown = admitted \/ <<status, failure, metadata>>' = <<status, failure, metadata>>

\* The steps of the frames on the stack: one of them shows the admitted call.
LEMMA TransitionRefines ==
  ASSUME IInv, TransitionStep
  PROVE  ReportsShown \/ (admitted' = admitted /\ shown' = admitted)
<1>1. CASE ResetSource
  <2>1. admitted' = admitted /\ shown' = Top.op /\ stack # <<>> /\ Accepted(Top)
    BY <1>1 DEF ResetSource, ResetDocument, CallOutReturns, In
  <2> QED
    BY <2>1, TopIsCurrent
<1>2. CASE FailBackendCreation \/ ReportBackend
  <2>1. /\ admitted' = admitted /\ shown' = shown
        /\ stack # <<>> /\ Accepted(Top) /\ Top.at \in {"creating", "loading"}
    BY <1>2 DEF FailBackendCreation, SetSourceLoadFailure, ReportBackend, CallOutReturns,
       UpdateStatusFromBackend, BackendCallReturns, BackendAccepted, In
  <2>2. shown = admitted
    BY <2>1, TopIsCurrent DEF PlaceIsReached, LatePlaces, ApplyPlaces
  <2> QED
    BY <2>1, <2>2 DEF ReportsShown
<1>3. CASE ~ResetSource /\ ~FailBackendCreation /\ ~ReportBackend
  <2>1. UNCHANGED <<admitted, documentState>>
    BY <1>3 DEF TransitionStep, Superseded, BackendSuperseded, RetirePlaybackSource,
       DetachRetired, ReplacePlaybackControlSource, FinishCleared, ResolvePlaybackUrl,
       ApplyPlaybackSourceDevice, PublishFailed, InstallBackend, FinishApplied
  <2> QED
    BY <2>1 DEF ReportsShown, documentState
<1> QED
  BY <1>1, <1>2, <1>3

\* Answers of the resolver are about the shown source or change nothing that is shown.
LEMMA ResolverRefines ==
  ASSUME IInv, NEW c \in Calls, ResolverAnswers(c)
  PROVE  ReportsShown
<1>1. CASE FailPlaybackUrlResolution(c)
  <2>1. /\ admitted' = admitted /\ shown' = shown
        /\ transition = c /\ c \in requests /\ c # None
    BY <1>1 DEF FailPlaybackUrlResolution, SetSourceLoadFailure, Answered, AnswerAccepted,
       Calls, None
  <2> QED
    BY <2>1 DEF ReportsShown, IInv, WaitingIsClean, TransitionIsLatest
<1>2. CASE ~FailPlaybackUrlResolution(c)
  <2>1. UNCHANGED <<admitted, documentState>>
    BY <1>2 DEF ResolverAnswers, CompletePlaybackUrlResolution, IgnoreAnswer, frames
  <2> QED
    BY <2>1 DEF ReportsShown, documentState
<1> QED
  BY <1>1, <1>2

\* So are the reports of a backend and of the metadata worker.
LEMMA BackendsRefine ==
  ASSUME IInv, Backends
  PROVE  ReportsShown
<1>1. PICK c \in Calls :
        \/ \E s \in MediaStatuses : MediaStatusChanges(c, s)
        \/ UpdateErrorFromBackend(c)
        \/ MetadataParsed(c)
  BY DEF Backends
<1>2. admitted' = admitted /\ shown' = shown
  BY <1>1 DEF MediaStatusChanges, UpdateStatusFromBackend, UpdateErrorFromBackend,
     MetadataParsed, frames, documentState
<1>3. \/ lifecycle = c
      \/ parsing = c
      \/ UNCHANGED <<status, failure, metadata>>
  BY <1>1 DEF MediaStatusChanges, UpdateErrorFromBackend, MetadataParsed, MetadataAccepted,
     PlaybackCallbacksAccepted, documentState
<1>4. c # None
  BY DEF Calls, None
<1>5. shown = admitted \/ UNCHANGED <<status, failure, metadata>>
  BY <1>3, <1>4 DEF IInv, PlayingIsShown
<1> QED
  BY <1>2, <1>5 DEF ReportsShown

\* A source call is admitted, or the owner changes nothing that is shown.
LEMMA OwnerRefines ==
  ASSUME IInv, Owner
  PROVE  /\ UNCHANGED <<shown, status, failure, metadata>>
         /\ admitted' = admitted \/ (admitted' \in Calls /\ admitted' > admitted)
<1>1. UNCHANGED <<shown, status, failure, metadata>>
  BY DEF Owner, SetSourceUrl, SetSourceDevice, BeginSourceTransition, Destroy, documentState
<1>2. \/ admitted' = admitted
      \/ Len(asked) < MaxCalls /\ admitted' = Len(asked) + 1
  BY DEF Owner, SetSourceUrl, SetSourceDevice, BeginSourceTransition, Destroy, Ask
<1>3. Len(asked) \in Nat /\ admitted \in 0..Len(asked)
  BY DEF IInv, Types
<1>4. admitted' = admitted \/ (admitted' \in 1..MaxCalls /\ admitted' > admitted)
  BY <1>2, <1>3, CallAssumption
<1> QED
  BY <1>1, <1>4 DEF Calls

\* Of several source calls made from inside one another only the latest admitted one becomes
\* visible, and no report of an older one reaches the document after it.
THEOREM Refinement == Spec => ImplementsLatestRequest
<1>1. Init => Requested!Init
  <2> SUFFICES ASSUME Init PROVE Requested!Init
    OBVIOUS
  <2>1. Types
    BY InitHolds DEF IInv
  <2>2. admitted = None /\ shown = None
    BY DEF Init
  <2> QED
    BY <2>1, <2>2, ReportsAreReports DEF Requested!Init, Requested!None, None
<1>2. IInv /\ IInv' /\ [Next]_vars => [Requested!Next]_(Requested!vars)
  <2> SUFFICES ASSUME IInv, IInv', [Next]_vars PROVE [Requested!Next]_(Requested!vars)
    OBVIOUS
  <2>1. <<status, failure, metadata>>' \in Statuses \X Optional(Calls) \X Optional(Calls)
    <3>1. Types'
      BY DEF IInv
    <3>2. Len(asked') \in Nat /\ Len(asked') <= MaxCalls
      BY <3>1 DEF Types
    <3>3. 0..Len(asked') \subseteq Optional(Calls)
      BY <3>2, CallAssumption DEF Optional, Calls, None
    <3> QED
      BY <3>1, <3>3 DEF Types
  <2>2. ASSUME ReportsShown PROVE [Requested!Next]_(Requested!vars)
    BY <2>1, <2>2 DEF ReportsShown, Requested!Next, Requested!Report, Requested!vars
  <2>3. CASE TransitionStep
    <3>1. ASSUME admitted' = admitted, shown' = admitted
          PROVE  [Requested!Next]_(Requested!vars)
      BY <2>1, <3>1 DEF Requested!Next, Requested!Show
    <3> QED
      BY <2>2, <2>3, <3>1, TransitionRefines
  <2>4. CASE \E c \in Calls : ResolverAnswers(c)
    BY <2>2, <2>4, ResolverRefines
  <2>5. CASE Owner
    <3>1. ASSUME UNCHANGED <<shown, status, failure, metadata>>,
                 admitted' \in Calls, admitted' > admitted
          PROVE  [Requested!Next]_(Requested!vars)
      BY <3>1 DEF Requested!Next, Requested!Admit
    <3> QED
      BY <2>5, <3>1, OwnerRefines DEF Requested!vars
  <2>6. CASE Backends
    BY <2>2, <2>6, BackendsRefine
  <2>7. CASE UNCHANGED vars
    BY <2>7 DEF vars, frames, documentState, Requested!vars
  <2> QED
    BY <2>3, <2>4, <2>5, <2>6, <2>7 DEF Next
<1> QED
  BY <1>1, <1>2, Inductive, PTL DEF Spec, ImplementsLatestRequest, Requested!Spec
=============================================================================
