---------------------------- MODULE VideoDocument ----------------------------
(***************************************************************************)
(* VideoDocumentRuntime and VideoDocumentState (app/src/video): changing   *)
(* the source of the video document.  All of it runs on one thread, but a  *)
(* change of source calls out many times (the URL resolver, the retired    *)
(* and the new media backend, the backend factory, the subscribers of the  *)
(* state and of the playback controls), and each of these may call the     *)
(* runtime again before it returns.                                        *)
(*                                                                         *)
(* A call in progress is a frame of "stack"; the place of a frame names    *)
(* the call-out it waits in.  What the code does between two call-outs is  *)
(* one step of the top frame.  The actions of the environment are calls    *)
(* made from the event loop (the stack is empty) or from inside the top    *)
(* frame's call-out.                                                       *)
(*                                                                         *)
(* A source call is named by its number.  It begins at most one source     *)
(* transition, and a transition creates at most one backend and one        *)
(* playback lifecycle, so the number names these as well.  The getters of  *)
(* a backend are pure, as those of QMediaPlayer are.                       *)
(***************************************************************************)
EXTENDS Naturals, Sequences

CONSTANTS
  Urls,      \* the video locations
  NoUrl,     \* the empty URL
  MaxCalls   \* bound: setSourceUrl and setSourceDevice calls

ASSUME UrlAssumption == NoUrl \notin Urls
ASSUME CallAssumption == MaxCalls \in Nat

None == 0
Calls == 1..MaxCalls
Optional(S) == S \cup {None}

VARIABLES
  asked,       \* the locations of the calls made so far, in order
  admitted,    \* the last call that began a transition
  stack,       \* the calls in progress, outermost first
  alive,       \* m_callbackLifetime has not been reset
  transition,  \* the active operation of m_sourceTransition
  phase,       \* m_sourceTransitionPhase
  lifecycle,   \* m_activePlaybackLifecycle
  backend,     \* m_mediaBackend
  device,      \* the call whose device m_playbackSourceDevice holds
  shown,       \* the call whose location m_state.sourceUrl() is
  status,      \* m_state.status()
  failure,     \* the call m_sourceLoadFailure or m_backendFailure is about
  metadata,    \* the call m_state.embeddedMetadata() is about
  parsing,     \* the active operation of m_embeddedMetadataOperation
  requests,    \* the resolutions that were asked for and not answered
  jobs,        \* the metadata jobs that have not completed
  connected,   \* the backends that hold the runtime's callbacks
  media        \* the status class each backend reports

frames == <<stack, asked, admitted>>
sourceState == <<transition, phase, lifecycle, backend, device>>
documentState == <<shown, status, failure, metadata>>
metadataState == <<parsing, jobs>>
external == <<requests, connected, media>>
vars == <<frames, alive, sourceState, documentState, metadataState, external>>

Phases == {"idle", "resolving", "applying"}
Statuses == {"null", "loading", "ready", "error"}
MediaStatuses == {"loading", "ready", "error"}  \* classes of videoDocumentStatusPlan
ChangePlaces == {"cancelling", "replacing", "resetting"}
RetirePlaces == {"stopping", "detaching"}
ApplyPlaces == {"creating", "loading", "reporting", "failing"}
Places == ChangePlaces \cup RetirePlaces \cup ApplyPlaces \cup {"quitting"}
Frames == [op : Optional(Calls), at : Places, byDevice : BOOLEAN, local : BOOLEAN,
           old : Optional(Calls)]

TypeOK ==
  /\ asked \in Seq(Urls \cup {NoUrl}) /\ Len(asked) <= MaxCalls
  /\ {admitted, transition, lifecycle, backend, device, shown, failure, metadata, parsing}
       \subseteq Optional(1..Len(asked))
  /\ stack \in Seq(Frames)
  /\ alive \in BOOLEAN
  /\ phase \in Phases /\ (phase = "idle") = (transition = None)
  /\ status \in Statuses
  /\ requests \cup jobs \cup connected \subseteq Calls
  /\ media \in [Calls -> MediaStatuses]

Init ==
  /\ asked = <<>> /\ admitted = None /\ stack = <<>> /\ alive = TRUE
  /\ transition = None /\ phase = "idle" /\ lifecycle = None /\ backend = None
  /\ device = None /\ shown = None /\ status = "null" /\ failure = None
  /\ metadata = None /\ parsing = None /\ requests = {} /\ jobs = {}
  /\ connected = {} /\ media = [c \in Calls |-> "loading"]

UrlOf(c) == IF c = None THEN NoUrl ELSE asked[c]
SourceUrl == UrlOf(shown)

-----------------------------------------------------------------------------
(* The call stack. *)

Top == stack[Len(stack)]
Push(f) == stack' = Append(stack, f)
Return == stack' = SubSeq(stack, 1, Len(stack) - 1)
WaitIn(place) == stack' = [stack EXCEPT ![Len(stack)].at = place]
Retiring(place, b) == stack' = [stack EXCEPT ![Len(stack)].at = place, ![Len(stack)].old = b]
In(place) == stack # <<>> /\ Top.at = place

Accepted(f) == alive /\ transition = f.op

BackendAccepted(f) == Accepted(f) /\ lifecycle = f.op /\ backend = f.op

-----------------------------------------------------------------------------
(* Calls of the owner, from the event loop or from inside a call-out. *)

KeepSource(u) ==  \* the early return of setSourceUrl
  /\ SourceUrl = u
  /\ device = None
  /\ u = NoUrl \/ phase # "idle" \/ backend # None

KeepPlaybackCallbacks == UNCHANGED lifecycle  \* a mutation: the old callbacks stay accepted

InvalidatePlaybackCallbacks == lifecycle' = None

BeginSourceTransition(c, firstPhase, byDevice) ==
  /\ admitted' = c
  /\ parsing' = None
  /\ transition' = c
  /\ phase' = firstPhase
  /\ InvalidatePlaybackCallbacks
  /\ Push([op |-> c, at |-> "cancelling", byDevice |-> byDevice, local |-> FALSE,
           old |-> None])
  /\ UNCHANGED <<alive, backend, device, documentState, jobs, external>>

Ask(u) ==
  /\ alive
  /\ Len(asked) < MaxCalls
  /\ asked' = Append(asked, u)

FirstPhase(u) == IF u = NoUrl THEN "applying" ELSE "resolving"

SetSourceUrl(u) ==
  /\ Ask(u)
  /\ \/ /\ KeepSource(u)
        /\ UNCHANGED <<stack, admitted, alive, sourceState, documentState,
                       metadataState, external>>
     \/ /\ ~KeepSource(u)
        /\ BeginSourceTransition(Len(asked) + 1, FirstPhase(u), FALSE)

SetSourceDevice(u) ==  \* with a device; without one it is setSourceUrl(QUrl())
  /\ u # NoUrl
  /\ Ask(u)
  /\ BeginSourceTransition(Len(asked) + 1, "applying", TRUE)

Destroy ==
  /\ alive
  /\ alive' = FALSE
  /\ parsing' = None
  /\ transition' = None
  /\ phase' = "idle"
  /\ Push([op |-> None, at |-> "quitting", byDevice |-> FALSE, local |-> FALSE,
           old |-> None])
  /\ UNCHANGED <<asked, admitted, lifecycle, backend, device, documentState, jobs, external>>

-----------------------------------------------------------------------------
(* A change of source: its frame returns at the first place where the      *)
(* transition is no longer the accepted one.                               *)

Superseded(place) ==
  /\ In(place)
  /\ ~Accepted(Top)
  /\ Return
  /\ UNCHANGED <<asked, admitted, alive, sourceState, documentState, metadataState, external>>

CallOutReturns(place) == In(place) /\ Accepted(Top)

RetirePlaybackSource ==  \* the resolver was cancelled and cleaned up; up to the call of stop()
  /\ In("quitting") \/ CallOutReturns("cancelling")
  /\ InvalidatePlaybackCallbacks
  /\ device' = None
  /\ backend' = None
  /\ \/ backend # None /\ Retiring("stopping", backend)
     \/ backend = None /\ In("cancelling") /\ WaitIn("replacing")
     \/ backend = None /\ In("quitting") /\ Return
  /\ UNCHANGED <<asked, admitted, alive, transition, phase, documentState, metadataState,
                 external>>

RetireKeepingCallbacks ==  \* a mutation: setCallbacks({}) is forgotten
  UNCHANGED connected

DisconnectRetired == connected' = connected \ {Top.old}

DetachRetired ==  \* stop() returned, whoever is accepted now
  /\ In("stopping")
  /\ DisconnectRetired
  /\ media' = [media EXCEPT ![Top.old] = "loading"]  \* setSource(QUrl()); unheard from here on
  /\ Retiring("detaching", None)
  /\ UNCHANGED <<asked, admitted, alive, sourceState, documentState, metadataState, requests>>

ReplacePlaybackControlSource ==  \* setSource and setVideoOutput of the retired backend returned
  /\ CallOutReturns("detaching")
  /\ WaitIn("replacing")
  /\ UNCHANGED <<asked, admitted, alive, sourceState, documentState, metadataState, external>>

ResetDocument(c, newStatus) ==  \* resetForClearedSource, resetForSourceLoad
  /\ shown' = c
  /\ status' = newStatus
  /\ failure' = None
  /\ metadata' = None

ResetSource ==
  /\ CallOutReturns("replacing")
  /\ ResetDocument(Top.op, IF UrlOf(Top.op) = NoUrl THEN "null" ELSE "loading")
  /\ WaitIn("resetting")
  /\ UNCHANGED <<asked, admitted, alive, sourceState, metadataState, external>>

FinishKeepingPhase ==  \* a mutation: the phase is not reset
  /\ transition' = None
  /\ UNCHANGED phase

FinishSourceTransition ==
  /\ transition' = None
  /\ phase' = "idle"

FinishCleared ==
  /\ CallOutReturns("resetting")
  /\ UrlOf(Top.op) = NoUrl
  /\ FinishSourceTransition
  /\ Return
  /\ UNCHANGED <<asked, admitted, alive, lifecycle, backend, device, documentState,
                 metadataState, external>>

ResolvePlaybackUrl ==  \* nothing follows the call of resolve()
  /\ CallOutReturns("resetting")
  /\ UrlOf(Top.op) # NoUrl /\ ~Top.byDevice
  /\ phase = "resolving"
  /\ requests' = requests \cup {Top.op}
  /\ Return
  /\ UNCHANGED <<asked, admitted, alive, sourceState, documentState, metadataState,
                 connected, media>>

ApplyPlaybackSourceDevice ==
  /\ CallOutReturns("resetting")
  /\ Top.byDevice
  /\ WaitIn("creating")
  /\ UNCHANGED <<asked, admitted, alive, sourceState, documentState, metadataState, external>>

-----------------------------------------------------------------------------
(* The resolver answers, possibly late or inside another call-out, and the *)
(* accepted answer is applied.                                             *)

AnswerAcceptedBySource(c) ==  \* a mutation: only the location is compared
  alive /\ transition # None /\ UrlOf(transition) = UrlOf(c) /\ phase = "resolving"

AnswerAccepted(c) == alive /\ transition = c /\ phase = "resolving"

Answered(c) ==
  /\ c \in requests
  /\ requests' = requests \ {c}

ApplyFrame(c, place, isLocal) ==
  [op |-> c, at |-> place, byDevice |-> FALSE, local |-> isLocal, old |-> None]

CompletePlaybackUrlResolution(c, isLocal) ==
  /\ Answered(c)
  /\ AnswerAccepted(c)
  /\ phase' = "applying"
  /\ Push(ApplyFrame(c, "creating", isLocal))
  /\ UNCHANGED <<asked, admitted, alive, transition, lifecycle, backend, device,
                 documentState, metadataState, connected, media>>

SetSourceLoadFailure(c) ==
  /\ status' = "error"
  /\ failure' = c
  /\ UNCHANGED <<shown, metadata>>

FailPlaybackUrlResolution(c) ==  \* with publishSourceLoadFailure
  /\ Answered(c)
  /\ AnswerAccepted(c)
  /\ phase' = "applying"
  /\ InvalidatePlaybackCallbacks
  /\ SetSourceLoadFailure(c)
  /\ Push(ApplyFrame(c, "failing", FALSE))
  /\ UNCHANGED <<asked, admitted, alive, transition, backend, device, metadataState,
                 connected, media>>

IgnoreAnswer(c) ==
  /\ Answered(c)
  /\ ~AnswerAccepted(c)
  /\ UNCHANGED <<frames, alive, sourceState, documentState, metadataState, connected, media>>

FailBackendCreation ==  \* the factory made no backend
  /\ CallOutReturns("creating")
  /\ InvalidatePlaybackCallbacks
  /\ SetSourceLoadFailure(Top.op)
  /\ WaitIn("failing")
  /\ UNCHANGED <<asked, admitted, alive, transition, phase, backend, device, metadataState,
                 external>>

PublishFailed ==  \* the subscribers and the diagnostic callback returned
  /\ CallOutReturns("failing")
  /\ FinishSourceTransition
  /\ Return
  /\ UNCHANGED <<asked, admitted, alive, lifecycle, backend, device, documentState,
                 metadataState, external>>

InstallBackend ==  \* then setCallbacks, setMuted, the output target and the source
  /\ CallOutReturns("creating")
  /\ backend' = Top.op
  /\ device' = IF Top.byDevice THEN Top.op ELSE None
  /\ lifecycle' = Top.op
  /\ connected' = connected \cup {Top.op}
  /\ WaitIn("loading")
  /\ UNCHANGED <<asked, admitted, alive, transition, phase, documentState, metadataState,
                 requests, media>>

BackendSuperseded(place) ==
  /\ In(place)
  /\ ~BackendAccepted(Top)
  /\ Return
  /\ UNCHANGED <<asked, admitted, alive, sourceState, documentState, metadataState, external>>

BackendCallReturns(place) == In(place) /\ BackendAccepted(Top)

StatusPlan(s) ==  \* videoDocumentStatusPlan
  IF SourceUrl = NoUrl THEN "null"
  ELSE IF phase = "resolving" THEN "loading"
  ELSE s

UpdateStatusKeepingFailure(c, s) ==  \* a mutation: the failure of the old status stays
  /\ status' = StatusPlan(s)
  /\ failure' = IF StatusPlan(s) = "error" THEN c ELSE failure
  /\ UNCHANGED <<shown, metadata>>

UpdateStatusFromBackend(c, s) ==
  /\ status' = StatusPlan(s)
  /\ failure' = IF StatusPlan(s) = "error" THEN c ELSE None
  /\ UNCHANGED <<shown, metadata>>

ReportBackend ==
  /\ BackendCallReturns("loading")
  /\ UpdateStatusFromBackend(Top.op, media[Top.op])
  /\ WaitIn("reporting")
  /\ UNCHANGED <<asked, admitted, alive, sourceState, metadataState, external>>

FinishApplied ==  \* the projections were published and play() returned
  /\ BackendCallReturns("reporting")
  /\ FinishSourceTransition
  /\ IF Top.local /\ ~Top.byDevice
     THEN parsing' = Top.op /\ jobs' = jobs \cup {Top.op}
     ELSE UNCHANGED metadataState
  /\ Return
  /\ UNCHANGED <<asked, admitted, alive, lifecycle, backend, device, documentState, external>>

-----------------------------------------------------------------------------
(* What backends and the metadata worker report, from the event loop or    *)
(* from inside a call-out.                                                 *)

LifecycleAccepted(c) == lifecycle = c  \* a mutation: the lifetime is not checked

PlaybackCallbacksAccepted(c) == alive /\ lifecycle = c

MediaStatusChanges(c, s) ==  \* reported at once, and heard by an accepted lifecycle
  /\ c \in connected
  /\ media[c] # s
  /\ media' = [media EXCEPT ![c] = s]
  /\ \/ /\ PlaybackCallbacksAccepted(c) /\ backend # None
        /\ UpdateStatusFromBackend(c, s)
     \/ /\ ~(PlaybackCallbacksAccepted(c) /\ backend # None)
        /\ UNCHANGED documentState
  /\ UNCHANGED <<frames, alive, sourceState, metadataState, requests, connected>>

UpdateErrorFromBackend(c) ==
  /\ c \in connected
  /\ PlaybackCallbacksAccepted(c) /\ backend # None
  /\ status' = "error"
  /\ failure' = c
  /\ UNCHANGED <<frames, alive, sourceState, shown, metadata, metadataState, external>>

MetadataAccepted(c) == parsing = c

MetadataParsed(c) ==  \* completeEmbeddedMetadataParsing
  /\ alive
  /\ c \in jobs
  /\ jobs' = jobs \ {c}
  /\ IF MetadataAccepted(c)
     THEN parsing' = None /\ metadata' = c
     ELSE UNCHANGED <<parsing, metadata>>
  /\ UNCHANGED <<frames, alive, sourceState, shown, status, failure, external>>

-----------------------------------------------------------------------------

TransitionStep ==
  \/ \E place \in ChangePlaces \cup {"detaching", "creating", "failing"} : Superseded(place)
  \/ \E place \in ApplyPlaces \ {"creating", "failing"} : BackendSuperseded(place)
  \/ RetirePlaybackSource \/ DetachRetired
  \/ ReplacePlaybackControlSource \/ ResetSource \/ FinishCleared
  \/ ResolvePlaybackUrl \/ ApplyPlaybackSourceDevice
  \/ FailBackendCreation \/ PublishFailed \/ InstallBackend
  \/ ReportBackend \/ FinishApplied

ResolverAnswers(c) ==
  \/ \E isLocal \in BOOLEAN : CompletePlaybackUrlResolution(c, isLocal)
  \/ FailPlaybackUrlResolution(c)
  \/ IgnoreAnswer(c)

Owner ==
  \/ \E u \in Urls \cup {NoUrl} : SetSourceUrl(u)
  \/ \E u \in Urls : SetSourceDevice(u)
  \/ Destroy

Backends ==
  \E c \in Calls :
    \/ \E s \in MediaStatuses : MediaStatusChanges(c, s)
    \/ UpdateErrorFromBackend(c)
    \/ MetadataParsed(c)

Next ==
  \/ TransitionStep
  \/ \E c \in Calls : ResolverAnswers(c)
  \/ Owner
  \/ Backends

\* A call-out returns, and the resolver answers what it was asked.
Fairness ==
  /\ WF_vars(TransitionStep)
  /\ \A c \in Calls : WF_vars(ResolverAnswers(c))

Spec == Init /\ [][Next]_vars /\ Fairness

-----------------------------------------------------------------------------
(* Properties. *)

AtRest == alive /\ stack = <<>>

\* When no call is in progress the runtime is in one of its resting states: it plays the
\* source it shows with the callbacks of that backend accepted, it waits for an answer of
\* the resolver, or it has no backend; it never rests while applying a result, and no
\* replaced backend still holds its callbacks.
RestingStateIsWhole ==
  AtRest =>
    /\ phase # "applying"
    /\ shown = admitted
    /\ phase = "resolving" => transition = shown /\ shown \in requests /\ backend = None
    /\ backend = lifecycle
    /\ backend \in {None, shown}
    /\ connected = {backend} \ {None}
    /\ device \in {None, backend}

\* Status, failure and backend agree at rest: an error is the failure of the shown source,
\* and what is shown of a playing source is what its backend last reported.
StatusIsCurrent ==
  AtRest =>
    /\ (status = "error") = (failure # None)
    /\ failure \in {None, shown}
    /\ (status = "null") = (SourceUrl = NoUrl)
    /\ phase = "resolving" => status = "loading"
    /\ backend # None => status \in {media[backend], "error"}

\* Nothing of the runtime is written after its destructor began, however many of its calls
\* are still on the stack.
DestroyedIsInert ==
  [][~alive => UNCHANGED <<transition, phase, documentState, metadataState>>]_vars

\* Of several source calls made from inside one another only the latest admitted one
\* becomes visible, and no report of an older one reaches the document after it.
Requested == INSTANCE LatestRequest WITH
  Requests <- Calls,
  Reports <- Statuses \X Optional(Calls) \X Optional(Calls),
  latest <- admitted,
  shown <- shown,
  report <- <<status, failure, metadata>>

ImplementsLatestRequest == Requested!Spec

\* Every change of source settles once the resolver has answered.
SourceSettles == (phase # "idle") ~> (phase = "idle")

\* What the tests expect of a source call made from inside another one: when all calls
\* have returned, the source of the last call is shown.
LatestSourceWins ==
  AtRest /\ asked # <<>> => SourceUrl = asked[Len(asked)]
=============================================================================
