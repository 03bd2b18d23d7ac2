------------------------------ MODULE ImageOpen ------------------------------
(***************************************************************************)
(* Opening a source in an image document (app/src/document): the plans of  *)
(* ImageOpenWorkflow dispatched by ImageDocumentRuntimeGraph,              *)
(* ImageOpenController, ImageLoader with its session tracker, and the      *)
(* viewport target that shows the image.  One thread.  Every change of the *)
(* document is told to subscribers, who may load again from inside; what   *)
(* was in progress below goes on only as far as its revisions allow.       *)
(*                                                                         *)
(* A revision is only compared for equality by calls that are in progress, *)
(* so a frame holds whether its revision is still the current one.  What   *)
(* runs inside a change batch is one step, and the batch's end tells.      *)
(* Pages are shown one at a time.                                          *)
(***************************************************************************)
EXTENDS Naturals, Sequences

CONSTANTS
  Requests,  \* the sources that are asked for
  MaxLoads   \* bound: loads, and other calls that replace the document

None == "none"
\* A file; a comic book, one of its pages and one of its clips; a page of a sibling book, and
\* that book.
Sources == {"file", "book", "page", "clip", "sibling", "shelf"}
Container == [s \in Sources \cup {None} |->
  CASE s \in {"book", "page", "clip"} -> "book" [] s \in {"sibling", "shelf"} -> "shelf"
    [] OTHER -> None]
SameScopePage(s) == s \in {"page", "clip"}
ConstantsAreSound == Requests \subseteq (Sources \ {"shelf"}) \cup {None} /\ MaxLoads \in Nat

VARIABLES
  image,      \* ImageDocumentState: selected source, status, displayed page, containers
  prepared,   \* m_sourceLoadRequest
  session,    \* the loader's current session: its number (0: none), request and page
  snapshots,  \* sessions whose page candidates were asked for
  target,     \* the session of m_viewportTarget, or 0
  unshown,    \* the session of m_pendingViewportImageLoad, or 0
  loads,      \* calls made
  opened,     \* sessions started
  fatal,      \* a plan with an invalid final state was applied: qFatal
  lost,       \* history: the load in progress was cut off by a call inside another one
  stack       \* the calls in progress

loading == <<prepared, session, snapshots>>
viewport == <<target, unshown>>
history == <<fatal, lost>>
vars == <<image, loading, viewport, loads, opened, history, stack>>

NoSession == [id |-> 0, source |-> None, page |-> None]
Ops == {"cancelOpen", "callOut", "clearLoadingContainer", "setLoadingContainer", "prepare",
        "select", "setContainer", "beginOpen", "clearImage", "clearError",
        "finishEmpty"}
Frames == [at : {"told", "plan", "clearTarget", "applied", "reported", "started", "asking",
                 "prepared", "probing"},
           ops : Seq(Ops), of : Sources \cup {None}, id : 0..opened, current : BOOLEAN]

TypeOK ==
  /\ image \in [source : Sources \cup {None}, status : {"null", "loading", "ready", "error"},
                loading : BOOLEAN, error : BOOLEAN, displayed : Sources \cup {None},
                container : Sources \cup {None}, loadingContainer : Sources \cup {None}]
  /\ prepared \in Sources \cup {None}
  /\ session \in [id : 0..opened, source : Sources \cup {None}, page : Sources \cup {None}]
  /\ snapshots \subseteq 1..opened /\ {target, unshown} \subseteq 0..opened
  /\ loads \in 0..MaxLoads /\ opened \in 0..MaxLoads
  /\ fatal \in BOOLEAN /\ lost \in BOOLEAN
  /\ stack \in Seq(Frames)

Init ==
  /\ image = [source |-> None, status |-> "null", loading |-> FALSE, error |-> FALSE,
              displayed |-> None, container |-> None, loadingContainer |-> None]
  /\ prepared = None /\ session = NoSession /\ snapshots = {}
  /\ target = 0 /\ unshown = 0 /\ loads = 0 /\ opened = 0
  /\ fatal = FALSE /\ lost = FALSE /\ stack = <<>>

-----------------------------------------------------------------------------
(* Calls in progress. *)

Frame(at, ops, of, id) == [at |-> at, ops |-> ops, of |-> of, id |-> id, current |-> TRUE]
Told == Frame("told", <<>>, None, 0)
Top == IF stack = <<>> THEN Told ELSE stack[Len(stack)]
Below == SubSeq(stack, 1, Len(stack) - 1)
CanCall == Top.at = "told"

Superseded(frames, kinds) ==  \* a newer revision: what compares the old one is not current
  [i \in DOMAIN frames |-> IF frames[i].at \in kinds THEN [frames[i] EXCEPT !.current = FALSE]
                                                     ELSE frames[i]]
BeginOperation(frames) == Superseded(frames, {"applied", "reported"})

CancelActiveLoad == session' = NoSession /\ unshown' = 0

-----------------------------------------------------------------------------
(* The plans. *)

\* A load of the selected source keeps the open in progress.
CurrentSource(s) == s # None /\ image.source = s
                    /\ (s = "book" => Container[image.displayed] = "book")

SourceLoadPlan(s) ==
  IF CurrentSource(s)
  THEN <<"callOut", "clearLoadingContainer", "select">>
       \o (IF s = "sibling" THEN <<"setContainer">> ELSE <<>>)
  ELSE <<"cancelOpen", "callOut">>
       \o (IF SameScopePage(s) THEN <<"clearLoadingContainer">> ELSE <<"setLoadingContainer">>)
       \o <<"prepare", "select", "beginOpen">>

ClearDeletedImagePlan ==
  <<"callOut", "cancelOpen", "callOut", "select", "clearError", "finishEmpty">>

ClearImagePlan == <<"callOut", "clearImage", "callOut">>

\* finalImageOpenStateIsValid; a clip is always displayed in its collection
FinalStateIsValid(d) ==
  CASE d.status = "null" -> ~d.loading /\ ~d.error /\ d.container = None
    [] d.status = "loading" -> d.loading /\ ~d.error
    [] d.status = "ready" -> /\ ~d.loading /\ ~d.error
                             /\ d.source # None /\ d.displayed # None
                             /\ d.container = Container[d.displayed]
    [] d.status = "error" -> ~d.loading /\ d.error

Apply(d) == image' = d /\ fatal' = (fatal \/ ~FinalStateIsValid(d))

Finished(status) == [image EXCEPT !.status = status, !.loading = FALSE,
                                  !.error = (status = "error"), !.loadingContainer = None]

\* The state after a load failed; a sibling container is selected in place of its page.
Failed(s) == [Finished("error") EXCEPT !.container = IF s = "sibling" THEN Container[s] ELSE None,
                                       !.source = IF s = "sibling" THEN Container[s] ELSE @]

\* A batch that ends an open clears the page and the viewport target in the same step.
FinishLoadWithError(s, frames) ==
  /\ Apply([Failed(s) EXCEPT !.displayed = None])
  /\ session' = NoSession /\ target' = 0 /\ unshown' = 0
  /\ stack' = Append(frames, Told)

FinishVideo(s, frames) ==  \* playable or not, the clip is displayed and the target retired
  /\ Apply([Finished("ready") EXCEPT !.source = "clip", !.displayed = "clip",
                                     !.container = "book"])
  /\ session' = NoSession /\ target' = 0 /\ unshown' = 0
  /\ stack' = Append(frames, Told)

-----------------------------------------------------------------------------
(* Calls of the owners, from the event loop or from a subscriber.          *)

Replace == CanCall /\ loads < MaxLoads /\ loads' = loads + 1
FromEventLoop == stack = <<>>  \* the answer of a file job or of a listing

CutOff(s) ==  \* a plan in progress cancelled the open, and this load keeps it from beginning another
  /\ CurrentSource(s) /\ image.loading /\ session = NoSession
  /\ \E i \in DOMAIN stack : /\ stack[i].at = "plan" /\ stack[i].current
                             /\ "beginOpen" \in {stack[i].ops[j] : j \in DOMAIN stack[i].ops}

LoadSource(s) ==
  /\ Replace
  /\ stack' = Append(Superseded(stack, {"plan"}), Frame("plan", SourceLoadPlan(s), s, 0))
  /\ lost' = (lost \/ CutOff(s))
  /\ UNCHANGED <<image, loading, viewport, opened, fatal>>

ClearDeletedImage ==  \* reported by the deletion of the displayed file
  /\ Replace /\ FromEventLoop
  /\ image.status = "ready"
  /\ stack' = Append(stack, Frame("plan", ClearDeletedImagePlan, None, 0))
  /\ UNCHANGED <<image, loading, viewport, opened, history>>

FinishContainerNavigationLoadWithError ==  \* the sibling container is empty or unreadable
  /\ Replace /\ FromEventLoop
  /\ CancelActiveLoad
  /\ Apply([Finished("error") EXCEPT !.source = "shelf", !.container = "shelf"])
  /\ stack' = BeginOperation(stack) \o <<Frame("applied", ClearImagePlan, None, 0), Told>>
  /\ UNCHANGED <<prepared, snapshots, target, opened, lost>>

CallOutReturns ==
  /\ stack # <<>> /\ Top.at = "told"
  /\ stack' = Below
  /\ UNCHANGED <<image, loading, viewport, loads, opened, history>>

-----------------------------------------------------------------------------
(* Dispatching a plan, as long as no newer load has been dispatched.       *)

Op(op) == Top.at = "plan" /\ Top.current /\ Top.ops # <<>> /\ Head(Top.ops) = op
Rest == Append(Below, [Top EXCEPT !.ops = Tail(@)])

DispatchEnds ==
  /\ Top.at = "plan" /\ (~Top.current \/ Top.ops = <<>>)
  /\ stack' = Below
  /\ UNCHANGED <<image, loading, viewport, loads, opened, history>>

CancelOpen ==
  /\ Op("cancelOpen")
  /\ CancelActiveLoad
  /\ stack' = BeginOperation(Rest)
  /\ UNCHANGED <<image, prepared, snapshots, target, loads, opened, history>>

CallOut ==  \* the other parts of the document are told to cancel or to clear
  /\ Op("callOut")
  /\ stack' = Append(Rest, Told)
  /\ UNCHANGED <<image, loading, viewport, loads, opened, history>>

Change(d) ==
  /\ image' = d
  /\ stack' = IF [d EXCEPT !.loadingContainer = None] = [image EXCEPT !.loadingContainer = None]
              THEN Rest ELSE Append(Rest, Told)

ChangeState ==
  /\ \/ Op("clearLoadingContainer") /\ Change([image EXCEPT !.loadingContainer = None])
     \/ /\ Op("setLoadingContainer")
        /\ Change([image EXCEPT !.loadingContainer =
                     IF Top.of = "sibling" THEN Container[Top.of] ELSE None])
     \/ Op("select") /\ Change([image EXCEPT !.source = Top.of])
     \/ Op("setContainer") /\ Change([image EXCEPT !.container = Container[Top.of]])
     \/ Op("clearError") /\ Change([image EXCEPT !.error = FALSE])
  /\ UNCHANGED <<loading, viewport, loads, opened, history>>

PrepareSourceLoad ==
  /\ Op("prepare")
  /\ prepared' = Top.of
  /\ stack' = Rest
  /\ UNCHANGED <<image, session, snapshots, viewport, loads, opened, history>>

ClearViewportTarget == target' = 0 /\ unshown' = 0

ClearPresentationImage ==  \* the page is cleared and told before the target
  /\ Op("clearImage")
  /\ image' = [image EXCEPT !.displayed = None]
  /\ IF image.displayed = None
     THEN ClearViewportTarget /\ stack' = Rest
     ELSE /\ UNCHANGED viewport
          /\ stack' = Rest \o <<Frame("clearTarget", <<>>, None, 0), Told>>
  /\ UNCHANGED <<loading, loads, opened, history>>

TargetCleared ==  \* nothing is compared here: the target may be that of a newer load
  /\ Top.at = "clearTarget"
  /\ ClearViewportTarget
  /\ lost' = (lost \/ (session # NoSession /\ session.id = target))
  /\ stack' = Below
  /\ UNCHANGED <<image, loading, loads, opened, fatal>>

-----------------------------------------------------------------------------
(* ImageOpenController::open().                                            *)

FinishEmpty(frames) ==  \* finishEmptySourceLoad()
  /\ Apply([Finished("null") EXCEPT !.container = None])
  /\ stack' = frames \o <<Frame("applied", ClearImagePlan, None, 0), Told>>

FinishEmptySourceLoad ==
  /\ Op("finishEmpty")
  /\ FinishEmpty(Rest)
  /\ UNCHANGED <<loading, viewport, loads, opened, lost>>

OpenEmpty ==
  /\ Op("beginOpen") /\ image.source = None
  /\ CancelActiveLoad
  /\ FinishEmpty(BeginOperation(Rest))
  /\ lost' = FALSE
  /\ UNCHANGED <<prepared, snapshots, target, loads, opened>>

BeginSourceLoad(authoritative) ==  \* the viewport shows an image to keep until the next one
  /\ Op("beginOpen") /\ image.source # None  \* a request is always prepared here
  /\ authoritative => target # 0
  /\ CancelActiveLoad
  /\ prepared' = None
  /\ Apply([image EXCEPT !.status = "loading", !.loading = TRUE, !.error = FALSE,
                         !.container = IF ~authoritative /\ image.loadingContainer = None
                                       THEN None ELSE @])
  /\ LET report == IF authoritative \/ SameScopePage(prepared) THEN <<"callOut">>
                                                               ELSE ClearImagePlan
     IN  stack' = BeginOperation(Rest) \o <<Frame("applied", report, prepared, 0), Told>>
  /\ lost' = FALSE
  /\ UNCHANGED <<snapshots, target, loads, opened>>

AlwaysCurrent(frame) == TRUE  \* a mutation: a newer open is not noticed

OperationIsCurrent(frame) == frame.current

ReportPlan ==
  /\ Top.at = "applied"
  /\ stack' = IF OperationIsCurrent(Top)
              THEN Below \o <<[Top EXCEPT !.at = "reported"], Frame("plan", Top.ops, None, 0)>>
              ELSE Below
  /\ UNCHANGED <<image, loading, viewport, loads, opened, history>>

NothingToStart ==
  /\ Top.at = "reported" /\ (~OperationIsCurrent(Top) \/ Top.of = None)
  /\ stack' = Below
  /\ UNCHANGED <<image, loading, viewport, loads, opened, history>>

-----------------------------------------------------------------------------
(* The loader.                                                             *)

Start(s) ==
  /\ Top.at = "reported" /\ OperationIsCurrent(Top) /\ Top.of = s
  /\ opened' = opened + 1

StartVideo ==  \* asks first whether clips of this collection can be played
  /\ Start("clip")
  /\ session' = [id |-> opened + 1, source |-> "clip", page |-> "clip"]
  /\ stack' = Below \o <<Frame("probing", <<>>, None, opened + 1), Told>>
  /\ UNCHANGED <<image, prepared, snapshots, viewport, loads, history>>

StartTarget(s) ==  \* targetStarted: the viewport accepts the target of the session, or does not
  /\ s # "clip" /\ Start(s)
  /\ \/ /\ session' = [id |-> opened + 1, source |-> s, page |-> s]
        /\ target' = opened + 1 /\ unshown' = 0
        /\ stack' = Below \o <<Frame("started", <<>>, s, opened + 1), Told>>
        /\ UNCHANGED <<image, fatal>>
     \/ FinishLoadWithError(s, Below)
  /\ UNCHANGED <<prepared, snapshots, loads, lost>>

AnySession(id) == TRUE  \* a mutation: the answers of a cancelled session count

IsCurrentSession(id) == session.id = id

ResolveProviderImage(id) ==  \* resolvedImage: the target is still that of the session, or not
  \/ /\ target = id
     /\ unshown' = id
     /\ stack' = Below
     /\ UNCHANGED <<image, fatal, session, target>>
  \/ FinishLoadWithError(session.source, Below)

Resolve(id) == ResolveProviderImage(id) /\ UNCHANGED <<prepared, snapshots, loads, opened, lost>>

TargetStarted ==
  /\ Top.at = "started" /\ IsCurrentSession(Top.id) /\ Top.of # "book"
  /\ Resolve(Top.id)

StartOpenedCollectionLoad ==
  /\ Top.at = "started" /\ IsCurrentSession(Top.id) /\ Top.of = "book"
  /\ snapshots' = snapshots \cup {Top.id}
  /\ stack' = Append(Below, [Top EXCEPT !.at = "asking"])
  /\ UNCHANGED <<image, prepared, session, viewport, loads, opened, history>>

AskReturns ==
  /\ Top.at = "asking"
  /\ stack' = Below
  /\ UNCHANGED <<image, loading, viewport, loads, opened, history>>

SnapshotArrives(id) ==  \* from the event loop, or inside the call that asked for it
  /\ id \in snapshots
  /\ stack = <<>> \/ (Top.at = "asking" /\ Top.id = id)
  /\ snapshots' = snapshots \ {id}

FinishOpenedCollectionCandidates(id) ==  \* the first page is selected before it is loaded
  /\ SnapshotArrives(id) /\ IsCurrentSession(id)
  /\ \E page \in {"page", "clip"} :
       /\ session' = [session EXCEPT !.page = page]
       /\ Apply([image EXCEPT !.source = IF page = "clip" THEN "clip" ELSE session.source])
       /\ stack' = stack \o <<Frame("prepared", <<>>, page, id), Told>>
  /\ UNCHANGED <<prepared, viewport, loads, opened, lost>>

FailOpenedCollectionLoad(id) ==  \* unreadable, mismatched or empty
  /\ SnapshotArrives(id) /\ IsCurrentSession(id)
  /\ FinishLoadWithError(session.source, stack)
  /\ UNCHANGED <<prepared, loads, opened, lost>>

IgnoreSnapshot(id) ==
  /\ SnapshotArrives(id) /\ ~IsCurrentSession(id)
  /\ UNCHANGED <<image, prepared, session, viewport, loads, opened, history, stack>>

SourcePrepared ==
  /\ Top.at = "prepared" /\ IsCurrentSession(Top.id)
  /\ IF Top.of = "page"
     THEN Resolve(Top.id)
     ELSE /\ stack' = Below \o <<[Top EXCEPT !.at = "probing"], Told>>
          /\ UNCHANGED <<image, loading, viewport, loads, opened, history>>

VideoAvailabilityProbed ==
  /\ Top.at = "probing" /\ IsCurrentSession(Top.id)
  /\ FinishVideo(session.source, Below)
  /\ UNCHANGED <<prepared, snapshots, loads, opened, lost>>

SessionSuperseded ==
  /\ Top.at \in {"started", "prepared", "probing"} /\ ~IsCurrentSession(Top.id)
  /\ stack' = Below
  /\ UNCHANGED <<image, loading, viewport, loads, opened, history>>

-----------------------------------------------------------------------------
(* The viewport reports the target it shows or cannot show.                *)

Projection == stack = <<>> /\ unshown # 0 /\ target = unshown

FinishViewportImageLoadReady ==
  /\ Projection /\ IsCurrentSession(unshown)
  /\ unshown' = 0
  /\ session' = NoSession
  /\ Apply([Finished("ready") EXCEPT !.source = session.source, !.displayed = session.page,
                                     !.container = Container[session.page]])
  /\ stack' = <<Told>>
  /\ UNCHANGED <<prepared, snapshots, target, loads, opened, lost>>

FinishViewportImageLoadWithError ==
  /\ Projection /\ IsCurrentSession(unshown)
  /\ FinishLoadWithError(session.source, <<>>)
  /\ UNCHANGED <<prepared, snapshots, loads, opened, lost>>

-----------------------------------------------------------------------------

Dispatch == \/ DispatchEnds \/ CancelOpen \/ CallOut \/ ChangeState \/ PrepareSourceLoad
            \/ ClearPresentationImage \/ TargetCleared \/ FinishEmptySourceLoad
Open == \/ OpenEmpty \/ (\E a \in BOOLEAN : BeginSourceLoad(a))
        \/ ReportPlan \/ NothingToStart
Loader == \/ StartVideo \/ (\E s \in Sources : StartTarget(s)) \/ TargetStarted
          \/ StartOpenedCollectionLoad \/ AskReturns \/ SourcePrepared
          \/ VideoAvailabilityProbed \/ SessionSuperseded
Snapshots(id) == \/ FinishOpenedCollectionCandidates(id) \/ FailOpenedCollectionLoad(id)
                 \/ IgnoreSnapshot(id)
Viewport == FinishViewportImageLoadReady \/ FinishViewportImageLoadWithError

Next ==
  \/ \E s \in Requests : LoadSource(s)
  \/ ClearDeletedImage \/ FinishContainerNavigationLoadWithError
  \/ CallOutReturns \/ Dispatch \/ Open \/ Loader \/ Viewport
  \/ \E id \in 1..opened : Snapshots(id)

Spec == Init /\ [][Next]_vars

-----------------------------------------------------------------------------
(* Properties. *)

\* No plan of an open leaves the document in a state the code aborts on, whatever was loaded,
\* cleared or failed between its parts.
NeverFatal == ~fatal

\* When all calls have returned, a document that loads has a session of the selected source that
\* somebody will answer, unless it was cut off, and no session is left without its document loading.
LoadingIsServed ==
  stack = <<>> =>
    /\ image.loading = (image.status = "loading")
    /\ session # NoSession => image.loading /\ image.source \in {session.source, session.page}
    /\ image.loading /\ ~lost =>
         /\ session # NoSession
         /\ session.id \in snapshots \/ (unshown = session.id /\ target = session.id)
=============================================================================
