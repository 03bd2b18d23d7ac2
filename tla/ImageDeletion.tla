---------------------------- MODULE ImageDeletion ----------------------------
(***************************************************************************)
(* Deleting the displayed file of an image document (app/src/document):    *)
(* ImageDocumentDeletionController, its ImageDocumentDeletionState and the *)
(* ImageDocumentDeletionFallbackController that opens what is shown next.  *)
(* One thread.  Cancelling a job, publishing, clearing the deleted image   *)
(* and opening the fallback all call out, and what they call may delete,   *)
(* cancel or destroy; a provider may answer inside the call that asks it.  *)
(***************************************************************************)
EXTENDS Naturals, Sequences

CONSTANTS
  MaxDeletions,  \* bound: deletions that are started
  MaxRequests    \* bound: candidate lists asked for by fallbacks

ConstantsAreSound == MaxDeletions \in Nat /\ MaxRequests \in Nat

None == 0
Deletions == 1..MaxDeletions
RequestIds == 1..MaxRequests

VARIABLES
  alive,      \* m_callbackLifetime has not been reset
  document,   \* "ready": a file is displayed that can be deleted
  deletions,  \* deletions started so far
  state,      \* ImageDocumentDeletionState: inProgress, active and claimed operation
  published,  \* m_publishedFileDeletionOperationId
  seen,       \* inProgress() as the subscribers read it when they were last told
  job,        \* the deletion of m_fileDeletionJob
  running,    \* deletions whose provider has neither answered nor been cancelled
  fallback,   \* the active operation and request of the fallback controller, and m_job's request
  requests,   \* every request asked for: its operation, and the comic books left to try
  asked,      \* requests that are neither answered nor cancelled
  stack       \* the calls in progress

controller == <<deletions, state, published, seen, job, running>>
fallbackState == <<fallback, requests, asked>>
vars == <<alive, document, controller, fallbackState, stack>>

Idle == [inProgress |-> FALSE, active |-> None, claimed |-> None]
NoFallback == [operation |-> None, request |-> None, job |-> None]
Frames == [at : {"starting", "started", "providing", "clearing", "falling", "asking", "settled",
                 "cancelFile", "cancelFallback"},
           id : Deletions \cup RequestIds \cup {None}, open : BOOLEAN]

TypeOK ==
  /\ alive \in BOOLEAN /\ seen \in BOOLEAN /\ document \in {"ready", "empty"}
  /\ deletions \in 0..MaxDeletions
  /\ state \in [inProgress : BOOLEAN, active : 0..deletions, claimed : 0..deletions]
  /\ {published, job} \subseteq 0..deletions /\ running \subseteq 1..deletions
  /\ requests \in Seq([operation : Deletions, books : 0..2]) /\ Len(requests) <= MaxRequests
  /\ fallback \in [operation : 0..deletions, request : 0..Len(requests), job : 0..Len(requests)]
  /\ asked \subseteq DOMAIN requests
  /\ stack \in Seq(Frames)

Init ==
  /\ alive = TRUE /\ document = "ready" /\ deletions = 0
  /\ state = Idle /\ published = None /\ seen = FALSE /\ job = None /\ running = {}
  /\ fallback = NoFallback /\ requests = <<>> /\ asked = {}
  /\ stack = <<>>

-----------------------------------------------------------------------------
(* Calls.  A frame is a call in progress and where it stands; it is open   *)
(* while it calls somebody who may call the controller.                    *)

Frame(at, id, open) == [at |-> at, id |-> id, open |-> open]
EventLoop == Frame("event loop", None, TRUE)
Top == IF stack = <<>> THEN EventLoop ELSE stack[Len(stack)]
Below == SubSeq(stack, 1, Len(stack) - 1)
At(at) == Top.at = at
Return == stack' = Below
Continue(at, open) == stack' = Append(Below, Frame(at, Top.id, open))

CanCall == alive /\ Top.open

AcceptsFileDeletion(d) == state.active = d
AcceptsUnclaimed(d) == state.active = d  \* a mutation: the deletion was claimed meanwhile
AcceptsClaimedFileDeletion(d) == state.claimed = d

CancelFallback ==  \* ImageDocumentDeletionFallbackController::cancel()
  /\ fallback' = NoFallback
  /\ asked' = asked \ {fallback.job}

PublishSettled(d) ==  \* tells the subscribers, unless a newer deletion has been published
  IF published = d THEN published' = None /\ seen' = state'.inProgress
                   ELSE UNCHANGED <<published, seen>>

-----------------------------------------------------------------------------
(* deleteDisplayedFile(), up to each of its call-outs.                     *)

DeleteDisplayedFile ==
  /\ CanCall /\ document = "ready" /\ ~state.inProgress /\ deletions < MaxDeletions
  /\ deletions' = deletions + 1
  /\ state' = [inProgress |-> TRUE, active |-> deletions + 1, claimed |-> None]
  /\ CancelFallback
  /\ running' = running \ {job}
  /\ stack' = Append(stack, Frame("starting", deletions + 1, fallback.job \in asked))
  /\ UNCHANGED <<alive, document, published, seen, job, requests>>

PublishStarted ==
  /\ At("starting")
  /\ IF alive /\ AcceptsFileDeletion(Top.id)
     THEN /\ published' = Top.id
          /\ seen' = IF published = None THEN TRUE ELSE seen
          /\ Continue("started", published = None)
     ELSE Return /\ UNCHANGED <<published, seen>>
  /\ UNCHANGED <<alive, document, deletions, state, job, running, fallbackState>>

CallProvider ==
  /\ At("started")
  /\ IF alive /\ AcceptsFileDeletion(Top.id)
     THEN running' = running \cup {Top.id} /\ Continue("providing", FALSE)
     ELSE running' = running /\ Return
  /\ UNCHANGED <<alive, document, deletions, state, published, seen, job, fallbackState>>

KeepJob ==  \* the provider returned
  /\ At("providing")
  /\ IF alive /\ AcceptsFileDeletion(Top.id)
     THEN job' = Top.id /\ running' = running
     ELSE job' = job /\ running' = running \ {Top.id}
  /\ Return
  /\ UNCHANGED <<alive, document, deletions, state, published, seen, fallbackState>>

-----------------------------------------------------------------------------
(* The provider answers, from the event loop or inside the call above.     *)

Answering(d) ==
  /\ d \in running
  /\ Top \in {EventLoop, Frame("providing", d, FALSE)}
  /\ running' = running \ {d}
  /\ AcceptsFileDeletion(d)

FileDeleted(d) ==  \* claim, and report the plan that clears the deleted image
  /\ Answering(d)
  /\ state' = [state EXCEPT !.active = None, !.claimed = d]
  /\ document' = "empty"
  /\ stack' = Append(stack, Frame("clearing", d, TRUE))
  /\ UNCHANGED <<alive, deletions, published, seen, job, fallbackState>>

FileKept(d) ==  \* the deletion failed or was cancelled by the user
  /\ Answering(d)
  /\ state' = Idle
  /\ PublishSettled(d)
  /\ stack' = Append(stack, Frame("settled", d, published = d))
  /\ UNCHANGED <<alive, document, deletions, job, fallbackState>>

\* beginJobRequest() and the call of the repository, which may answer inside
Ask(operation, books) ==
  /\ Len(requests) < MaxRequests
  /\ requests' = Append(requests, [operation |-> operation, books |-> books])
  /\ fallback' = [operation |-> operation, request |-> Len(requests) + 1, job |-> None]

OpenFallback ==  \* the deleted image is cleared; an image, or a comic book, is to be opened
  /\ At("clearing")
  /\ alive /\ AcceptsClaimedFileDeletion(Top.id)
  /\ \E books \in {0, 2} : Ask(Top.id, books)
  /\ asked' = (asked \ {fallback.job}) \cup {Len(requests) + 1}
  /\ stack' = Append(Append(Below, Frame("falling", Top.id, FALSE)),
                      Frame("asking", Len(requests) + 1, FALSE))
  /\ UNCHANGED <<alive, document, controller>>

OpenNoFallback ==
  /\ At("clearing")
  /\ IF alive /\ AcceptsClaimedFileDeletion(Top.id)
     THEN CancelFallback /\ Continue("falling", FALSE)
     ELSE UNCHANGED <<fallback, asked>> /\ Return
  /\ UNCHANGED <<alive, document, controller, requests>>

Settle ==  \* the fallback is under way
  /\ At("falling")
  /\ IF alive /\ AcceptsClaimedFileDeletion(Top.id)
     THEN state' = Idle /\ PublishSettled(Top.id) /\ Continue("settled", published = Top.id)
     ELSE UNCHANGED <<state, published, seen>> /\ Return
  /\ UNCHANGED <<alive, document, deletions, job, running, fallbackState>>

-----------------------------------------------------------------------------
(* cancel(), which every load of another source calls first.               *)

StartCancelling ==
  /\ state' = Idle
  /\ running' = running \ {job}
  /\ stack' = Append(stack, Frame("cancelFile", IF state.inProgress THEN published ELSE None,
                                   job \in running))

CancelDeletion ==
  /\ CanCall
  /\ state.inProgress \/ fallback # NoFallback
  /\ StartCancelling
  /\ UNCHANGED <<alive, document, deletions, published, seen, job, fallbackState>>

CancelFileReturns ==
  /\ At("cancelFile")
  /\ IF alive THEN CancelFallback /\ Continue("cancelFallback", fallback.job \in asked)
              ELSE UNCHANGED <<fallback, asked>> /\ Return
  /\ UNCHANGED <<alive, document, controller, requests>>

CancelFallbackReturns ==
  /\ At("cancelFallback")
  /\ state' = state
  /\ IF alive /\ Top.id # None /\ published = Top.id
     THEN PublishSettled(Top.id) /\ Continue("settled", TRUE)
     ELSE UNCHANGED <<published, seen>> /\ Return
  /\ UNCHANGED <<alive, document, deletions, job, running, fallbackState>>

SettledReturns ==
  /\ At("settled")
  /\ Return
  /\ UNCHANGED <<alive, document, controller, fallbackState>>

ShowImage ==  \* a load, which cancelled the deletion first, displays its file
  /\ CanCall /\ document = "empty" /\ ~state.inProgress
  /\ document' = "ready"
  /\ UNCHANGED <<alive, controller, fallbackState, stack>>

Destroy ==
  /\ CanCall
  /\ alive' = FALSE
  /\ state' = Idle /\ published' = None
  /\ CancelFallback
  /\ running' = running \ {job}
  /\ UNCHANGED <<document, deletions, seen, job, requests, stack>>

-----------------------------------------------------------------------------
(* The fallback's candidates arrive, from the event loop or inside Ask.    *)

ClaimJobRequest(r) ==
  /\ r \in asked
  /\ Top \in {EventLoop, Frame("asking", r, FALSE)}
  /\ fallback.operation = requests[r].operation /\ fallback.request = r

FallbackFound(r) ==  \* the load it reports cancels the deletion before it loads
  /\ ClaimJobRequest(r) /\ requests[r].books # 2
  /\ fallback' = NoFallback
  /\ asked' = asked \ {r}
  /\ StartCancelling
  /\ UNCHANGED <<alive, document, deletions, published, seen, job, requests>>

TryBook(r) ==  \* the books are listed, or the preferred one cannot be opened
  /\ ClaimJobRequest(r) /\ requests[r].books > 0
  /\ \E left \in 0..(requests[r].books - 1) : Ask(requests[r].operation, left)
  /\ asked' = (asked \ {r}) \cup {Len(requests) + 1}
  /\ stack' = Append(stack, Frame("asking", Len(requests) + 1, FALSE))
  /\ UNCHANGED <<alive, document, controller>>

NothingFound(r) ==
  /\ ClaimJobRequest(r)
  /\ fallback' = [fallback EXCEPT !.operation = None, !.request = None]
  /\ asked' = asked \ {r}
  /\ UNCHANGED <<alive, document, controller, requests, stack>>

RetainAlways(r) == TRUE  \* a mutation: the job is kept without comparing the request

RetainIfCurrent(r) == fallback.operation = requests[r].operation /\ fallback.request = r

AskReturns ==  \* storing a job cancels the one stored before
  /\ At("asking")
  /\ IF RetainIfCurrent(Top.id)
     THEN /\ fallback' = [fallback EXCEPT !.job = Top.id]
          /\ asked' = asked \ ({fallback.job} \ {Top.id})
     ELSE fallback' = fallback /\ asked' = asked \ {Top.id}
  /\ Return
  /\ UNCHANGED <<alive, document, controller, requests>>

-----------------------------------------------------------------------------

DeletionContinues == PublishStarted \/ CallProvider \/ KeepJob \/ Settle
FallbackContinues == OpenFallback \/ OpenNoFallback \/ CancelFileReturns \/ CancelFallbackReturns
                     \/ SettledReturns \/ AskReturns
ProviderAnswers(d) == FileDeleted(d) \/ FileKept(d)
CandidatesArrive(r) == FallbackFound(r) \/ TryBook(r) \/ NothingFound(r)

Next ==
  \/ DeleteDisplayedFile \/ CancelDeletion \/ ShowImage \/ Destroy
  \/ DeletionContinues \/ FallbackContinues
  \/ \E d \in Deletions : ProviderAnswers(d)
  \/ \E r \in DOMAIN requests : CandidatesArrive(r)

\* Call-outs return, and providers answer what they were asked.
Fairness ==
  /\ WF_vars(DeletionContinues \/ FallbackContinues)
  /\ \A d \in Deletions : WF_vars(ProviderAnswers(d))

Spec == Init /\ [][Next]_vars /\ Fairness

-----------------------------------------------------------------------------
(* Properties. *)

\* When all calls have returned, the subscribers were last told what is true: a deletion is in
\* progress exactly if one is published, and then its provider is still at work and can be
\* cancelled; and a fallback under way has its request asked for and its job kept.
RestingIsWhole ==
  alive /\ stack = <<>> =>
    /\ state.inProgress = (published # None) /\ seen = state.inProgress
    /\ state.inProgress => /\ published = state.active /\ job = state.active
                           /\ job \in running
    /\ fallback.operation # None => /\ fallback.request \in asked
                                    /\ fallback.job = fallback.request
    /\ asked \subseteq {fallback.job}

\* Every deletion is settled: the document does not stay busy.
DeletionSettles == state.inProgress ~> ~state.inProgress
=============================================================================
