----------------------------- MODULE MCDocument -----------------------------
(***************************************************************************)
(* The parts of a document that share no state, on small instances: the    *)
(* listing of a directory (PageCandidates), the entries of an opened       *)
(* collection (MediaEntrySource), the opening of a source (ImageOpen) and  *)
(* the deletion of the displayed file (ImageDeletion).  A behaviour        *)
(* exercises one of them, its focus; the others rest in their first state. *)
(***************************************************************************)
EXTENDS PageCandidates

CONSTANTS
  Loads, Scopes, NoScope, MaxGeneration,  \* of MediaEntrySource
  Requests, MaxLoads,                     \* of ImageOpen
  MaxDeletions, MaxRequests               \* of ImageDeletion

VARIABLES
  focus,
  sourceAlive, scope, generation, runner, batch, pending, batches, work, tasks, stored,
  stopSource, stopped, reads, outcome, wanted, sourceStack,
  image, prepared, session, snapshots, target, unshown, opens, opened, fatal, lost, openStack,
  deletionAlive, document, deletions, state, published, seen, job, running, fallback,
  requests, asked, deletionStack

Entries == INSTANCE MediaEntrySource WITH alive <- sourceAlive, stack <- sourceStack
Opening == INSTANCE ImageOpen WITH loads <- opens, stack <- openStack
Deletion == INSTANCE ImageDeletion WITH alive <- deletionAlive, stack <- deletionStack

ASSUME EntriesAssumption == Entries!ConstantsAreSound
ASSUME OpeningAssumption == Opening!ConstantsAreSound
ASSUME DeletionAssumption == Deletion!ConstantsAreSound

candidateVars == <<alive, dir, changes, unseen, created, entry, watch, loads, subscribers,
                   erases, plan, shown, changed>>
entryVars == <<sourceAlive, scope, generation, runner, batch, pending, batches, work, tasks,
               stored, stopSource, stopped, reads, outcome, wanted, sourceStack>>
openVars == <<image, prepared, session, snapshots, target, unshown, opens, opened, fatal, lost,
              openStack>>
deletionVars == <<deletionAlive, document, deletions, state, published, seen, job, running,
                  fallback, requests, asked, deletionStack>>
allVars == <<focus, candidateVars, entryVars, openVars, deletionVars>>

MCInit ==
  /\ focus \in {"candidates", "entries", "opening", "deletion"}
  /\ Init /\ Entries!Init /\ Opening!Init /\ Deletion!Init
  /\ focus # "candidates" => dir = Empty

NextCandidates == focus = "candidates" /\ Next
                  /\ UNCHANGED <<focus, entryVars, openVars, deletionVars>>
NextEntries == focus = "entries" /\ Entries!Next
               /\ UNCHANGED <<focus, candidateVars, openVars, deletionVars>>
NextOpening == focus = "opening" /\ Opening!Next
               /\ UNCHANGED <<focus, candidateVars, entryVars, deletionVars>>
NextDeletion == focus = "deletion" /\ Deletion!Next
                /\ UNCHANGED <<focus, candidateVars, entryVars, openVars>>
MCNext == NextCandidates \/ NextEntries \/ NextOpening \/ NextDeletion

\* What is fair in one part is disabled where the part rests.
MCSpec == MCInit /\ [][MCNext]_allVars /\ Fairness /\ Entries!Fairness /\ Deletion!Fairness

EveryTypeOK == TypeOK /\ Entries!TypeOK /\ Opening!TypeOK /\ Deletion!TypeOK

BatchIsWatched == Entries!BatchIsWatched
AnswersAreCurrent == Entries!AnswersAreCurrent
EveryLoadSettles == Entries!EveryLoadSettles
NeverFatal == Opening!NeverFatal
LoadingIsServed == Opening!LoadingIsServed
RestingIsWhole == Deletion!RestingIsWhole
DeletionSettles == Deletion!DeletionSettles
=============================================================================
