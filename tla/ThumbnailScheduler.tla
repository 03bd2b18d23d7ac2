-------------------------- MODULE ThumbnailScheduler --------------------------
(***************************************************************************)
(* Which rows of the thumbnail strip get a preview, and when:              *)
(* ActiveNavigationThumbnailScheduler as operators on a record of its      *)
(* members.  Every operation only decides; what it decided is left, in     *)
(* order, in the field `effects`, which the work coordinator applies       *)
(* (ThumbnailWork).  Effects on the shown status of a row are left out.    *)
(***************************************************************************)
EXTENDS Integers, Sequences, FiniteSets

CONSTANTS
  LastRow,      \* the number of rows of the strip
  LastBucket,   \* the number of quality buckets (the code has four)
  Supported,    \* the rows whose source adapter plans a generated thumbnail
  Capacity,     \* m_foregroundCapacity
  ScanBudget,   \* BackgroundScanBudget
  None          \* an empty std::optional

ASSUME RowsAssumption == LastRow \in Nat \ {0} /\ LastBucket \in Nat \ {0}
ASSUME SupportedAssumption == Supported \subseteq 1 .. LastRow
ASSUME CapacityAssumption == Capacity \in Nat \ {0} /\ ScanBudget \in Nat \ {0}

Rows == 1 .. LastRow
Buckets == 1 .. LastBucket
Priorities == {"visible", "nearby"}
Tiers == {"current", "visible", "nearby", "background"}

Demands == [bucket : Buckets, priority : Priorities]
Claims == [id : Nat \ {0}, row : Rows, generation : Nat, bucket : Buckets, tier : Tiers]

Effects ==
  [kind : {"cancel"}, id : Nat] \cup [kind : {"start"}, work : Claims]
    \cup [kind : {"continue"}, epoch : Nat]
    \cup [kind : {"accept"}, row : Rows, tier : Tiers, result : {"ready", "failed"}]
    \cup [kind : {"rows"}, generation : Nat, current : Rows \cup {0}]  \* of ThumbnailWork

ASSUME NoneAssumption == None \notin Rows \cup Demands \cup Claims

Candidates == LastRow * LastBucket

SchedulerStates ==
  [generation : Nat,                     \* m_navigationGeneration; 0: there are no rows
   current : Rows \cup {0},              \* m_currentNumber; 0: none of the rows
   demand : [Rows -> Demands \cup {None}],  \* acceptedDemand of each row
   reported : SUBSET Rows,               \* demandSnapshotEpoch is that of the last snapshot
   work : [Rows -> Claims \cup {None}],  \* activeWork
   done : [Rows -> Buckets \cup {0}],    \* completedDemandBucket; 0: none
   filled : SUBSET (Rows \X Buckets),    \* completedBackgroundBuckets
   blocked : SUBSET Rows,                \* residencyBlocked
   high : SUBSET Rows,                   \* m_highDemandRows
   nearby : SUBSET Rows,                 \* m_nearbyDemandRows
   activeNearby : SUBSET Rows,           \* m_activeNearbyRows
   activeBackground : Rows \cup {None},  \* m_activeBackgroundRow
   armed : BOOLEAN,                      \* m_backgroundArmed
   cursor : 0 .. Candidates - 1,         \* m_backgroundCursor
   remaining : 0 .. Candidates,          \* m_backgroundRemaining
   outstanding : BOOLEAN,                \* m_continuationOutstanding
   retiring : SUBSET Claims,             \* m_retiringWork
   effects : Seq(Effects)]               \* what was decided and is still to be applied

NewRows(generation, retiring) ==  \* invalidate and reset: only retiring work survives
  [generation |-> generation, current |-> 0, demand |-> [r \in Rows |-> None], reported |-> {},
   work |-> [r \in Rows |-> None], done |-> [r \in Rows |-> 0], filled |-> {}, blocked |-> {},
   high |-> {}, nearby |-> {}, activeNearby |-> {}, activeBackground |-> None,
   armed |-> FALSE, cursor |-> 0, remaining |-> 0, outstanding |-> FALSE,
   retiring |-> retiring, effects |-> <<>>]

ForEach(op(_, _), s, S) ==  \* for the rows of S, in ascending order
  LET upTo[r \in 0 .. LastRow] ==
        IF r = 0 THEN s ELSE IF r \in S THEN op(upTo[r - 1], r) ELSE upTo[r - 1]
  IN upTo[LastRow]

-----------------------------------------------------------------------------
(* Tiers and the row sets that are kept for them. *)

IsForeground(claim) == claim # None /\ claim.tier # "background"

TierFor(s, r, demand) == IF r = s.current THEN "current" ELSE demand.priority

Speculative(tier) == tier \in {"nearby", "background"}  \* workspacePriority

DemandComplete(s, r) == s.demand[r] # None /\ s.done[r] >= s.demand[r].bucket

RefreshDemandTier(s, r) ==
  LET waits == s.demand[r] # None /\ r \notin s.blocked /\ ~DemandComplete(s, r)
      isHigh == waits /\ TierFor(s, r, s.demand[r]) \in {"current", "visible"}
  IN [s EXCEPT !.high = (@ \ {r}) \cup {x \in {r} : isHigh},
               !.nearby = (@ \ {r}) \cup {x \in {r} : waits /\ ~isHigh}]

CancelRow(s, r) ==
  LET claim == s.work[r] IN
  IF claim = None THEN s
  ELSE [s EXCEPT
    !.effects = Append(@, [kind |-> "cancel", id |-> claim.id]),
    !.activeNearby = IF claim.tier = "nearby" THEN @ \ {r} ELSE @,
    !.activeBackground = IF claim.tier = "background" THEN None ELSE @,
    !.work[r] = None,
    !.retiring = @ \cup {claim}]

ReclassifyWork(s, r) ==  \* a mutation: the row stays in the demand set of its old tier
  LET tier == TierFor(s, r, s.demand[r]) IN
  IF s.demand[r] = None \/ ~IsForeground(s.work[r]) THEN s
  ELSE IF Speculative(s.work[r].tier) # Speculative(tier) THEN CancelRow(s, r)
       ELSE [s EXCEPT !.work[r].tier = tier]

Reclassify(s, r) ==  \* reclassifyCurrentRow
  IF s.demand[r] = None THEN s
  ELSE LET tier == TierFor(s, r, s.demand[r])
           moved == CASE ~IsForeground(s.work[r]) -> s
                      [] IsForeground(s.work[r])
                           /\ Speculative(s.work[r].tier) # Speculative(tier) -> CancelRow(s, r)
                      [] OTHER -> [s EXCEPT
                           !.work[r].tier = tier,
                           !.activeNearby = IF tier = "nearby" THEN @ \cup {r} ELSE @ \ {r}]
       IN RefreshDemandTier(moved, r)

ExpireDemand(s, r) ==
  IF s.demand[r] = None THEN s
  ELSE RefreshDemandTier(
         [CancelRow(s, r) EXCEPT !.demand[r] = None, !.done[r] = 0, !.blocked = @ \ {r},
                                 !.reported = @ \ {r}], r)

ReleaseBlock(s, r) ==  \* releaseResidencyBlock
  IF r \notin s.blocked THEN s ELSE RefreshDemandTier([s EXCEPT !.blocked = @ \ {r}], r)

-----------------------------------------------------------------------------
(* Admission. *)

ChargeActive(s) ==  \* a mutation: canceled work that still runs is not counted
  Cardinality({r \in Rows : IsForeground(s.work[r])})

Charge(s) ==  \* activeForegroundCount
  Cardinality(s.retiring) + Cardinality({r \in Rows : IsForeground(s.work[r])})

RetiringFor(s, r) == \E c \in s.retiring : c.row = r /\ c.generation = s.generation

FreshIds(s) ==  \* an id no claim uses; which one does not matter
  (1 .. Cardinality(s.retiring) + LastRow + 1) \
    ({c.id : c \in s.retiring} \cup {s.work[r].id : r \in {x \in Rows : s.work[x] # None}})

Start(s, r, tier, bucket) ==
  LET id == CHOOSE i \in FreshIds(s) : \A j \in FreshIds(s) : i <= j
      claim == [id |-> id, row |-> r, generation |-> s.generation, bucket |-> bucket,
                tier |-> tier]
  IN [s EXCEPT
       !.work[r] = claim,
       !.activeNearby = IF tier = "nearby" THEN @ \cup {r} ELSE @,
       !.activeBackground = IF tier = "background" THEN r ELSE @,
       !.effects = Append(@, [kind |-> "start", work |-> claim])]

Startable(s, r) ==
  s.work[r] = None /\ s.demand[r] # None /\ r \in Supported /\ ~RetiringFor(s, r)

StartForeground(s, r) == Start(s, r, TierFor(s, r, s.demand[r]), s.demand[r].bucket)

StartWhileFree(s, S) ==
  ForEach(LAMBDA t, r : IF Charge(t) < Capacity /\ Startable(t, r) THEN StartForeground(t, r)
                                                                   ELSE t, s, S)

CancelBackground(s) == IF s.activeBackground = None THEN s ELSE CancelRow(s, s.activeBackground)

(* The current row displaces the last visible row that works when no place is free. *)
AdmitCurrent(s) ==
  LET displaceable == {r \in s.high \ {s.current} :
                         s.work[r] # None /\ s.work[r].tier = "visible"}
      last == CHOOSE r \in displaceable : \A x \in displaceable : x <= r
  IN CASE s.current \notin s.high \/ ~Startable(s, s.current) -> s
       [] s.current \in s.high /\ Startable(s, s.current) /\ Charge(s) < Capacity ->
            StartForeground(s, s.current)
       [] OTHER -> IF displaceable = {} THEN s ELSE CancelRow(s, last)

AdmitHigh(s) ==
  LET alone == AdmitCurrent(CancelBackground(ForEach(CancelRow, s, s.activeNearby)))
  IN StartWhileFree(alone, alone.high \ {alone.current})

CandidateBeyond(s, k) == s.cursor + k  \* a mutation: the cursor does not wrap

CandidateAt(s, k) == (s.cursor + k) % Candidates

CandidateRow(c) == (c % LastRow) + 1

CandidateBucket(c) == (c \div LastRow) + 1

BackgroundWanted(s, c) ==
  LET r == CandidateRow(c) IN
  /\ r \in Supported \ s.blocked
  /\ s.demand[r] = None \/ s.demand[r].bucket < CandidateBucket(c)
  /\ <<r, CandidateBucket(c)>> \notin s.filled
  /\ ~RetiringFor(s, r)

Passed(s, n) ==
  [s EXCEPT !.cursor = CandidateAt(s, n), !.remaining = @ - n]

AdmitBackground(s) ==  \* the next wanted candidate of the sweep, or a continuation of it
  LET reach == IF s.remaining < ScanBudget THEN s.remaining ELSE ScanBudget
      wanted == {k \in 0 .. reach - 1 : BackgroundWanted(s, CandidateAt(s, k))}
      first == CHOOSE k \in wanted : \A j \in wanted : k <= j
      found == CandidateAt(s, first)
      swept == Passed(s, reach)
  IN CASE wanted # {} ->
            Start(Passed(s, first + 1), CandidateRow(found), "background",
                  CandidateBucket(found))
       [] wanted = {} /\ swept.remaining = 0 -> [swept EXCEPT !.armed = FALSE]
       [] wanted = {} /\ swept.remaining > 0 /\ s.outstanding -> swept
       [] OTHER -> [swept EXCEPT !.outstanding = TRUE,
                      !.effects = Append(@, [kind |-> "continue", epoch |-> s.generation])]

AdmitBesideBackground(s) ==  \* a mutation: background work does not yield to nearby rows
  CASE s.high # {} -> AdmitHigh(s)
    [] s.high = {} /\ s.nearby # {} -> StartWhileFree(s, s.nearby)
    [] s.high \cup s.nearby = {} ->
         IF s.armed /\ s.activeBackground = None /\ Charge(s) = 0 THEN AdmitBackground(s) ELSE s

Admit(s) ==
  CASE s.high # {} -> AdmitHigh(s)
    [] s.high = {} /\ s.nearby # {} -> StartWhileFree(CancelBackground(s), s.nearby)
    [] s.high \cup s.nearby = {} ->
         IF s.armed /\ s.activeBackground = None /\ Charge(s) = 0 THEN AdmitBackground(s) ELSE s

ArmSweep(s) ==
  [s EXCEPT !.armed = s.generation # 0, !.remaining = IF s.generation # 0 THEN Candidates ELSE 0]

-----------------------------------------------------------------------------
(* The operations. *)

Invalidate(s) ==  \* until the reset there are no rows
  LET canceled == ForEach(CancelRow, s, Rows)
  IN [NewRows(0, canceled.retiring) EXCEPT !.effects = canceled.effects]

SetCurrentNumber(s, r) ==
  LET left == s.current
      moved == [s EXCEPT !.current = r]
      expires == left \notin {0, r} /\ s.demand[left] # None /\ left \notin s.reported
      behind == CASE left \in {0, r} -> moved
                  [] OTHER -> IF expires THEN ExpireDemand(moved, left)
                                         ELSE Reclassify(moved, left)
  IN Admit(IF r \in {0, left} THEN behind ELSE Reclassify(ReleaseBlock(behind, r), r))

AcceptDemand(s, r, demand) ==  \* one row of a snapshot
  LET old == s.demand[r]
      replaced == [CancelRow(s, r) EXCEPT
                     !.demand[r] = demand, !.blocked = @ \ {r},
                     !.done[r] = IF r \in Supported THEN 0 ELSE demand.bucket]
      reprioritised == [s EXCEPT
                     !.demand[r] = demand,
                     !.work[r] = IF @ = None THEN @ ELSE [@ EXCEPT !.bucket = demand.bucket]]
  IN CASE old = demand -> RefreshDemandTier(s, r)
       [] old # None /\ old # demand /\ old.bucket = demand.bucket ->
            Reclassify(ReleaseBlock(reprioritised, r), r)
       [] OTHER -> RefreshDemandTier(replaced, r)

ReplaceDemand(s, demands) ==  \* replaceDemandSnapshot of a valid snapshot
  LET facts == {r \in Rows : demands[r] # None}
      missing == {r \in Rows \ facts : s.demand[r] # None} \ {s.current}
      accepted == ForEach(LAMBDA t, r : AcceptDemand(t, r, demands[r]),
                          [s EXCEPT !.reported = facts], facts)
  IN Admit(ArmSweep(ForEach(ExpireDemand, accepted, missing)))

RefreshRow(s, r) ==  \* refreshRows: the URL of one row changed
  IF s.demand[r] # None /\ r \in s.blocked THEN Admit(ReleaseBlock(s, r)) ELSE s

LoseOne(s, r) ==  \* invalidateImageBackedCompletion
  IF s.demand[r] = None \/ s.done[r] = 0 \/ r \notin Supported THEN s
  ELSE RefreshDemandTier([CancelRow(s, r) EXCEPT !.done[r] = 0, !.blocked = @ \cup {r}], r)

LoseResidency(s, losses) == ForEach(LoseOne, s, losses)

Readmit(s) == Admit(ForEach(ReleaseBlock, s, Rows))  \* an admission opportunity

AcceptsCompletion(s, c) ==
  /\ c.generation = s.generation
  /\ s.work[c.row] # None
  /\ s.work[c.row].id = c.id
  /\ s.work[c.row].bucket = c.bucket

AcceptCompletion(s, c, result) ==
  LET tier == s.work[c.row].tier
      published == [kind |-> "accept", row |-> c.row, tier |-> tier, result |-> result]
      released == [s EXCEPT
                     !.work[c.row] = None,
                     !.activeNearby = IF tier = "nearby" THEN @ \ {c.row} ELSE @,
                     !.activeBackground = IF tier = "background" THEN None ELSE @,
                     !.blocked = @ \ {c.row},
                     !.effects = Append(@, published)]
      swept == [released EXCEPT !.filled = @ \cup {<<c.row, c.bucket>>}, !.outstanding = TRUE]
  IN CASE ~AcceptsCompletion(s, c) -> s
       [] AcceptsCompletion(s, c) /\ tier # "background" ->
            Admit(RefreshDemandTier([released EXCEPT !.done[c.row] = c.bucket], c.row))
       [] OTHER -> IF s.outstanding THEN swept
                   ELSE [swept EXCEPT !.effects =
                           Append(@, [kind |-> "continue", epoch |-> s.generation])]

RetireSilently(s, id) ==  \* a mutation: the freed place is not given to anyone
  [s EXCEPT !.retiring = {c \in @ : c.id # id}]

AcceptRetirement(s, id) ==
  LET gone == {c \in s.retiring : c.id = id}
  IN IF gone = {} THEN s ELSE Admit(ArmSweep([s EXCEPT !.retiring = @ \ gone]))

ContinueAdmission(s, epoch) ==
  IF epoch = s.generation /\ s.outstanding THEN Admit([s EXCEPT !.outstanding = FALSE]) ELSE s
=============================================================================
