-------------------------- MODULE ThumbnailWorkProofs --------------------------
(***************************************************************************)
(* Proofs about the thumbnail strip at work: the typing of its state, the  *)
(* row sets the scheduler keeps by hand, the bound on the work admitted    *)
(* and the order of the tiers, for any number of rows, qualities and       *)
(* places.  An operation of the scheduler is a chain of small steps over   *)
(* the rows; Kept is what each of them preserves.  It relates the state    *)
(* reached to the one the operation began with, so that what it decided    *)
(* can be put before the effects that were still to be applied.            *)
(***************************************************************************)
EXTENDS ThumbnailWork, WellFoundedInduction, FiniteSetTheorems, SequenceTheorems, TLAPS

-----------------------------------------------------------------------------
(* The scheduler's own invariant. *)

Working(s) == {r \in Rows : s.work[r] # None}

Ledger(s) == s.retiring \cup {s.work[r] : r \in Working(s)}

SameWork(c, d) == c.id = d.id /\ c.row = d.row /\ c.generation = d.generation

Holds(s, c) == \E d \in Ledger(s) : SameWork(c, d)

Places(s) == Cardinality(s.retiring) + Cardinality(Working(s))

LedgerSound(s) ==  \* within the capacity, one claim for an id and one for a row's source
  /\ IsFiniteSet(s.retiring)
  /\ Places(s) <= Capacity
  /\ \A r \in Working(s) :
       s.work[r].row = r /\ s.work[r].generation = s.generation /\ s.work[r] \notin s.retiring
  /\ \A c, d \in Ledger(s) : c # d => c.id # d.id /\ (c.row # d.row \/ c.generation # d.generation)
  /\ s.generation # 0 => \A c \in s.retiring : c.generation <= s.generation

ActiveListed(s) ==
  /\ \A r \in Rows : r \in s.activeNearby <=> s.work[r] # None /\ s.work[r].tier = "nearby"
  /\ \A r \in Rows : r = s.activeBackground <=> s.work[r] # None /\ s.work[r].tier = "background"

Waits(s, r) == s.demand[r] # None /\ r \notin s.blocked /\ ~DemandComplete(s, r)

IsHigh(s, r) == TierFor(s, r, s.demand[r]) \in {"current", "visible"}

RowListed(s, r) ==
  /\ r \in s.high <=> Waits(s, r) /\ IsHigh(s, r)
  /\ r \in s.nearby <=> Waits(s, r) /\ ~IsHigh(s, r)

RowStale(s, r) == r \in s.high \cup s.nearby <=> Waits(s, r)  \* perhaps of the wrong tier

RowSound(s, r) ==
  /\ s.work[r] # None => r \notin s.blocked
  /\ IsForeground(s.work[r]) => s.demand[r] # None /\ s.work[r].bucket = s.demand[r].bucket
  /\ s.done[r] # 0 => DemandComplete(s, r)
  /\ s.demand[r] # None /\ r \notin Supported => DemandComplete(s, r)
  /\ s.generation = 0 => s.demand[r] = None /\ s.work[r] = None

RowsSound(s) ==
  /\ \A r \in Rows : RowSound(s, r) /\ RowListed(s, r)
  /\ s.generation = 0 => ~s.armed

Cause(s, r) == s.work[r] = None => Charge(s) >= Capacity \/ RetiringFor(s, r)

Prompt(s) ==  \* as ForegroundFirst, between calls or not
  /\ s.high # {} => s.activeNearby = {} /\ s.activeBackground = None
  /\ s.nearby # {} => s.activeBackground = None
  /\ \A r \in s.high : Cause(s, r)
  /\ s.high = {} => \A r \in s.nearby : Cause(s, r)

Rested(s) == LedgerSound(s) /\ ActiveListed(s) /\ RowsSound(s) /\ Prompt(s)

(* What the operation that began in b has decided when s is reached: the     *)
(* work b holds is kept, work is started under new ids, and work that did    *)
(* not retire before is canceled, all of it once.                            *)
Starts(s, i) == i \in DOMAIN s.effects /\ s.effects[i].kind = "start"
Cancels(s, i) == i \in DOMAIN s.effects /\ s.effects[i].kind = "cancel"

Decided(b, s) ==
  /\ s.generation = b.generation
  /\ b.retiring \subseteq s.retiring
  /\ \A c \in s.retiring : c \in b.retiring \/ c.generation = s.generation
  /\ \A c \in Ledger(b) : Holds(s, c)
  /\ \A i \in DOMAIN s.effects : s.effects[i].kind # "rows"
  /\ \A i : Starts(s, i) =>
       Holds(s, s.effects[i].work) /\ \A c \in Ledger(b) : c.id # s.effects[i].work.id
  /\ \A i : Cancels(s, i) =>
       /\ \E c \in s.retiring : c.id = s.effects[i].id
       /\ \A c \in b.retiring : c.id # s.effects[i].id
  /\ \A i, j : Starts(s, i) /\ Starts(s, j) /\ i # j => s.effects[i].work.id # s.effects[j].work.id
  /\ \A i, j : Cancels(s, i) /\ Cancels(s, j) /\ i # j => s.effects[i].id # s.effects[j].id

Core(b, s) == s \in SchedulerStates /\ LedgerSound(s) /\ ActiveListed(s) /\ Decided(b, s)

Kept(b, s) == Core(b, s) /\ RowsSound(s)

KeptBut(b, s, S) ==  \* the rows of S are still to be listed anew
  /\ Core(b, s)
  /\ \A r \in Rows : RowSound(s, r) /\ RowStale(s, r) /\ (r \notin S => RowListed(s, r))
  /\ s.generation = 0 => ~s.armed

-----------------------------------------------------------------------------
(* The inductive invariant: the jobs and the effects still to be applied     *)
(* are about the work of the ledger.                                         *)

RecordsAgree(s, recs) ==
  /\ \A rec \in recs : Holds(s, rec.claim)
  /\ \A x, y \in recs : x # y => x.claim.id # y.claim.id
  /\ \A rec \in recs : rec.canceled => \E c \in s.retiring : c.id = rec.claim.id

StartsAgree(s, recs, effs) ==
  /\ \A i \in DOMAIN effs : effs[i].kind = "start" =>
       Holds(s, effs[i].work) /\ \A rec \in recs : rec.claim.id # effs[i].work.id
  /\ \A i, j \in DOMAIN effs : effs[i].kind = "start" /\ effs[j].kind = "start" /\ i # j =>
       effs[i].work.id # effs[j].work.id

CancelsAgree(s, recs, effs) ==
  /\ \A i \in DOMAIN effs : effs[i].kind = "cancel" =>
       /\ \E c \in s.retiring : c.id = effs[i].id
       /\ \A rec \in recs : rec.claim.id = effs[i].id => ~rec.canceled
  /\ \A i, j \in DOMAIN effs : effs[i].kind = "cancel" /\ effs[j].kind = "cancel" /\ i # j =>
       effs[i].id # effs[j].id

RowsAgree(s, effs) ==
  /\ s.generation = 0 => effs # <<>> /\ effs[Len(effs)].kind = "rows"
  /\ \A i \in DOMAIN effs : effs[i].kind = "rows" =>
       /\ i = Len(effs)
       /\ s.generation = 0
       /\ effs[i].generation > 0
       /\ \A c \in s.retiring : c.generation < effs[i].generation

Agree(s, recs, effs) ==
  RecordsAgree(s, recs) /\ StartsAgree(s, recs, effs) /\ CancelsAgree(s, recs, effs)
    /\ RowsAgree(s, effs)

IInv ==
  /\ TypeOK
  /\ Rested(scheduler)
  /\ Agree(scheduler, records, effects)

-----------------------------------------------------------------------------
(* The loop over the rows.                                                 *)

LEMMA Least == ASSUME NEW T \in SUBSET Nat, T # {} PROVE \E m \in T : \A k \in T : m <= k
<1> DEFINE Less == {p \in Nat \X Nat : p[1] < p[2]}
<1>1. OpToRel(<, Nat) = Less
  BY Zenon DEF OpToRel
<1>2. IsWellFoundedOn(Less, Nat)
  BY <1>1, NatLessThanWellFounded, Zenon
<1>3. \A k, m \in Nat : k < m => <<k, m>> \in Less
  OBVIOUS
<1> HIDE DEF Less
<1>4. PICK m \in T : \A k \in T : ~ (<<k, m>> \in Less)
  BY <1>2, WFMin, Zenon
<1>5. ASSUME NEW k \in T PROVE m <= k
  <2>1. k \in Nat /\ m \in Nat
    OBVIOUS
  <2>2. ~ (k < m)
    BY <1>3, <1>4, <2>1, Zenon
  <2> QED
    BY <2>1, <2>2
<1> QED
  BY <1>5

LEMMA RowsAre == /\ LastRow \in Nat /\ LastRow >= 1 /\ LastBucket \in Nat /\ LastBucket >= 1
                 /\ Rows \in SUBSET Nat /\ None \notin Rows /\ 0 \notin Rows
                 /\ \A n \in 0 .. LastRow : n # 0 => n \in Rows /\ n - 1 \in 0 .. LastRow
                 /\ \A r \in Rows : r - 1 \in 0 .. LastRow /\ r \in 0 .. LastRow /\ r # 0
                                     /\ ~ (r <= r - 1)
BY RowsAssumption, NoneAssumption DEF Rows

\* The table that ForEach builds, if G is the operation and X what it preserves.
Builds(u, G, s, S) ==
  /\ u[0] = s
  /\ \A r \in Rows : u[r] = IF r \in S THEN G[<<u[r - 1], r>>] ELSE u[r - 1]

LEMMA LoopExists ==
  ASSUME NEW X, NEW G \in [X \X Rows -> X], NEW s \in X, NEW S
  PROVE  \E u \in [0 .. LastRow -> X] : Builds(u, G, s, S)
<1> DEFINE Step(x, r) == IF r \in S THEN G[<<x, r>>] ELSE x
           Part(n, u) == /\ u \in [0 .. n -> X]
                         /\ u[0] = s
                         /\ \A r \in 1 .. n : u[r] = Step(u[r - 1], r)
           Bad == {n \in 0 .. LastRow : ~ \E u : Part(n, u)}
<1>b. \A x \in X, r \in Rows : Step(x, r) \in X
  OBVIOUS
<1> HIDE DEF Step
<1>1. Bad = {}
  <2> SUFFICES ASSUME Bad # {} PROVE FALSE
    OBVIOUS
  <2>0. Bad \in SUBSET Nat
    BY RowsAre
  <2> HIDE DEF Bad
  <2>1. PICK m \in Bad : \A k \in Bad : m <= k
    BY <2>0, Least
  <2> USE DEF Bad
  <2>2. Part(0, [k \in 0 .. 0 |-> s])
    OBVIOUS
  <2> HIDE DEF Part
  <2>3. m # 0 /\ m \in 0 .. LastRow
    BY <2>1, <2>2
  <2>4. m - 1 \in 0 .. LastRow /\ m \in Rows /\ m - 1 \notin Bad /\ m \in Nat
    <3>1. m - 1 \in 0 .. LastRow /\ m \in Rows /\ ~ (m <= m - 1) /\ m \in Nat
      BY <2>3, RowsAre
    <3> HIDE DEF Bad
    <3> QED
      BY <2>1, <3>1
  <2>5. PICK u : Part(m - 1, u)
    BY <2>4
  <2> USE DEF Part
  <2> DEFINE h == [k \in 0 .. m |-> IF k = m THEN Step(u[m - 1], m) ELSE u[k]]
  <2>6. \A k \in 0 .. m - 1 : h[k] = u[k] /\ u[k] \in X
    BY <2>3, <2>4, <2>5
  <2>7. h[m] = Step(u[m - 1], m) /\ h[m] \in X
    <3>1. m - 1 \in 0 .. m - 1 /\ m \in 0 .. m
      BY <2>3, <2>4
    <3>2. u[m - 1] \in X
      BY <2>5, <3>1
    <3> QED
      BY <1>b, <2>4, <3>1, <3>2
  <2>8. h \in [0 .. m -> X]
    <3>1. \A k \in 0 .. m : k = m \/ k \in 0 .. m - 1
      BY <2>4
    <3>2. \A k \in 0 .. m : h[k] \in X
      BY <2>6, <2>7, <3>1
    <3> QED
      BY <3>2
  <2>9. h[0] = s
    <3>1. 0 \in 0 .. m - 1
      BY <2>3, <2>4
    <3> QED
      BY <2>5, <2>6, <3>1
  <2>10. \A k \in 1 .. m : h[k] = Step(h[k - 1], k)
    <3> TAKE k \in 1 .. m
    <3>0. k - 1 \in 0 .. m - 1 /\ (k = m \/ (k \in 0 .. m - 1 /\ k \in 1 .. m - 1))
      BY <2>4
    <3>1. CASE k = m
      BY <3>0, <3>1, <2>6, <2>7
    <3>2. CASE k # m
      BY <3>0, <3>2, <2>5, <2>6
    <3> QED
      BY <3>1, <3>2
  <2> HIDE DEF h
  <2>11. Part(m, h)
    BY <2>8, <2>9, <2>10
  <2> QED
    BY <2>1, <2>11
<1>2. PICK u : Part(LastRow, u)
  <2>1. LastRow \in 0 .. LastRow
    BY RowsAre
  <2> HIDE DEF Part
  <2> QED
    BY <1>1, <2>1
<1>3. \A r \in Rows : u[r] = IF r \in S THEN G[<<u[r - 1], r>>] ELSE u[r - 1]
  BY <1>2 DEF Step, Rows
<1> QED
  BY <1>2, <1>3 DEF Builds

Climbs(u, X, G, s, S) ==
  /\ u[0] = s
  /\ \A r \in Rows : u[r - 1] \in X => u[r] = IF r \in S THEN G[<<u[r - 1], r>>] ELSE u[r - 1]

\* P is what G settles for a row and does not unsettle for another one.
Settles(X, G, S, P) ==
  \A x \in X, r \in Rows : r \in S =>
    <<G[<<x, r>>], r>> \in P /\ \A q \in Rows : <<x, q>> \in P => <<G[<<x, r>>], q>> \in P

Settled(s, t, S, P) == \A q \in Rows : q \in S \/ <<s, q>> \in P => <<t, q>> \in P

LEMMA LoopResult ==
  ASSUME NEW X, NEW G \in [X \X Rows -> X], NEW s \in X, NEW S, NEW P, NEW u,
         Climbs(u, X, G, s, S), Settles(X, G, S, P)
  PROVE  u[LastRow] \in X /\ Settled(s, u[LastRow], S, P)
<1> DEFINE Good(n) == /\ u[n] \in X
                      /\ \A q \in Rows : (q \in S /\ q <= n) \/ <<s, q>> \in P => <<u[n], q>> \in P
           Bad == {n \in 0 .. LastRow : ~Good(n)}
<1>1. Bad = {}
  <2> SUFFICES ASSUME Bad # {} PROVE FALSE
    OBVIOUS
  <2>0. Bad \in SUBSET Nat
    BY RowsAre
  <2> HIDE DEF Bad
  <2>1. PICK m \in Bad : \A k \in Bad : m <= k
    BY <2>0, Least
  <2> USE DEF Bad
  <2>2. Good(0)
    <3>1. \A q \in Rows : ~ (q <= 0)
      BY DEF Rows
    <3> QED
      BY <3>1 DEF Climbs
  <2> HIDE DEF Good
  <2>3. m # 0 /\ m \in 0 .. LastRow
    BY <2>1, <2>2
  <2>4. m - 1 \in 0 .. LastRow /\ m \in Rows /\ m - 1 \notin Bad
    <3>1. m - 1 \in 0 .. LastRow /\ m \in Rows /\ ~ (m <= m - 1)
      BY <2>3, RowsAre
    <3> HIDE DEF Bad
    <3> QED
      BY <2>1, <3>1
  <2>5. Good(m - 1)
    BY <2>4
  <2> USE DEF Good
  <2>6. u[m] = IF m \in S THEN G[<<u[m - 1], m>>] ELSE u[m - 1]
    BY <2>4, <2>5 DEF Climbs
  <2>7. u[m] \in X
    BY <2>4, <2>5, <2>6
  <2>8. ASSUME NEW q \in Rows, (q \in S /\ q <= m) \/ <<s, q>> \in P PROVE <<u[m], q>> \in P
    <3>1. q = m \/ q <= m - 1 \/ ~ (q <= m)
      BY <2>4 DEF Rows
    <3>2. CASE q = m /\ m \in S
      BY <2>4, <2>5, <2>6, <3>2 DEF Settles
    <3>3. CASE (q <= m - 1 /\ q \in S) \/ <<s, q>> \in P
      <4>1. <<u[m - 1], q>> \in P
        BY <2>5, <3>3
      <4> QED
        BY <2>4, <2>5, <2>6, <4>1 DEF Settles
    <3> QED
      BY <2>8, <3>1, <3>2, <3>3
  <2>9. Good(m)
    BY <2>7, <2>8
  <2> QED
    BY <2>1, <2>9
<1>2. LastRow \in 0 .. LastRow /\ \A q \in Rows : q <= LastRow
  BY RowsAre DEF Rows
<1>3. Good(LastRow)
  BY <1>1, <1>2
<1> QED
  BY <1>2, <1>3 DEF Settled

-----------------------------------------------------------------------------
(* What a step of the scheduler leaves alone.                              *)

LEMMA StateOf ==
  ASSUME NEW s \in SchedulerStates
  PROVE  /\ s.generation \in Nat /\ s.current \in Rows \cup {0}
         /\ s.demand \in [Rows -> Demands \cup {None}]
         /\ s.work \in [Rows -> Claims \cup {None}]
         /\ s.done \in [Rows -> Buckets \cup {0}]
         /\ s.reported \in SUBSET Rows /\ s.filled \in SUBSET (Rows \X Buckets)
         /\ s.blocked \in SUBSET Rows /\ s.high \in SUBSET Rows /\ s.nearby \in SUBSET Rows
         /\ s.activeNearby \in SUBSET Rows /\ s.activeBackground \in Rows \cup {None}
         /\ s.armed \in BOOLEAN /\ s.outstanding \in BOOLEAN
         /\ s.cursor \in 0 .. Candidates - 1 /\ s.remaining \in 0 .. Candidates
         /\ s.retiring \in SUBSET Claims /\ s.effects \in Seq(Effects)
BY DEF SchedulerStates

SameLedger(s, t) ==
  /\ t.generation = s.generation
  /\ t.work = s.work
  /\ t.retiring = s.retiring
  /\ t.activeNearby = s.activeNearby
  /\ t.activeBackground = s.activeBackground
  /\ t.effects = s.effects

SameDemand(s, t) ==
  /\ t.generation = s.generation
  /\ t.current = s.current
  /\ t.demand = s.demand
  /\ t.done = s.done
  /\ t.blocked = s.blocked
  /\ t.high = s.high
  /\ t.nearby = s.nearby
  /\ t.armed = s.armed

SameWorkElsewhere(s, t, r) == \A q \in Rows \ {r} : t.work[q] = s.work[q]

SameRow(s, t, q) ==
  /\ q = t.current <=> q = s.current
  /\ t.demand[q] = s.demand[q]
  /\ t.work[q] = s.work[q]
  /\ t.done[q] = s.done[q]
  /\ q \in t.blocked <=> q \in s.blocked
  /\ q \in t.high <=> q \in s.high
  /\ q \in t.nearby <=> q \in s.nearby

LEMMA CoreFrame ==
  ASSUME NEW b, NEW s, NEW t, Core(b, s), t \in SchedulerStates, SameLedger(s, t)
  PROVE  Core(b, t)
<1>1. Ledger(t) = Ledger(s) /\ Working(t) = Working(s) /\ Places(t) = Places(s)
  BY DEF SameLedger, Ledger, Working, Places
<1>2. \A c : Holds(t, c) <=> Holds(s, c)
  BY <1>1 DEF Holds
<1>3. LedgerSound(t)
  BY <1>1 DEF Core, LedgerSound, SameLedger
<1>4. ActiveListed(t)
  BY DEF Core, ActiveListed, SameLedger
<1>5. \A i : (Starts(t, i) <=> Starts(s, i)) /\ (Cancels(t, i) <=> Cancels(s, i))
  BY DEF Starts, Cancels, SameLedger
<1>6. Decided(b, t)
  BY <1>2, <1>5 DEF Core, Decided, SameLedger
<1> QED
  BY <1>3, <1>4, <1>6 DEF Core

LEMMA RowFrame ==
  ASSUME NEW s, NEW t, NEW q, SameRow(s, t, q), t.generation = s.generation
  PROVE  /\ RowSound(s, q) => RowSound(t, q)
         /\ RowListed(s, q) => RowListed(t, q)
         /\ RowStale(s, q) => RowStale(t, q)
<1>1. /\ Waits(t, q) <=> Waits(s, q)
      /\ DemandComplete(t, q) <=> DemandComplete(s, q)
      /\ IsHigh(t, q) <=> IsHigh(s, q)
  BY DEF SameRow, Waits, DemandComplete, IsHigh, TierFor
<1>2. RowSound(s, q) => RowSound(t, q)
  BY <1>1 DEF RowSound, SameRow
<1>3. RowListed(s, q) => RowListed(t, q)
  BY <1>1 DEF RowListed, SameRow
<1>4. RowStale(s, q) => RowStale(t, q)
  BY <1>1 DEF RowStale, SameRow
<1> QED
  BY <1>2, <1>3, <1>4

LEMMA ListedIsStale == ASSUME NEW s, NEW q, RowListed(s, q) PROVE RowStale(s, q)
BY DEF RowListed, RowStale

LEMMA KeptIsButNone == ASSUME NEW b, NEW s PROVE Kept(b, s) <=> KeptBut(b, s, {})
BY ListedIsStale DEF Kept, KeptBut, RowsSound

LEMMA RowStep ==
  ASSUME NEW b, NEW s, NEW t, NEW r \in Rows, NEW S, KeptBut(b, s, S), Core(b, t),
         t.generation = s.generation, t.armed = s.armed,
         \A q \in Rows \ {r} : SameRow(s, t, q), RowSound(t, r), RowListed(t, r)
  PROVE  KeptBut(b, t, S \ {r})
<1>1. \A q \in Rows : RowSound(t, q) /\ RowStale(t, q) /\ (q \notin S \ {r} => RowListed(t, q))
  <2> TAKE q \in Rows
  <2>1. CASE q = r
    BY <2>1, ListedIsStale
  <2>2. CASE q # r
    BY <2>2, RowFrame DEF KeptBut
  <2> QED
    BY <2>1, <2>2
<1>2. t.generation = 0 => ~t.armed
  BY DEF KeptBut
<1> QED
  BY <1>1, <1>2 DEF KeptBut

LEMMA KeptFrame ==
  ASSUME NEW b, NEW s, NEW t, NEW S, KeptBut(b, s, S), t \in SchedulerStates, SameLedger(s, t),
         \A q \in Rows : SameRow(s, t, q), t.generation = 0 => ~t.armed
  PROVE  KeptBut(b, t, S)
<1>1. Core(b, t)
  BY CoreFrame DEF KeptBut
<1>2. t.generation = s.generation
  BY DEF SameLedger
<1>3. \A q \in Rows : RowSound(t, q) /\ RowStale(t, q) /\ (q \notin S => RowListed(t, q))
  BY <1>2, RowFrame DEF KeptBut
<1> QED
  BY <1>1, <1>3 DEF KeptBut

LEMMA KeptMore ==
  ASSUME NEW b, NEW s, NEW S, NEW T, KeptBut(b, s, S), S \cap Rows \subseteq T
  PROVE  KeptBut(b, s, T)
BY DEF KeptBut

LEMMA Sizes ==
  ASSUME NEW S \in SUBSET Rows
  PROVE  IsFiniteSet(S) /\ Cardinality(S) \in Nat /\ Cardinality(S) <= LastRow
<1>1. 1 \in Int /\ LastRow \in Int /\ ~ (1 > LastRow) /\ LastRow - 1 + 1 = LastRow
  BY RowsAre
<1>2. IsFiniteSet(Rows) /\ Cardinality(Rows) = LastRow
  BY <1>1, FS_Interval DEF Rows
<1>3. IsFiniteSet(S) /\ Cardinality(S) <= LastRow
  BY <1>2, FS_Subset
<1> QED
  BY <1>3, FS_CardinalityType

LEMMA Appended ==
  ASSUME NEW S, NEW s \in Seq(S), NEW e
  PROVE  /\ DOMAIN Append(s, e) = DOMAIN s \cup {Len(s) + 1} /\ Len(s) + 1 \notin DOMAIN s
         /\ \A i \in DOMAIN s : Append(s, e)[i] = s[i]
         /\ Append(s, e)[Len(s) + 1] = e
<1>1. Len(s) \in Nat /\ DOMAIN s = 1 .. Len(s)
  OBVIOUS
<1>2. DOMAIN Append(s, e) = 1 .. Len(s) + 1
  OBVIOUS
<1>3. 1 .. Len(s) + 1 = (1 .. Len(s)) \cup {Len(s) + 1} /\ Len(s) + 1 \notin 1 .. Len(s)
  BY <1>1
<1>4. \A i \in 1 .. Len(s) : Append(s, e)[i] = s[i]
  OBVIOUS
<1>5. Append(s, e)[Len(s) + 1] = e
  OBVIOUS
<1> QED
  BY <1>1, <1>2, <1>3, <1>4, <1>5

-----------------------------------------------------------------------------
(* Canceling the work of a row: it moves from the row to what retires.     *)

WithoutActive(s, t, r) ==
  /\ t.activeNearby = IF s.work[r].tier = "nearby" THEN s.activeNearby \ {r} ELSE s.activeNearby
  /\ t.activeBackground = IF s.work[r].tier = "background" THEN None ELSE s.activeBackground

LEMMA CancelRowIs ==
  ASSUME NEW s \in SchedulerStates, NEW r \in Rows, s.work[r] # None, NEW t, t = CancelRow(s, r),
         NEW cancel, cancel = [kind |-> "cancel", id |-> s.work[r].id]
  PROVE  /\ t \in SchedulerStates
         /\ SameDemand(s, t)
         /\ t.work[r] = None
         /\ \A q \in Rows \ {r} : t.work[q] = s.work[q]
         /\ t.retiring = s.retiring \cup {s.work[r]}
         /\ t.effects = Append(s.effects, cancel)
         /\ WithoutActive(s, t, r)
<1> DEFINE claim == s.work[r]
           near == IF claim.tier = "nearby" THEN s.activeNearby \ {r} ELSE s.activeNearby
           back == IF claim.tier = "background" THEN None ELSE s.activeBackground
           u == [s EXCEPT !.effects = Append(@, cancel), !.activeNearby = near,
                          !.activeBackground = back, !.work[r] = None,
                          !.retiring = @ \cup {claim}]
<1>1. t = u
  BY DEF CancelRow
<1>2. claim \in Claims
  BY StateOf
<1>3. cancel \in Effects
  <2>1. claim.id \in Nat
    BY <1>2 DEF Claims
  <2> QED
    BY <2>1 DEF Effects, claim
<1>4. Append(s.effects, cancel) \in Seq(Effects)
  BY <1>3, StateOf
<1>5. near \in SUBSET Rows /\ back \in Rows \cup {None}
  BY StateOf
<1>6. [s.work EXCEPT ![r] = None] \in [Rows -> Claims \cup {None}]
  BY StateOf
<1>7. s.retiring \cup {claim} \in SUBSET Claims
  BY <1>2, StateOf
<1> HIDE DEF near, back, claim, WithoutActive
<1>8. u \in SchedulerStates
  BY <1>4, <1>5, <1>6, <1>7 DEF SchedulerStates
<1>9. /\ u.work = [s.work EXCEPT ![r] = None] /\ u.retiring = s.retiring \cup {claim}
      /\ u.effects = Append(s.effects, cancel) /\ u.activeNearby = near
      /\ u.activeBackground = back
  BY DEF SchedulerStates
<1>10. SameDemand(s, u)
  BY DEF SchedulerStates, SameDemand
<1> HIDE DEF u
<1>11. /\ u.work[r] = None
      /\ \A q \in Rows \ {r} : u.work[q] = s.work[q]
  BY <1>9, StateOf
<1> QED
  BY <1>1, <1>8, <1>9, <1>10, <1>11 DEF near, back, claim, WithoutActive

LEMMA CancelRowCore ==
  ASSUME NEW b, NEW s, NEW r \in Rows, Core(b, s), NEW t, t = CancelRow(s, r)
  PROVE  /\ Core(b, t)
         /\ SameDemand(s, t)
         /\ t.work[r] = None
         /\ SameWorkElsewhere(s, t, r)
         /\ t.activeNearby \subseteq s.activeNearby
         /\ t.activeBackground \in {None, s.activeBackground}
         /\ s.work[r] # None /\ s.work[r].tier = "background" => t.activeBackground = None
         /\ s.retiring \subseteq t.retiring
         /\ Ledger(t) = Ledger(s)
<1>a. s \in SchedulerStates
  BY DEF Core
<1>b. CASE s.work[r] = None
  <2>1. t = s
    BY <1>b DEF CancelRow
  <2> QED
    BY <1>b, <2>1 DEF SameDemand, SameWorkElsewhere
<1>c. CASE s.work[r] # None
  <2> DEFINE claim == s.work[r]
  <2>0. PICK cancel : cancel = [kind |-> "cancel", id |-> claim.id]
    OBVIOUS
  <2>1. /\ t \in SchedulerStates
        /\ SameDemand(s, t)
        /\ t.work[r] = None
        /\ \A q \in Rows \ {r} : t.work[q] = s.work[q]
        /\ t.retiring = s.retiring \cup {claim}
        /\ t.effects = Append(s.effects, cancel)
        /\ WithoutActive(s, t, r)
    BY <1>a, <1>c, <2>0, CancelRowIs
  <2>b. /\ t.activeNearby = IF claim.tier = "nearby" THEN s.activeNearby \ {r}
                                                     ELSE s.activeNearby
        /\ t.activeBackground = IF claim.tier = "background" THEN None ELSE s.activeBackground
    BY <2>1 DEF WithoutActive
  <2>2. LedgerSound(s) /\ ActiveListed(s) /\ Decided(b, s)
    BY DEF Core
  <2>3. /\ t.work[r] = None
        /\ \A q \in Rows \ {r} : t.work[q] = s.work[q]
        /\ r \in Working(s) /\ Working(t) = Working(s) \ {r}
    BY <1>a, <1>c, <2>1, StateOf DEF Working
  <2>4. claim \notin s.retiring /\ claim \in Ledger(s) /\ claim.generation = s.generation
    BY <2>2, <2>3 DEF LedgerSound, Ledger
  <2>5. Ledger(t) = Ledger(s)
    <3>1. ASSUME NEW c \in Ledger(t) PROVE c \in Ledger(s)
      <4>1. CASE c \in t.retiring
        BY <2>1, <2>4, <4>1 DEF Ledger
      <4>2. CASE \E q \in Working(t) : c = t.work[q]
        <5>1. PICK q \in Working(t) : c = t.work[q]
          BY <4>2
        <5>2. q \in Working(s) /\ c = s.work[q]
          BY <2>3, <5>1 DEF Working
        <5> QED
          BY <5>2 DEF Ledger
      <4> QED
        BY <3>1, <4>1, <4>2 DEF Ledger
    <3>2. ASSUME NEW c \in Ledger(s) PROVE c \in Ledger(t)
      <4>1. CASE c \in s.retiring
        BY <2>1, <4>1 DEF Ledger
      <4>2. CASE \E q \in Working(s) : c = s.work[q]
        BY <2>1, <2>3, <4>2 DEF Ledger, Working
      <4> QED
        BY <4>1, <4>2 DEF Ledger
    <3> QED
      BY <3>1, <3>2
  <2>6. IsFiniteSet(t.retiring) /\ Places(t) = Places(s)
    <3>1. IsFiniteSet(s.retiring) /\ Cardinality(s.retiring) \in Nat
      BY <2>2, FS_CardinalityType DEF LedgerSound
    <3>2. IsFiniteSet(t.retiring) /\ Cardinality(t.retiring) = Cardinality(s.retiring) + 1
      <4>1. t.retiring = s.retiring \cup {claim} /\ claim \notin s.retiring
        BY <2>1, <2>4
      <4> HIDE DEF claim
      <4>2. /\ IsFiniteSet(s.retiring \cup {claim})
            /\ Cardinality(s.retiring \cup {claim}) =
                 IF claim \in s.retiring THEN Cardinality(s.retiring)
                                         ELSE Cardinality(s.retiring) + 1
        BY <3>1, FS_AddElement, Zenon
      <4> QED
        BY <4>1, <4>2
    <3>3. IsFiniteSet(Working(s)) /\ Cardinality(Working(s)) \in Nat
      BY Sizes DEF Working
    <3>4. Cardinality(Working(t)) = Cardinality(Working(s)) - 1
      BY <2>3, <3>3, FS_RemoveElement
    <3> QED
      BY <3>1, <3>2, <3>3, <3>4 DEF Places
  <2>7. LedgerSound(t)
    <3>1. \A q \in Working(t) :
            t.work[q].row = q /\ t.work[q].generation = t.generation /\ t.work[q] \notin t.retiring
      <4> TAKE q \in Working(t)
      <4>1. q \in Working(s) /\ q # r /\ q \in Rows /\ t.work[q] = s.work[q]
        BY <2>3 DEF Working
      <4>2. s.work[q].row = q /\ s.work[r].row = r
        BY <2>2, <2>3, <4>1 DEF LedgerSound
      <4> QED
        BY <2>1, <2>2, <4>1, <4>2 DEF LedgerSound, SameDemand
    <3>2. t.generation # 0 => \A c \in t.retiring : c.generation <= t.generation
      <4>1. s.generation \in Nat
        BY <1>a, StateOf
      <4> QED
        BY <2>1, <2>2, <2>4, <4>1 DEF LedgerSound, SameDemand
    <3> QED
      BY <2>2, <2>5, <2>6, <3>1, <3>2 DEF LedgerSound
  <2>8. ActiveListed(t)
    <3>1. claim.tier # "nearby" \/ claim.tier # "background"
      OBVIOUS
    <3>2. \A q \in Rows : q \in t.activeNearby <=> t.work[q] # None /\ t.work[q].tier = "nearby"
      BY <2>1, <2>2, <2>3, <2>b DEF ActiveListed
    <3>3. \A q \in Rows : q = t.activeBackground
                            <=> t.work[q] # None /\ t.work[q].tier = "background"
      <4> TAKE q \in Rows
      <4>1. CASE q = r
        BY <2>1, <2>2, <2>3, <2>b, <4>1, RowsAre, <1>c DEF ActiveListed
      <4>2. CASE q # r
        BY <2>1, <2>2, <2>3, <2>b, <4>2, RowsAre, <1>c DEF ActiveListed
      <4> QED
        BY <4>1, <4>2
    <3> QED
      BY <3>2, <3>3 DEF ActiveListed
  <2>9. Decided(b, t)
    <3> DEFINE n == Len(s.effects) + 1
    <3>1. /\ DOMAIN t.effects = DOMAIN s.effects \cup {n} /\ n \notin DOMAIN s.effects
          /\ \A i \in DOMAIN s.effects : t.effects[i] = s.effects[i]
          /\ t.effects[n] = cancel
      BY <1>a, <2>1, StateOf, Appended
    <3>2. \A c : Holds(s, c) => Holds(t, c)
      BY <2>5 DEF Holds
    <3>3. /\ \A i : Starts(t, i) => Starts(s, i) /\ t.effects[i] = s.effects[i]
          /\ \A i : Cancels(t, i) => i = n \/ (Cancels(s, i) /\ t.effects[i] = s.effects[i])
      BY <2>0, <3>1 DEF Starts, Cancels
    <3>4. t.effects[n].id = claim.id /\ \A i \in DOMAIN t.effects : t.effects[i].kind # "rows"
      BY <2>0, <2>2, <3>1 DEF Decided
    <3>5. \A c \in s.retiring : c.id # claim.id
      BY <2>2, <2>4 DEF LedgerSound, Ledger
    <3>6. b.retiring \subseteq s.retiring /\ s.retiring \subseteq t.retiring /\ claim \in t.retiring
      BY <2>1, <2>2 DEF Decided
    <3> HIDE DEF claim, n
    <3>7. \A i : Starts(t, i) =>
       Holds(t, t.effects[i].work) /\ \A c \in Ledger(b) : c.id # t.effects[i].work.id
      BY <2>2, <3>2, <3>3 DEF Decided
    <3>8. \A i : Cancels(t, i) =>
           /\ \E c \in t.retiring : c.id = t.effects[i].id
           /\ \A c \in b.retiring : c.id # t.effects[i].id
      <4> SUFFICES ASSUME NEW i, Cancels(t, i)
                   PROVE  /\ \E c \in t.retiring : c.id = t.effects[i].id
                          /\ \A c \in b.retiring : c.id # t.effects[i].id
        OBVIOUS
      <4>1. CASE i = n
        BY <4>1, <3>4, <3>5, <3>6
      <4>2. CASE Cancels(s, i) /\ t.effects[i] = s.effects[i]
        BY <4>2, <2>2, <3>6 DEF Decided
      <4> QED
        BY <3>3, <4>1, <4>2
    <3>9. \A i, j : Starts(t, i) /\ Starts(t, j) /\ i # j
            => t.effects[i].work.id # t.effects[j].work.id
      BY <2>2, <3>3 DEF Decided
    <3>10. \A i, j : Cancels(t, i) /\ Cancels(t, j) /\ i # j => t.effects[i].id # t.effects[j].id
      <4>1. \A i : Cancels(s, i) => s.effects[i].id # claim.id
        BY <2>2, <3>5 DEF Decided
      <4> QED
        BY <2>2, <3>3, <3>4, <4>1 DEF Decided
    <3>11. t.generation = b.generation /\ b.retiring \subseteq t.retiring
             /\ \A c \in Ledger(b) : Holds(t, c)
      BY <2>1, <2>2, <3>2, <3>6 DEF Decided, SameDemand
    <3>12. \A c \in t.retiring : c \in b.retiring \/ c.generation = t.generation
      <4>1. \A c \in t.retiring : c \in s.retiring \/ c = claim
        BY <2>1 DEF claim
      <4>2. claim.generation = t.generation /\ t.generation = s.generation
        BY <2>1, <2>4 DEF claim, SameDemand
      <4> QED
        BY <2>2, <4>1, <4>2 DEF Decided
    <3> QED
      BY <3>4, <3>7, <3>8, <3>9, <3>10, <3>11, <3>12 DEF Decided
  <2> QED
    BY <2>1, <2>5, <2>7, <2>8, <2>9, <2>b DEF Core, SameWorkElsewhere
<1> QED
  BY <1>b, <1>c

-----------------------------------------------------------------------------
(* Starting work for a row, under an id nobody uses.                       *)

LEMMA Images ==
  ASSUME NEW S, IsFiniteSet(S), NEW f, f = [x \in S |-> f[x]]
  PROVE  LET T == {f[x] : x \in S} IN IsFiniteSet(T) /\ Cardinality(T) <= Cardinality(S)
<1> DEFINE T == {f[x] : x \in S}
<1>1. f \in Surjection(S, T)
  BY DEF Surjection
<1> QED
  BY <1>1, FS_Surjection

LEMMA FreshIdExists ==
  ASSUME NEW s \in SchedulerStates, IsFiniteSet(s.retiring)
  PROVE  /\ FreshIds(s) # {} /\ FreshIds(s) \in SUBSET (Nat \ {0})
         /\ \A i \in FreshIds(s), c \in Ledger(s) : c.id # i
<1> DEFINE n == Cardinality(s.retiring)
           gone == {c.id : c \in s.retiring}
           held == {s.work[r].id : r \in Working(s)}
           all == 1 .. n + LastRow + 1
<1>a. n \in Nat /\ LastRow \in Nat
  BY FS_CardinalityType, RowsAre
<1>1. FreshIds(s) = all \ (gone \cup held)
  BY DEF FreshIds, Working
<1>2. IsFiniteSet(gone) /\ Cardinality(gone) <= n
  <2> DEFINE f == [c \in s.retiring |-> c.id]
  <2>1. f = [c \in s.retiring |-> f[c]]
    OBVIOUS
  <2>2. gone = {f[c] : c \in s.retiring}
    OBVIOUS
  <2> HIDE DEF f
  <2>3. LET T == {f[c] : c \in s.retiring}
        IN  IsFiniteSet(T) /\ Cardinality(T) <= Cardinality(s.retiring)
    BY <2>1, Images
  <2> QED
    BY <2>2, <2>3
<1>3. IsFiniteSet(held) /\ Cardinality(held) <= LastRow
  <2> DEFINE f == [r \in Working(s) |-> s.work[r].id]
  <2>1. f = [r \in Working(s) |-> f[r]]
    OBVIOUS
  <2>2. held = {f[r] : r \in Working(s)}
    OBVIOUS
  <2>3. IsFiniteSet(Working(s)) /\ Cardinality(Working(s)) <= LastRow
        /\ Cardinality(Working(s)) \in Nat
    BY Sizes DEF Working
  <2> HIDE DEF f
  <2>4. IsFiniteSet(held) /\ Cardinality(held) <= Cardinality(Working(s))
    BY <2>1, <2>2, <2>3, Images
  <2>5. Cardinality(held) \in Nat
    BY <2>4, FS_CardinalityType
  <2> QED
    BY <2>3, <2>4, <2>5, <1>a
<1> HIDE DEF gone, held
<1>4. IsFiniteSet(gone \cup held) /\ Cardinality(gone \cup held) <= n + LastRow
      /\ Cardinality(gone \cup held) \in Nat
  <2>1. /\ IsFiniteSet(gone \cup held)
        /\ Cardinality(gone \cup held)
             = Cardinality(gone) + Cardinality(held) - Cardinality(gone \cap held)
    BY <1>2, <1>3, FS_Union
  <2>2. IsFiniteSet(gone \cap held)
    BY <1>2, FS_Subset
  <2>3. /\ Cardinality(gone) \in Nat /\ Cardinality(held) \in Nat
        /\ Cardinality(gone \cap held) \in Nat /\ Cardinality(gone \cup held) \in Nat
    BY <1>2, <1>3, <2>1, <2>2, FS_CardinalityType
  <2> HIDE DEF n
  <2> QED
    BY <1>a, <1>2, <1>3, <2>1, <2>3
<1>5. FreshIds(s) # {}
  <2> SUFFICES ASSUME FreshIds(s) = {} PROVE FALSE
    OBVIOUS
  <2>1. all \in SUBSET (gone \cup held)
    BY <1>1
  <2> HIDE DEF n
  <2>2. 1 \in Int /\ n + LastRow + 1 \in Int /\ ~ (1 > n + LastRow + 1)
        /\ n + LastRow + 1 - 1 + 1 = n + LastRow + 1
    BY <1>a
  <2>3. Cardinality(all) = n + LastRow + 1
    BY <2>2, FS_Interval
  <2> HIDE DEF all
  <2>4. Cardinality(all) <= Cardinality(gone \cup held)
    BY <1>4, <2>1, FS_Subset
  <2> QED
    BY <1>a, <1>4, <2>3, <2>4
<1>6. FreshIds(s) \in SUBSET (Nat \ {0})
  BY <1>a, <1>1
<1>7. ASSUME NEW i \in FreshIds(s), NEW c \in Ledger(s) PROVE c.id # i
  <2>1. i \notin gone /\ i \notin held
    BY <1>1
  <2>2. CASE c \in s.retiring
    BY <2>1, <2>2 DEF gone
  <2>3. CASE \E r \in Working(s) : c = s.work[r]
    BY <2>1, <2>3 DEF held
  <2> QED
    BY <1>7, <2>2, <2>3 DEF Ledger
<1> QED
  BY <1>5, <1>6, <1>7

Begins(s, t, r, claim) ==
  /\ claim \in Claims
  /\ claim.row = r /\ claim.generation = s.generation
  /\ \A c \in Ledger(s) : c.id # claim.id
  /\ t.work[r] = claim
  /\ \A q \in Rows \ {r} : t.work[q] = s.work[q]
  /\ t.retiring = s.retiring
  /\ t.effects = Append(s.effects, [kind |-> "start", work |-> claim])
  /\ t.activeNearby = IF claim.tier = "nearby" THEN s.activeNearby \cup {r} ELSE s.activeNearby
  /\ t.activeBackground = IF claim.tier = "background" THEN r ELSE s.activeBackground

LEMMA StartIs ==
  ASSUME NEW s \in SchedulerStates, IsFiniteSet(s.retiring), NEW r \in Rows, NEW tier \in Tiers,
         NEW bucket \in Buckets, NEW t, t = Start(s, r, tier, bucket)
  PROVE  /\ t \in SchedulerStates /\ SameDemand(s, t)
         /\ \E claim : claim.tier = tier /\ claim.bucket = bucket /\ Begins(s, t, r, claim)
<1> DEFINE id == CHOOSE i \in FreshIds(s) : \A j \in FreshIds(s) : i <= j
           claim == [id |-> id, row |-> r, generation |-> s.generation, bucket |-> bucket,
                     tier |-> tier]
           start == [kind |-> "start", work |-> claim]
           near == IF tier = "nearby" THEN s.activeNearby \cup {r} ELSE s.activeNearby
           back == IF tier = "background" THEN r ELSE s.activeBackground
           u == [s EXCEPT !.work[r] = claim, !.activeNearby = near, !.activeBackground = back,
                          !.effects = Append(@, start)]
<1>1. t = u
  BY DEF Start
<1>2. id \in FreshIds(s)
  <2>1. FreshIds(s) \in SUBSET Nat /\ FreshIds(s) # {}
    BY FreshIdExists
  <2>2. \E i \in FreshIds(s) : \A j \in FreshIds(s) : i <= j
    BY <2>1, Least
  <2> QED
    BY <2>2
<1>3. id \in Nat \ {0} /\ \A c \in Ledger(s) : c.id # id
  BY <1>2, FreshIdExists
<1> HIDE DEF id
<1>4. claim \in Claims /\ claim.id = id /\ claim.row = r /\ claim.generation = s.generation
      /\ claim.bucket = bucket /\ claim.tier = tier
  BY <1>3, StateOf DEF Claims
<1> HIDE DEF claim
<1>5. start \in Effects
  BY <1>4 DEF Effects
<1>6. Append(s.effects, start) \in Seq(Effects)
  BY <1>5, StateOf
<1>7. near \in SUBSET Rows /\ back \in Rows \cup {None}
  BY StateOf
<1>8. [s.work EXCEPT ![r] = claim] \in [Rows -> Claims \cup {None}]
  BY <1>4, StateOf
<1> HIDE DEF near, back, start
<1>9. u \in SchedulerStates
  BY <1>6, <1>7, <1>8 DEF SchedulerStates
<1>10. /\ u.work = [s.work EXCEPT ![r] = claim] /\ u.retiring = s.retiring
       /\ u.effects = Append(s.effects, start) /\ u.activeNearby = near
       /\ u.activeBackground = back
  BY DEF SchedulerStates
<1>11. SameDemand(s, u)
  BY DEF SchedulerStates, SameDemand
<1> HIDE DEF u
<1>12. /\ u.work[r] = claim
       /\ \A q \in Rows \ {r} : u.work[q] = s.work[q]
  BY <1>10, StateOf
<1>13. Begins(s, t, r, claim)
  BY <1>1, <1>3, <1>4, <1>10, <1>12 DEF Begins, near, back, start
<1> QED
  BY <1>1, <1>4, <1>9, <1>11, <1>13

Started(s, t, r, tier) ==
  /\ SameWorkElsewhere(s, t, r)
  /\ t.activeNearby = IF tier = "nearby" THEN s.activeNearby \cup {r} ELSE s.activeNearby
  /\ t.activeBackground = IF tier = "background" THEN r ELSE s.activeBackground

LEMMA StartCore ==
  ASSUME NEW b, NEW s, NEW r \in Rows, Core(b, s), NEW tier \in Tiers, NEW bucket \in Buckets,
         s.work[r] = None, ~RetiringFor(s, r), Places(s) < Capacity,
         tier = "background" => s.activeBackground = None,
         NEW t, t = Start(s, r, tier, bucket)
  PROVE  /\ Core(b, t)
         /\ SameDemand(s, t)
         /\ t.work[r] # None /\ t.work[r].tier = tier /\ t.work[r].bucket = bucket
         /\ t.retiring = s.retiring
         /\ Started(s, t, r, tier)
<1>a. s \in SchedulerStates /\ LedgerSound(s) /\ ActiveListed(s) /\ Decided(b, s)
  BY DEF Core
<1>b. IsFiniteSet(s.retiring)
  BY <1>a DEF LedgerSound
<1>1. t \in SchedulerStates /\ SameDemand(s, t)
  BY <1>a, <1>b, StartIs
<1>2. PICK claim : claim.tier = tier /\ claim.bucket = bucket /\ Begins(s, t, r, claim)
  BY <1>a, <1>b, StartIs
<1>3. PICK start : start = [kind |-> "start", work |-> claim]
  OBVIOUS
<1>4. /\ claim \in Claims /\ claim.row = r /\ claim.generation = s.generation
      /\ t.work[r] = claim
      /\ t.retiring = s.retiring
      /\ t.effects = Append(s.effects, start)
  BY <1>2, <1>3 DEF Begins
<1>5. \A c \in Ledger(s) : c.id # claim.id
  BY <1>2 DEF Begins
<1>6. \A q \in Rows \ {r} : t.work[q] = s.work[q]
  BY <1>2 DEF Begins
<1>7. /\ t.activeNearby = IF tier = "nearby" THEN s.activeNearby \cup {r} ELSE s.activeNearby
      /\ t.activeBackground = IF tier = "background" THEN r ELSE s.activeBackground
  BY <1>2 DEF Begins
<1>8. claim # None
  BY <1>4, NoneAssumption
<1>9. r \notin Working(s) /\ Working(t) = Working(s) \cup {r}
  BY <1>4, <1>6, <1>8 DEF Working
<1>10. \A c : c \in Ledger(t) <=> c \in Ledger(s) \/ c = claim
  <2> TAKE c
  <2>1. ASSUME c \in Ledger(t) PROVE c \in Ledger(s) \/ c = claim
    <3>1. CASE c \in t.retiring
      BY <1>4, <3>1 DEF Ledger
    <3>2. CASE \E q \in Working(t) : c = t.work[q]
      <4>1. PICK q \in Working(t) : c = t.work[q]
        BY <3>2
      <4>2. q = r \/ (q \in Working(s) /\ c = s.work[q])
        BY <1>6, <1>9, <4>1 DEF Working
      <4> QED
        BY <1>4, <4>1, <4>2 DEF Ledger
    <3> QED
      BY <2>1, <3>1, <3>2 DEF Ledger
  <2>2. ASSUME c \in Ledger(s) \/ c = claim PROVE c \in Ledger(t)
    <3>1. CASE c \in s.retiring
      BY <1>4, <3>1 DEF Ledger
    <3>2. CASE \E q \in Working(s) : c = s.work[q]
      <4>1. PICK q \in Working(s) : c = s.work[q]
        BY <3>2
      <4>2. q \in Working(t) /\ c = t.work[q]
        BY <1>6, <1>9, <4>1 DEF Working
      <4> QED
        BY <4>2 DEF Ledger
    <3>3. CASE c = claim
      BY <1>4, <1>9, <3>3 DEF Ledger
    <3> QED
      BY <2>2, <3>1, <3>2, <3>3 DEF Ledger
  <2> QED
    BY <2>1, <2>2
<1>11. Places(t) <= Capacity
  <2>1. IsFiniteSet(Working(s)) /\ Cardinality(Working(s)) \in Nat
    BY Sizes DEF Working
  <2>2. Cardinality(s.retiring) \in Nat /\ Capacity \in Nat
    BY <1>b, FS_CardinalityType, CapacityAssumption
  <2>3. Cardinality(Working(t)) = Cardinality(Working(s)) + 1
    BY <1>9, <2>1, FS_AddElement
  <2> QED
    BY <1>4, <2>1, <2>2, <2>3 DEF Places
<1>12. \A c \in Ledger(s) : c.row # r \/ c.generation # s.generation
  <2> TAKE c \in Ledger(s)
  <2>1. CASE c \in s.retiring
    BY <2>1 DEF RetiringFor
  <2>2. CASE \E q \in Working(s) : c = s.work[q]
    BY <1>a, <1>9, <2>2 DEF LedgerSound
  <2> QED
    BY <2>1, <2>2 DEF Ledger
<1>13. claim \notin s.retiring
  BY <1>5 DEF Ledger
<1>14. LedgerSound(t)
  <2>1. \A q \in Working(t) :
          t.work[q].row = q /\ t.work[q].generation = t.generation /\ t.work[q] \notin t.retiring
    <3> TAKE q \in Working(t)
    <3>1. CASE q = r
      BY <1>1, <1>4, <1>13, <3>1 DEF SameDemand
    <3>2. CASE q # r
      <4>1. q \in Working(s) /\ t.work[q] = s.work[q]
        BY <1>6, <1>9, <3>2 DEF Working
      <4> QED
        BY <1>a, <1>1, <1>4, <4>1 DEF LedgerSound, SameDemand
    <3> QED
      BY <3>1, <3>2
  <2>2. \A c, d \in Ledger(t) : c # d => c.id # d.id /\
          (c.row # d.row \/ c.generation # d.generation)
    BY <1>a, <1>4, <1>5, <1>10, <1>12 DEF LedgerSound
  <2>3. t.generation # 0 => \A c \in t.retiring : c.generation <= t.generation
    BY <1>a, <1>1, <1>4 DEF LedgerSound, SameDemand
  <2> QED
    BY <1>b, <1>4, <1>11, <2>1, <2>2, <2>3 DEF LedgerSound
<1>15. ActiveListed(t)
  <2>1. \A q \in Rows : q \in t.activeNearby <=> t.work[q] # None /\ t.work[q].tier = "nearby"
    BY <1>a, <1>2, <1>4, <1>6, <1>7, <1>8 DEF ActiveListed
  <2>2. \A q \in Rows : q = t.activeBackground
                          <=> t.work[q] # None /\ t.work[q].tier = "background"
    <3> TAKE q \in Rows
    <3>1. CASE q = r
      BY <1>a, <1>2, <1>4, <1>7, <1>8, <3>1 DEF ActiveListed
    <3>2. CASE q # r
      <4>1. t.work[q] = s.work[q] /\ q # None
        BY <1>6, <3>2, RowsAre
      <4>2. q = t.activeBackground <=> q = s.activeBackground
        BY <1>7, <3>2, <4>1
      <4> QED
        BY <1>a, <4>1, <4>2 DEF ActiveListed
    <3> QED
      BY <3>1, <3>2
  <2> QED
    BY <2>1, <2>2 DEF ActiveListed
<1>16. Decided(b, t)
  <2> DEFINE n == Len(s.effects) + 1
  <2>1. /\ DOMAIN t.effects = DOMAIN s.effects \cup {n} /\ n \notin DOMAIN s.effects
        /\ \A i \in DOMAIN s.effects : t.effects[i] = s.effects[i]
        /\ t.effects[n] = start
    BY <1>a, <1>4, StateOf, Appended
  <2>2. \A c : Holds(s, c) => Holds(t, c)
    BY <1>10 DEF Holds
  <2>3. /\ \A i : Cancels(t, i) => Cancels(s, i) /\ t.effects[i] = s.effects[i]
        /\ \A i : Starts(t, i) => i = n \/ (Starts(s, i) /\ t.effects[i] = s.effects[i])
    BY <1>3, <2>1 DEF Starts, Cancels
  <2>4. t.effects[n].work = claim /\ \A i \in DOMAIN t.effects : t.effects[i].kind # "rows"
    BY <1>a, <1>3, <2>1 DEF Decided
  <2>5. Holds(t, claim)
    BY <1>10 DEF Holds, SameWork
  <2>6. \A c : Holds(s, c) => c.id # claim.id
    BY <1>5 DEF Holds, SameWork
  <2> HIDE DEF n
  <2>7. \A i : Starts(t, i) =>
     Holds(t, t.effects[i].work) /\ \A c \in Ledger(b) : c.id # t.effects[i].work.id
    <3> SUFFICES ASSUME NEW i, Starts(t, i)
                 PROVE  Holds(t, t.effects[i].work)
                        /\ \A c \in Ledger(b) : c.id # t.effects[i].work.id
      OBVIOUS
    <3>1. CASE i = n
      BY <1>a, <2>4, <2>5, <2>6, <3>1 DEF Decided
    <3>2. CASE Starts(s, i) /\ t.effects[i] = s.effects[i]
      BY <1>a, <2>2, <3>2 DEF Decided
    <3> QED
      BY <2>3, <3>1, <3>2
  <2>8. \A i : Cancels(t, i) =>
         /\ \E c \in t.retiring : c.id = t.effects[i].id
         /\ \A c \in b.retiring : c.id # t.effects[i].id
    <3> TAKE i
    <3> HAVE Cancels(t, i)
    <3>1. Cancels(s, i) /\ t.effects[i] = s.effects[i]
      BY <2>3
    <3> QED
      BY <1>a, <1>4, <3>1 DEF Decided
  <2>9. \A i, j : Starts(t, i) /\ Starts(t, j) /\ i # j
                    => t.effects[i].work.id # t.effects[j].work.id
    <3>1. \A i : Starts(s, i) => s.effects[i].work.id # claim.id
      BY <1>a, <2>6 DEF Decided
    <3> QED
      BY <1>a, <2>3, <2>4, <3>1 DEF Decided
  <2>10. \A i, j : Cancels(t, i) /\ Cancels(t, j) /\ i # j => t.effects[i].id # t.effects[j].id
    BY <1>a, <2>3 DEF Decided
  <2>11. t.generation = b.generation /\ b.retiring \subseteq t.retiring
           /\ \A c \in Ledger(b) : Holds(t, c)
    BY <1>a, <1>1, <1>4, <2>2 DEF Decided, SameDemand
  <2>12. \A c \in t.retiring : c \in b.retiring \/ c.generation = t.generation
    BY <1>a, <1>1, <1>4 DEF Decided, SameDemand
  <2> QED
    BY <2>4, <2>7, <2>8, <2>9, <2>10, <2>11, <2>12 DEF Decided
<1>17. Core(b, t)
  BY <1>1, <1>14, <1>15, <1>16 DEF Core
<1> QED
  BY <1>1, <1>2, <1>4, <1>6, <1>7, <1>8, <1>17 DEF Started, SameWorkElsewhere

-----------------------------------------------------------------------------
(* Listing a row anew, and the steps that end with it.                     *)

Relists(s, t, r) ==
  /\ SameLedger(s, t)
  /\ t.current = s.current /\ t.demand = s.demand /\ t.done = s.done
  /\ t.blocked = s.blocked /\ t.armed = s.armed
  /\ \A q \in Rows \ {r} : (q \in t.high <=> q \in s.high) /\ (q \in t.nearby <=> q \in s.nearby)

LEMMA RefreshIs ==
  ASSUME NEW s \in SchedulerStates, NEW r \in Rows, NEW t, t = RefreshDemandTier(s, r)
  PROVE  t \in SchedulerStates /\ Relists(s, t, r) /\ RowListed(t, r)
<1> DEFINE waits == s.demand[r] # None /\ r \notin s.blocked /\ ~DemandComplete(s, r)
           isHigh == waits /\ TierFor(s, r, s.demand[r]) \in {"current", "visible"}
           high == (s.high \ {r}) \cup {x \in {r} : isHigh}
           near == (s.nearby \ {r}) \cup {x \in {r} : waits /\ ~isHigh}
           u == [s EXCEPT !.high = high, !.nearby = near]
<1>1. t = u
  BY DEF RefreshDemandTier
<1>2. high \in SUBSET Rows /\ near \in SUBSET Rows
  BY StateOf
<1>3. /\ r \in high <=> isHigh
      /\ r \in near <=> waits /\ ~isHigh
      /\ \A q \in Rows \ {r} : (q \in high <=> q \in s.high) /\ (q \in near <=> q \in s.nearby)
  OBVIOUS
<1>4. (waits <=> Waits(s, r)) /\ (isHigh <=> waits /\ IsHigh(s, r))
  BY DEF Waits, IsHigh
<1> HIDE DEF high, near, isHigh, waits
<1>5. u \in SchedulerStates
  BY <1>2 DEF SchedulerStates
<1>6. u.high = high /\ u.nearby = near
  BY DEF SchedulerStates
<1>7. /\ SameLedger(s, u)
      /\ u.current = s.current /\ u.demand = s.demand /\ u.done = s.done
      /\ u.blocked = s.blocked /\ u.armed = s.armed
  BY DEF SchedulerStates, SameLedger
<1> HIDE DEF u
<1>8. Relists(s, u, r)
  BY <1>3, <1>6, <1>7 DEF Relists
<1>9. (Waits(u, r) <=> Waits(s, r)) /\ (IsHigh(u, r) <=> IsHigh(s, r))
  BY <1>7 DEF Waits, IsHigh, DemandComplete, TierFor
<1>10. RowListed(u, r)
  BY <1>3, <1>4, <1>6, <1>9 DEF RowListed
<1> QED
  BY <1>1, <1>5, <1>8, <1>10

\* m is s with the row r changed.
LEMMA RefreshKept ==
  ASSUME NEW b, NEW s, NEW m, NEW r \in Rows, NEW S, KeptBut(b, s, S), Core(b, m),
         m.generation = s.generation, m.armed = s.armed,
         \A q \in Rows \ {r} : SameRow(s, m, q), RowSound(m, r),
         NEW t, t = RefreshDemandTier(m, r)
  PROVE  KeptBut(b, t, S \ {r}) /\ Relists(m, t, r)
<1>1. t \in SchedulerStates /\ Relists(m, t, r) /\ RowListed(t, r)
  BY RefreshIs DEF Core
<1>2. Core(b, t)
  BY <1>1, CoreFrame DEF Relists
<1>3. t.generation = s.generation /\ t.armed = s.armed
  BY <1>1 DEF Relists, SameLedger
<1>4. \A q \in Rows \ {r} : SameRow(s, t, q)
  BY <1>1 DEF Relists, SameRow, SameLedger
<1>5. RowSound(t, r)
  BY <1>1 DEF Relists, SameLedger, RowSound, DemandComplete
<1> QED
  BY <1>1, <1>2, <1>3, <1>4, <1>5, RowStep

LEMMA CancelRowKept ==
  ASSUME NEW b, NEW s, NEW r \in Rows, NEW S, KeptBut(b, s, S), NEW t, t = CancelRow(s, r)
  PROVE  KeptBut(b, t, S)
<1>1. /\ Core(b, t) /\ SameDemand(s, t) /\ t.work[r] = None
      /\ SameWorkElsewhere(s, t, r)
  BY CancelRowCore DEF KeptBut
<1>2. \A q \in Rows \ {r} : t.work[q] = s.work[q]
  BY <1>1 DEF SameWorkElsewhere
<1>3. \A q \in Rows \ {r} : SameRow(s, t, q)
  BY <1>1, <1>2 DEF SameRow, SameDemand
<1>4. t.generation = s.generation /\ t.armed = s.armed
  BY <1>1 DEF SameDemand
<1>5. /\ RowSound(t, r)
      /\ RowStale(s, r) => RowStale(t, r)
      /\ RowListed(s, r) => RowListed(t, r)
  <2>1. RowSound(s, r)
    BY DEF KeptBut
  <2>2. /\ Waits(t, r) <=> Waits(s, r)
        /\ DemandComplete(t, r) <=> DemandComplete(s, r)
        /\ IsHigh(t, r) <=> IsHigh(s, r)
    BY <1>1 DEF SameDemand, Waits, DemandComplete, IsHigh, TierFor
  <2>3. RowSound(t, r)
    BY <1>1, <2>1, <2>2 DEF SameDemand, RowSound, IsForeground
  <2> QED
    BY <1>1, <2>2, <2>3 DEF SameDemand, RowStale, RowListed
<1>6. \A q \in Rows : RowSound(t, q) /\ RowStale(t, q) /\ (q \notin S => RowListed(t, q))
  <2> TAKE q \in Rows
  <2>1. CASE q = r
    BY <1>5, <2>1 DEF KeptBut
  <2>2. CASE q # r
    BY <1>3, <1>4, <2>2, RowFrame DEF KeptBut
  <2> QED
    BY <2>1, <2>2
<1> QED
  BY <1>1, <1>4, <1>6 DEF KeptBut

LEMMA ReleaseBlockKept ==
  ASSUME NEW b, NEW s, NEW r \in Rows, NEW S, KeptBut(b, s, S), NEW t, t = ReleaseBlock(s, r)
  PROVE  KeptBut(b, t, S) /\ t.current = s.current
<1>1. CASE r \notin s.blocked
  BY <1>1 DEF ReleaseBlock
<1>2. CASE r \in s.blocked
  <2> DEFINE m == [s EXCEPT !.blocked = @ \ {r}]
  <2>a. s \in SchedulerStates /\ RowSound(s, r)
    BY DEF KeptBut, Core
  <2>1. m \in SchedulerStates
    BY <2>a, StateOf DEF SchedulerStates
  <2>2. /\ SameLedger(s, m) /\ m.armed = s.armed /\ m.current = s.current
        /\ m.demand = s.demand /\ m.done = s.done /\ m.high = s.high /\ m.nearby = s.nearby
        /\ m.blocked = s.blocked \ {r}
    BY <2>a DEF SchedulerStates, SameLedger
  <2>3. t = RefreshDemandTier(m, r)
    BY <1>2 DEF ReleaseBlock
  <2> HIDE DEF m
  <2>4. Core(b, m)
    BY <2>1, <2>2, CoreFrame DEF KeptBut
  <2>5. \A q \in Rows \ {r} : SameRow(s, m, q)
    BY <2>2 DEF SameRow, SameLedger
  <2>6. RowSound(m, r)
    BY <1>2, <2>a, <2>2 DEF RowSound, SameLedger, DemandComplete, IsForeground
  <2>7. m.generation = s.generation
    BY <2>2 DEF SameLedger
  <2>8. KeptBut(b, t, S \ {r}) /\ Relists(m, t, r)
    BY <2>2, <2>3, <2>4, <2>5, <2>6, <2>7, RefreshKept
  <2>9. KeptBut(b, t, S)
    BY <2>8, KeptMore
  <2> QED
    BY <2>2, <2>8, <2>9 DEF Relists
<1> QED
  BY <1>1, <1>2

LEMMA ExpireDemandKept ==
  ASSUME NEW b, NEW s, NEW r \in Rows, NEW S, KeptBut(b, s, S), NEW t, t = ExpireDemand(s, r)
  PROVE  KeptBut(b, t, S \ {r}) /\ t.current = s.current
<1>a. s \in SchedulerStates /\ RowSound(s, r) /\ RowStale(s, r) /\ Core(b, s)
  BY DEF KeptBut, Core
<1>1. CASE s.demand[r] = None
  <2>1. t = s
    BY <1>1 DEF ExpireDemand
  <2>2. RowListed(s, r)
    BY <1>1, <1>a DEF RowStale, RowListed, Waits
  <2> QED
    BY <2>1, <2>2 DEF KeptBut
<1>2. CASE s.demand[r] # None
  <2> DEFINE c == CancelRow(s, r)
             m == [c EXCEPT !.demand[r] = None, !.done[r] = 0, !.blocked = @ \ {r},
                            !.reported = @ \ {r}]
  <2>0. t = RefreshDemandTier(m, r)
    BY <1>2 DEF ExpireDemand
  <2> HIDE DEF c
  <2>1. /\ Core(b, c) /\ SameDemand(s, c) /\ c.work[r] = None
        /\ SameWorkElsewhere(s, c, r)
    BY <1>a, CancelRowCore DEF c
  <2>2. \A q \in Rows \ {r} : c.work[q] = s.work[q]
    BY <2>1 DEF SameWorkElsewhere
  <2>b. c \in SchedulerStates
    BY <2>1 DEF Core
  <2>3. [c.demand EXCEPT ![r] = None] \in [Rows -> Demands \cup {None}]
        /\ [c.done EXCEPT ![r] = 0] \in [Rows -> Buckets \cup {0}]
    BY <2>b, StateOf
  <2>4. m \in SchedulerStates
    BY <2>b, <2>3, StateOf DEF SchedulerStates
  <2>5. /\ SameLedger(c, m) /\ m.armed = c.armed /\ m.current = c.current
        /\ m.demand = [c.demand EXCEPT ![r] = None] /\ m.done = [c.done EXCEPT ![r] = 0]
        /\ m.high = c.high /\ m.nearby = c.nearby /\ m.blocked = c.blocked \ {r}
    BY <2>b DEF SchedulerStates, SameLedger
  <2> HIDE DEF m
  <2>6. /\ m.demand[r] = None /\ m.done[r] = 0
        /\ \A q \in Rows \ {r} : m.demand[q] = c.demand[q] /\ m.done[q] = c.done[q]
    BY <2>b, <2>5, StateOf
  <2>7. Core(b, m)
    BY <2>1, <2>4, <2>5, CoreFrame
  <2>8. \A q \in Rows \ {r} : SameRow(s, m, q)
    BY <2>1, <2>2, <2>5, <2>6 DEF SameRow, SameLedger, SameDemand
  <2>9. RowSound(m, r)
    BY <2>1, <2>5, <2>6 DEF RowSound, SameLedger, IsForeground
  <2>10. m.generation = s.generation /\ m.armed = s.armed /\ m.current = s.current
    BY <2>1, <2>5 DEF SameLedger, SameDemand
  <2>11. KeptBut(b, t, S \ {r}) /\ Relists(m, t, r)
    BY <2>0, <2>7, <2>8, <2>9, <2>10, RefreshKept
  <2> QED
    BY <2>10, <2>11 DEF Relists
<1> QED
  BY <1>1, <1>2

LEMMA LoseOneKept ==
  ASSUME NEW b, NEW s, NEW r \in Rows, NEW S, KeptBut(b, s, S), NEW t, t = LoseOne(s, r)
  PROVE  KeptBut(b, t, S)
<1>a. s \in SchedulerStates /\ RowSound(s, r) /\ Core(b, s)
  BY DEF KeptBut, Core
<1>1. CASE s.demand[r] = None \/ s.done[r] = 0 \/ r \notin Supported
  BY <1>1 DEF LoseOne
<1>2. CASE ~ (s.demand[r] = None \/ s.done[r] = 0 \/ r \notin Supported)
  <2> DEFINE c == CancelRow(s, r)
             m == [c EXCEPT !.done[r] = 0, !.blocked = @ \cup {r}]
  <2>0. t = RefreshDemandTier(m, r)
    BY <1>2 DEF LoseOne
  <2> HIDE DEF c
  <2>1. /\ Core(b, c) /\ SameDemand(s, c) /\ c.work[r] = None
        /\ SameWorkElsewhere(s, c, r)
    BY <1>a, CancelRowCore DEF c
  <2>2. \A q \in Rows \ {r} : c.work[q] = s.work[q]
    BY <2>1 DEF SameWorkElsewhere
  <2>b. c \in SchedulerStates
    BY <2>1 DEF Core
  <2>3. [c.done EXCEPT ![r] = 0] \in [Rows -> Buckets \cup {0}]
    BY <2>b, StateOf
  <2>4. m \in SchedulerStates
    BY <2>b, <2>3, StateOf DEF SchedulerStates
  <2>5. /\ SameLedger(c, m) /\ m.armed = c.armed /\ m.current = c.current
        /\ m.demand = c.demand /\ m.done = [c.done EXCEPT ![r] = 0]
        /\ m.high = c.high /\ m.nearby = c.nearby /\ m.blocked = c.blocked \cup {r}
    BY <2>b DEF SchedulerStates, SameLedger
  <2> HIDE DEF m
  <2>6. /\ m.done[r] = 0
        /\ \A q \in Rows \ {r} : m.done[q] = c.done[q]
    BY <2>b, <2>5, StateOf
  <2>7. Core(b, m)
    BY <2>1, <2>4, <2>5, CoreFrame
  <2>8. \A q \in Rows \ {r} : SameRow(s, m, q)
    BY <2>1, <2>2, <2>5, <2>6 DEF SameRow, SameLedger, SameDemand
  <2>9. RowSound(m, r)
    BY <1>2, <1>a, <2>1, <2>5, <2>6 DEF RowSound, SameLedger, SameDemand, IsForeground
  <2>10. m.generation = s.generation /\ m.armed = s.armed
    BY <2>1, <2>5 DEF SameLedger, SameDemand
  <2>11. KeptBut(b, t, S \ {r})
    BY <2>0, <2>7, <2>8, <2>9, <2>10, RefreshKept
  <2> QED
    BY <2>11, KeptMore
<1> QED
  BY <1>1, <1>2

-----------------------------------------------------------------------------
(* Work that changes its tier or its quality remains the same work.        *)

LEMMA RelabelCore ==
  ASSUME NEW b, NEW s, NEW t, NEW r \in Rows, Core(b, s), t \in SchedulerStates,
         s.work[r] # None, t.work[r] # None, SameWork(t.work[r], s.work[r]),
         SameWorkElsewhere(s, t, r), t.generation = s.generation, t.retiring = s.retiring,
         t.effects = s.effects, ActiveListed(t)
  PROVE  Core(b, t)
<1> DEFINE old == s.work[r]
           new == t.work[r]
<1>a. s \in SchedulerStates /\ LedgerSound(s) /\ Decided(b, s)
  BY DEF Core
<1>b. \A q \in Rows \ {r} : t.work[q] = s.work[q]
  BY DEF SameWorkElsewhere
<1>c. new.id = old.id /\ new.row = old.row /\ new.generation = old.generation
  BY DEF SameWork
<1>1. Working(t) = Working(s) /\ r \in Working(s) /\ old \in Ledger(s) /\ new \in Ledger(t)
  BY <1>b DEF Working, Ledger
<1>2. old.row = r /\ old.generation = s.generation /\ old \notin s.retiring
  BY <1>a, <1>1 DEF LedgerSound
<1>3. ASSUME NEW c \in Ledger(t) PROVE c = new \/ (c \in Ledger(s) /\ c # old)
  <2>1. CASE c \in t.retiring
    BY <1>2, <2>1 DEF Ledger
  <2>2. CASE \E q \in Working(t) : c = t.work[q]
    <3>1. PICK q \in Working(t) : c = t.work[q]
      BY <2>2
    <3>2. CASE q # r
      <4>1. c = s.work[q] /\ q \in Working(s)
        BY <1>1, <1>b, <3>1, <3>2 DEF Working
      <4>2. c.row = q
        BY <1>a, <4>1 DEF LedgerSound
      <4> QED
        BY <1>2, <3>2, <4>1, <4>2 DEF Ledger
    <3> QED
      BY <3>1, <3>2
  <2> QED
    BY <1>3, <2>1, <2>2 DEF Ledger
<1>4. ASSUME NEW c \in Ledger(s) PROVE c = old \/ c \in Ledger(t)
  <2>1. CASE c \in s.retiring
    BY <2>1 DEF Ledger
  <2>2. CASE \E q \in Working(s) : c = s.work[q]
    <3>1. PICK q \in Working(s) : c = s.work[q]
      BY <2>2
    <3>2. CASE q # r
      <4>1. c = t.work[q] /\ q \in Working(t)
        BY <1>1, <1>b, <3>1, <3>2 DEF Working
      <4> QED
        BY <4>1 DEF Ledger
    <3> QED
      BY <3>1, <3>2
  <2> QED
    BY <1>4, <2>1, <2>2 DEF Ledger
<1>5. \A c, d \in Ledger(s) : c # d => c.id # d.id /\ (c.row # d.row \/ c.generation # d.generation)
  BY <1>a DEF LedgerSound
<1> HIDE DEF old, new
<1>6. \A c, d \in Ledger(t) : c # d => c.id # d.id /\ (c.row # d.row \/ c.generation # d.generation)
  BY <1>1, <1>3, <1>5, <1>c
<1>7. new \notin s.retiring
  <2>1. \A c \in s.retiring : c.id # old.id
    BY <1>1, <1>2, <1>5 DEF Ledger
  <2> QED
    BY <1>c, <2>1
<1>8. LedgerSound(t)
  <2>1. \A q \in Working(t) :
          t.work[q].row = q /\ t.work[q].generation = t.generation /\ t.work[q] \notin t.retiring
    <3> TAKE q \in Working(t)
    <3>1. CASE q = r
      BY <1>2, <1>7, <1>c, <3>1 DEF old, new
    <3>2. CASE q # r
      <4>1. t.work[q] = s.work[q] /\ q \in Working(s)
        BY <1>1, <1>b, <3>2 DEF Working
      <4> QED
        BY <1>a, <4>1 DEF LedgerSound
    <3> QED
      BY <3>1, <3>2
  <2>2. Places(t) = Places(s)
    BY <1>1 DEF Places
  <2> QED
    BY <1>a, <1>6, <2>1, <2>2 DEF LedgerSound
<1>9. \A c : Holds(s, c) => Holds(t, c)
  <2> SUFFICES ASSUME NEW c, Holds(s, c) PROVE Holds(t, c)
    OBVIOUS
  <2>1. PICK d \in Ledger(s) : SameWork(c, d)
    BY DEF Holds
  <2>2. CASE d = old
    BY <1>1, <1>c, <2>1, <2>2 DEF Holds, SameWork
  <2>3. CASE d \in Ledger(t)
    BY <2>1, <2>3 DEF Holds
  <2> QED
    BY <1>4, <2>2, <2>3
<1>10. \A i : (Starts(t, i) <=> Starts(s, i)) /\ (Cancels(t, i) <=> Cancels(s, i))
  BY DEF Starts, Cancels
<1>11. Decided(b, t)
  BY <1>a, <1>9, <1>10 DEF Decided
<1> QED
  BY <1>8, <1>11 DEF Core

LEMMA TierIs ==
  ASSUME NEW s \in SchedulerStates, NEW r \in Rows, s.demand[r] # None
  PROVE  TierFor(s, r, s.demand[r]) \in {"current", "visible", "nearby"}
BY StateOf DEF TierFor, Demands, Priorities

LEMMA ReclassifyKept ==
  ASSUME NEW b, NEW s, NEW r \in Rows, NEW S, KeptBut(b, s, S), NEW t, t = Reclassify(s, r)
  PROVE  KeptBut(b, t, S \ {r}) /\ t.current = s.current
<1>a. s \in SchedulerStates /\ RowSound(s, r) /\ RowStale(s, r) /\ Core(b, s) /\ ActiveListed(s)
  BY DEF KeptBut, Core
<1>1. CASE s.demand[r] = None
  <2>1. t = s
    BY <1>1 DEF Reclassify
  <2>2. RowListed(s, r)
    BY <1>1, <1>a DEF RowStale, RowListed, Waits
  <2> QED
    BY <2>1, <2>2 DEF KeptBut
<1>2. CASE s.demand[r] # None
  <2> DEFINE tier == TierFor(s, r, s.demand[r])
             u == [s EXCEPT !.work[r].tier = tier,
                            !.activeNearby = IF tier = "nearby" THEN @ \cup {r} ELSE @ \ {r}]
  <2>0. tier \in {"current", "visible", "nearby"}
    BY <1>2, <1>a, TierIs
  <2>m. ASSUME NEW m, t = RefreshDemandTier(m, r), Core(b, m), RowSound(m, r),
               m.generation = s.generation, m.armed = s.armed, m.current = s.current,
               \A q \in Rows \ {r} : SameRow(s, m, q)
        PROVE  KeptBut(b, t, S \ {r}) /\ t.current = s.current
    <3>1. KeptBut(b, t, S \ {r}) /\ Relists(m, t, r)
      BY <2>m, RefreshKept
    <3> QED
      BY <2>m, <3>1 DEF Relists
  <2>1. CASE ~IsForeground(s.work[r])
    <3>1. t = RefreshDemandTier(s, r)
      BY <1>2, <2>1 DEF Reclassify
    <3>2. \A q \in Rows \ {r} : SameRow(s, s, q)
      BY DEF SameRow
    <3> QED
      BY <1>a, <2>m, <3>1, <3>2
  <2>2. CASE IsForeground(s.work[r]) /\ Speculative(s.work[r].tier) # Speculative(tier)
    <3> DEFINE c == CancelRow(s, r)
    <3>1. t = RefreshDemandTier(c, r)
      BY <1>2, <2>2 DEF Reclassify
    <3> HIDE DEF c
    <3>2. Core(b, c) /\ SameDemand(s, c) /\ c.work[r] = None /\ SameWorkElsewhere(s, c, r)
      BY <1>a, CancelRowCore DEF c
    <3>3. \A q \in Rows \ {r} : SameRow(s, c, q)
      BY <3>2 DEF SameWorkElsewhere, SameRow, SameDemand
    <3>4. RowSound(c, r)
      BY <1>a, <3>2 DEF RowSound, SameDemand, IsForeground, DemandComplete
    <3>5. c.generation = s.generation /\ c.armed = s.armed /\ c.current = s.current
      BY <3>2 DEF SameDemand
    <3> QED
      BY <2>m, <3>1, <3>2, <3>3, <3>4, <3>5
  <2>3. CASE IsForeground(s.work[r]) /\ ~ (Speculative(s.work[r].tier) # Speculative(tier))
    <3> DEFINE near == IF tier = "nearby" THEN s.activeNearby \cup {r} ELSE s.activeNearby \ {r}
               new == [s.work[r] EXCEPT !.tier = tier]
               work == [s.work EXCEPT ![r] = new]
    <3>1. t = RefreshDemandTier(u, r)
      BY <1>2, <2>3 DEF Reclassify
    <3>2. s.work[r] \in Claims /\ s.work[r] # None /\ s.work[r].tier # "background"
      BY <1>a, <2>3, StateOf DEF IsForeground
    <3> HIDE DEF tier
    <3>3. new \in Claims /\ SameWork(new, s.work[r]) /\ new.tier = tier
            /\ new.bucket = s.work[r].bucket
      BY <2>0, <3>2 DEF Claims, Tiers, SameWork
    <3>4. near \in SUBSET Rows
      BY <1>a, StateOf
    <3>5. work \in [Rows -> Claims \cup {None}] /\ work[r] = new
            /\ \A q \in Rows \ {r} : work[q] = s.work[q]
      <4> HIDE DEF new
      <4> QED
        BY <1>a, <3>3, StateOf
    <3>6. u = [s EXCEPT !.work = work, !.activeNearby = near]
      BY <1>a DEF SchedulerStates
    <3> HIDE DEF new, near, work, u
    <3>7. u \in SchedulerStates
      BY <1>a, <3>4, <3>5, <3>6 DEF SchedulerStates
    <3>8. u.work = work /\ u.activeNearby = near /\ u.activeBackground = s.activeBackground
            /\ u.retiring = s.retiring /\ u.effects = s.effects
      BY <1>a, <3>6 DEF SchedulerStates
    <3>9. SameDemand(s, u)
      BY <1>a, <3>6 DEF SchedulerStates, SameDemand
    <3>10. new # None
      BY <3>3, NoneAssumption
    <3>11. ActiveListed(u)
      <4>1. \A q \in Rows : q \in u.activeNearby <=> u.work[q] # None /\ u.work[q].tier = "nearby"
        BY <1>a, <3>3, <3>5, <3>8, <3>10 DEF ActiveListed, near
      <4>2. \A q \in Rows : q = u.activeBackground
                              <=> u.work[q] # None /\ u.work[q].tier = "background"
        BY <1>a, <2>0, <3>2, <3>3, <3>5, <3>8, <3>10 DEF ActiveListed
      <4> QED
        BY <4>1, <4>2 DEF ActiveListed
    <3>12. SameWorkElsewhere(s, u, r) /\ u.work[r] = new
      BY <3>5, <3>8 DEF SameWorkElsewhere
    <3>13. Core(b, u)
      BY <1>a, <3>2, <3>3, <3>7, <3>8, <3>9, <3>10, <3>11, <3>12, RelabelCore DEF SameDemand
    <3>14. \A q \in Rows \ {r} : SameRow(s, u, q)
      BY <3>9, <3>12 DEF SameWorkElsewhere, SameRow, SameDemand
    <3>15. RowSound(u, r)
      <4>1. DemandComplete(u, r) <=> DemandComplete(s, r)
        BY <3>9 DEF SameDemand, DemandComplete
      <4> QED
        BY <1>a, <2>3, <3>2, <3>3, <3>9, <3>12, <4>1 DEF RowSound, SameDemand, IsForeground
    <3> QED
      BY <2>m, <3>1, <3>9, <3>13, <3>14, <3>15 DEF SameDemand
  <2> QED
    BY <2>1, <2>2, <2>3
<1> QED
  BY <1>1, <1>2

LEMMA AcceptDemandKept ==
  ASSUME NEW b, NEW s, NEW r \in Rows, NEW S, KeptBut(b, s, S), s.generation # 0,
         NEW demand \in Demands, NEW t, t = AcceptDemand(s, r, demand)
  PROVE  KeptBut(b, t, S)
<1>a. s \in SchedulerStates /\ RowSound(s, r) /\ RowStale(s, r) /\ Core(b, s) /\ ActiveListed(s)
  BY DEF KeptBut, Core
<1>b. /\ demand # None /\ demand.bucket \in Buckets /\ demand.bucket # 0
      /\ demand.bucket >= demand.bucket /\ ~ (0 >= demand.bucket)
  <2>1. demand # None /\ demand.bucket \in Buckets
    BY NoneAssumption DEF Demands
  <2> QED
    BY <2>1 DEF Buckets
<1> DEFINE old == s.demand[r]
<1>1. CASE old = demand
  <2>1. t = RefreshDemandTier(s, r)
    BY <1>1 DEF AcceptDemand
  <2>2. \A q \in Rows \ {r} : SameRow(s, s, q)
    BY DEF SameRow
  <2>3. KeptBut(b, t, S \ {r})
    BY <1>a, <2>1, <2>2, RefreshKept
  <2> QED
    BY <2>3, KeptMore
<1>2. CASE old # None /\ old # demand /\ old.bucket = demand.bucket
  <2> DEFINE m == [s EXCEPT !.demand[r] = demand,
                     !.work[r] = IF @ = None THEN @ ELSE [@ EXCEPT !.bucket = demand.bucket]]
             l == ReleaseBlock(m, r)
             claim == s.work[r]
             new == IF claim = None THEN claim ELSE [claim EXCEPT !.bucket = demand.bucket]
             work == [s.work EXCEPT ![r] = new]
             demands == [s.demand EXCEPT ![r] = demand]
  <2>1. t = Reclassify(l, r)
    BY <1>2 DEF AcceptDemand
  <2>2. claim \in Claims \cup {None}
    BY <1>a, StateOf
  <2> HIDE DEF claim, old
  <2>3. /\ new \in Claims \cup {None}
        /\ new = None <=> claim = None
        /\ new # None => SameWork(new, claim) /\ new.tier = claim.tier
                           /\ new.bucket = demand.bucket
    <3>1. CASE claim = None
      BY <3>1
    <3>2. CASE claim # None
      <4>1. [claim EXCEPT !.bucket = demand.bucket] \in Claims
        BY <1>b, <2>2, <3>2 DEF Claims
      <4>2. [claim EXCEPT !.bucket = demand.bucket] # None
        BY <4>1, NoneAssumption
      <4> QED
        BY <2>2, <3>2, <4>1, <4>2 DEF Claims, SameWork
    <3> QED
      BY <3>1, <3>2
  <2> HIDE DEF new
  <2>4. /\ work \in [Rows -> Claims \cup {None}] /\ work[r] = new
        /\ \A q \in Rows \ {r} : work[q] = s.work[q]
    BY <1>a, <2>3, StateOf
  <2>5. /\ demands \in [Rows -> Demands \cup {None}] /\ demands[r] = demand
        /\ \A q \in Rows \ {r} : demands[q] = s.demand[q]
    BY <1>a, StateOf
  <2>6. m = [s EXCEPT !.demand = demands, !.work = work]
    BY <1>a DEF SchedulerStates, new, claim
  <2> HIDE DEF m, work, demands, l
  <2>7. m \in SchedulerStates
    BY <1>a, <2>4, <2>5, <2>6 DEF SchedulerStates
  <2>8. m.work = work /\ m.demand = demands
    BY <1>a, <2>6 DEF SchedulerStates
  <2>9. /\ m.generation = s.generation /\ m.current = s.current /\ m.done = s.done
        /\ m.blocked = s.blocked /\ m.high = s.high /\ m.nearby = s.nearby /\ m.armed = s.armed
        /\ m.retiring = s.retiring /\ m.effects = s.effects
        /\ m.activeNearby = s.activeNearby /\ m.activeBackground = s.activeBackground
    BY <1>a, <2>6 DEF SchedulerStates
  <2>10. SameWorkElsewhere(s, m, r)
    BY <2>4, <2>8 DEF SameWorkElsewhere
  <2>11. Core(b, m)
    <3>1. CASE claim = None
      <4>1. work = s.work
        <5>1. work[r] = s.work[r]
          BY <2>3, <2>4, <3>1 DEF claim
        <5>2. \A q \in Rows : work[q] = s.work[q]
          BY <2>4, <5>1
        <5> QED
          BY <1>a, <2>4, <5>2, StateOf
      <4>2. SameLedger(s, m)
        BY <2>8, <2>9, <4>1 DEF SameLedger
      <4> QED
        BY <1>a, <2>7, <4>2, CoreFrame
    <3>2. CASE claim # None
      <4>1. ActiveListed(m)
        BY <1>a, <2>3, <2>4, <2>8, <2>9, <3>2 DEF ActiveListed, claim
      <4> QED
        BY <1>a, <2>3, <2>4, <2>7, <2>8, <2>9, <2>10, <3>2, <4>1, RelabelCore DEF claim
    <3> QED
      BY <3>1, <3>2
  <2>12. \A q \in Rows \ {r} : SameRow(s, m, q)
    BY <2>4, <2>5, <2>8, <2>9 DEF SameRow
  <2>13. DemandComplete(m, r) <=> DemandComplete(s, r)
    BY <1>2, <1>b, <2>5, <2>8, <2>9 DEF DemandComplete, old
  <2>14. RowSound(m, r)
    <3>1. m.work[r] = new /\ m.demand[r] = demand
      BY <2>4, <2>5, <2>8
    <3> QED
      BY <1>2, <1>a, <1>b, <2>3, <2>9, <2>13, <3>1 DEF RowSound, old, claim, IsForeground
  <2>15. RowStale(m, r)
    <3>1. Waits(m, r) <=> Waits(s, r)
      BY <1>2, <1>b, <2>5, <2>8, <2>9, <2>13 DEF Waits, old
    <3> QED
      BY <1>a, <2>9, <3>1 DEF RowStale
  <2>16. KeptBut(b, m, S \cup {r})
    <3>1. \A q \in Rows : RowSound(m, q) /\ RowStale(m, q) /\ (q \notin S \cup {r} => RowListed(m,
            q))
      <4> TAKE q \in Rows
      <4>1. CASE q = r
        BY <2>14, <2>15, <4>1
      <4>2. CASE q # r
        BY <2>9, <2>12, <4>2, RowFrame DEF KeptBut
      <4> QED
        BY <4>1, <4>2
    <3> QED
      BY <2>9, <2>11, <3>1 DEF KeptBut
  <2>17. KeptBut(b, l, S \cup {r})
    BY <2>16, ReleaseBlockKept DEF l
  <2>18. KeptBut(b, t, (S \cup {r}) \ {r})
    BY <2>1, <2>17, ReclassifyKept
  <2> QED
    BY <2>18, KeptMore
<1>3. CASE ~ (old = demand) /\ ~ (old # None /\ old # demand /\ old.bucket = demand.bucket)
  <2> DEFINE c == CancelRow(s, r)
             done == IF r \in Supported THEN 0 ELSE demand.bucket
             m == [c EXCEPT !.demand[r] = demand, !.blocked = @ \ {r}, !.done[r] = done]
  <2>0. t = RefreshDemandTier(m, r)
    BY <1>3 DEF AcceptDemand
  <2> HIDE DEF c, old
  <2>1. /\ Core(b, c) /\ SameDemand(s, c) /\ c.work[r] = None
        /\ SameWorkElsewhere(s, c, r)
    BY <1>a, CancelRowCore DEF c
  <2>2. \A q \in Rows \ {r} : c.work[q] = s.work[q]
    BY <2>1 DEF SameWorkElsewhere
  <2>a. done \in Buckets \cup {0}
    BY <1>b
  <2>b. c \in SchedulerStates
    BY <2>1 DEF Core
  <2> HIDE DEF done
  <2>3. [c.demand EXCEPT ![r] = demand] \in [Rows -> Demands \cup {None}]
        /\ [c.done EXCEPT ![r] = done] \in [Rows -> Buckets \cup {0}]
    BY <2>a, <2>b, StateOf
  <2>4. m \in SchedulerStates
    BY <2>b, <2>3, StateOf DEF SchedulerStates
  <2>5. /\ SameLedger(c, m) /\ m.armed = c.armed /\ m.current = c.current
        /\ m.demand = [c.demand EXCEPT ![r] = demand] /\ m.done = [c.done EXCEPT ![r] = done]
        /\ m.high = c.high /\ m.nearby = c.nearby /\ m.blocked = c.blocked \ {r}
    BY <2>b DEF SchedulerStates, SameLedger
  <2> HIDE DEF m
  <2>6. /\ m.demand[r] = demand /\ m.done[r] = done
        /\ \A q \in Rows \ {r} : m.demand[q] = c.demand[q] /\ m.done[q] = c.done[q]
    BY <2>b, <2>5, StateOf
  <2>7. Core(b, m)
    BY <2>1, <2>4, <2>5, CoreFrame
  <2>8. \A q \in Rows \ {r} : SameRow(s, m, q)
    BY <2>1, <2>2, <2>5, <2>6 DEF SameRow, SameLedger, SameDemand
  <2>9. RowSound(m, r)
    <3>1. m.generation = s.generation /\ m.work[r] = None
      BY <2>1, <2>5 DEF SameLedger, SameDemand
    <3>2. r \notin Supported => done = demand.bucket
      BY DEF done
    <3>3. r \in Supported => done = 0
      BY DEF done
    <3>4. DemandComplete(m, r) <=> done >= demand.bucket
      BY <1>b, <2>6 DEF DemandComplete
    <3> QED
      BY <1>b, <2>6, <3>1, <3>2, <3>3, <3>4 DEF RowSound, IsForeground
  <2>10. m.generation = s.generation /\ m.armed = s.armed
    BY <2>1, <2>5 DEF SameLedger, SameDemand
  <2>11. KeptBut(b, t, S \ {r})
    BY <2>0, <2>7, <2>8, <2>9, <2>10, RefreshKept
  <2> QED
    BY <2>11, KeptMore
<1> QED
  BY <1>1, <1>2, <1>3

-----------------------------------------------------------------------------
(* The loops over the rows that end where they began: within Kept.         *)

LEMMA LoopStays ==
  ASSUME NEW X, NEW G \in [X \X Rows -> X], NEW s \in X, NEW S, NEW u,
         Climbs(u, X, G, s, S)
  PROVE  u[LastRow] \in X
<1> DEFINE P == X \X Rows
<1>1. Settles(X, G, S, P)
  BY DEF Settles
<1> HIDE DEF P
<1> QED
  BY <1>1, LoopResult

Foreground(s) == {r \in Rows : IsForeground(s.work[r])}

LEMMA Charges ==
  ASSUME NEW s, IsFiniteSet(s.retiring)
  PROVE  /\ Charge(s) = Cardinality(s.retiring) + Cardinality(Foreground(s))
         /\ Charge(s) \in Nat /\ Cardinality(s.retiring) \in Nat
         /\ Cardinality(Foreground(s)) \in Nat /\ Cardinality(Working(s)) \in Nat
         /\ Cardinality(Foreground(s)) <= Cardinality(Working(s))
         /\ IsFiniteSet(Foreground(s)) /\ IsFiniteSet(Working(s))
         /\ Capacity \in Nat /\ Capacity >= 1
<1>1. Charge(s) = Cardinality(s.retiring) + Cardinality(Foreground(s))
  BY DEF Charge, Foreground
<1>2. /\ IsFiniteSet(Foreground(s)) /\ IsFiniteSet(Working(s))
      /\ Cardinality(Foreground(s)) \in Nat /\ Cardinality(Working(s)) \in Nat
  BY Sizes DEF Foreground, Working
<1>3. Cardinality(s.retiring) \in Nat
  BY FS_CardinalityType
<1>4. Foreground(s) \in SUBSET Working(s)
  BY DEF Foreground, Working, IsForeground
<1>5. Cardinality(Foreground(s)) <= Cardinality(Working(s))
  BY <1>2, <1>4, FS_Subset
<1> QED
  BY <1>1, <1>2, <1>3, <1>5, CapacityAssumption

LEMMA CancelCharge ==
  ASSUME NEW b, NEW s, Core(b, s), NEW r \in Rows, NEW t, t = CancelRow(s, r)
  PROVE  Charge(t) >= Charge(s)
<1>a. s \in SchedulerStates /\ LedgerSound(s) /\ IsFiniteSet(s.retiring)
  BY DEF Core, LedgerSound
<1>1. CASE s.work[r] = None
  <2>1. t = s
    BY <1>1 DEF CancelRow
  <2> QED
    BY <1>a, <2>1, Charges
<1>2. CASE s.work[r] # None
  <2> DEFINE claim == s.work[r]
  <2>0. PICK cancel : cancel = [kind |-> "cancel", id |-> s.work[r].id]
    OBVIOUS
  <2>1. t.retiring = s.retiring \cup {claim} /\ t.work[r] = None
    BY <1>a, <1>2, <2>0, CancelRowIs
  <2>2. Core(b, t) /\ SameWorkElsewhere(s, t, r)
    BY CancelRowCore
  <2>3. claim \notin s.retiring
    BY <1>2, <1>a DEF LedgerSound, Working
  <2>4. IsFiniteSet(t.retiring) /\ Cardinality(t.retiring) = Cardinality(s.retiring) + 1
    <3> HIDE DEF claim
    <3>1. /\ IsFiniteSet(s.retiring \cup {claim})
          /\ Cardinality(s.retiring \cup {claim}) =
               IF claim \in s.retiring THEN Cardinality(s.retiring)
                                       ELSE Cardinality(s.retiring) + 1
      BY <1>a, FS_AddElement, Zenon
    <3> QED
      BY <2>1, <2>3, <3>1
  <2>5. Foreground(t) = Foreground(s) \ {r}
    BY <2>1, <2>2 DEF Foreground, SameWorkElsewhere, IsForeground
  <2>6. Cardinality(Foreground(t)) >= Cardinality(Foreground(s)) - 1
    <3>1. Cardinality(Foreground(s) \ {r}) =
            IF r \in Foreground(s) THEN Cardinality(Foreground(s)) - 1
                                   ELSE Cardinality(Foreground(s))
      BY <1>a, Charges, FS_RemoveElement, Zenon
    <3> QED
      BY <1>a, <2>5, <3>1, Charges
  <2> QED
    BY <1>a, <2>4, <2>6, Charges
<1> QED
  BY <1>1, <1>2

LEMMA CauseKept ==
  ASSUME NEW s, NEW t, NEW r, Cause(s, r), t.work[r] = None => s.work[r] = None,
         IsFiniteSet(s.retiring), IsFiniteSet(t.retiring),
         Charge(t) >= Charge(s), s.retiring \subseteq t.retiring, t.generation = s.generation
  PROVE  Cause(t, r)
<1>1. Charge(s) \in Nat /\ Charge(t) \in Nat /\ Capacity \in Nat
  BY Charges
<1>2. RetiringFor(s, r) => RetiringFor(t, r)
  BY DEF RetiringFor
<1> QED
  BY <1>1, <1>2 DEF Cause

LEMMA LoseOnePrompt ==
  ASSUME NEW b, NEW s, NEW r \in Rows, Kept(b, s), Prompt(s), NEW t, t = LoseOne(s, r)
  PROVE  Kept(b, t) /\ Prompt(t)
<1>0. Kept(b, t)
  BY LoseOneKept, KeptIsButNone
<1>a. s \in SchedulerStates /\ RowSound(s, r) /\ RowListed(s, r) /\ Core(b, s) /\ LedgerSound(s)
  BY DEF Kept, RowsSound, Core
<1>1. CASE s.demand[r] = None \/ s.done[r] = 0 \/ r \notin Supported
  <2>1. t = s
    BY <1>1 DEF LoseOne
  <2> QED
    BY <1>0, <2>1
<1>2. CASE ~ (s.demand[r] = None \/ s.done[r] = 0 \/ r \notin Supported)
  <2> DEFINE c == CancelRow(s, r)
             m == [c EXCEPT !.done[r] = 0, !.blocked = @ \cup {r}]
  <2>0. t = RefreshDemandTier(m, r)
    BY <1>2 DEF LoseOne
  <2> HIDE DEF c
  <2>1. /\ Core(b, c) /\ SameDemand(s, c) /\ c.work[r] = None
        /\ SameWorkElsewhere(s, c, r) /\ c.activeNearby \subseteq s.activeNearby
        /\ c.activeBackground \in {None, s.activeBackground} /\ s.retiring \subseteq c.retiring
    BY <1>a, CancelRowCore DEF c
  <2>2. Charge(c) >= Charge(s)
    BY <1>a, CancelCharge DEF c
  <2>b. c \in SchedulerStates
    BY <2>1 DEF Core
  <2>3. [c.done EXCEPT ![r] = 0] \in [Rows -> Buckets \cup {0}]
    BY <2>b, StateOf
  <2>4. m \in SchedulerStates
    BY <2>b, <2>3, StateOf DEF SchedulerStates
  <2>5. /\ SameLedger(c, m) /\ m.high = c.high /\ m.nearby = c.nearby
        /\ m.blocked = c.blocked \cup {r}
    BY <2>b DEF SchedulerStates, SameLedger
  <2> HIDE DEF m
  <2>6. t \in SchedulerStates /\ Relists(m, t, r) /\ RowListed(t, r)
    BY <2>0, <2>4, RefreshIs
  <2>7. SameLedger(c, t)
    BY <2>5, <2>6 DEF Relists, SameLedger
  <2>8. r \notin s.high /\ r \notin s.nearby
    BY <1>2, <1>a DEF RowSound, RowListed, Waits
  <2>9. r \notin t.high /\ r \notin t.nearby
    <3>1. r \in t.blocked
      BY <2>5, <2>6 DEF Relists
    <3> QED
      BY <2>6, <3>1 DEF RowListed, Waits
  <2>10. t.high = s.high /\ t.nearby = s.nearby
    <3>1. \A q \in Rows \ {r} :
            (q \in t.high <=> q \in s.high) /\ (q \in t.nearby <=> q \in s.nearby)
      BY <2>1, <2>5, <2>6 DEF Relists, SameDemand
    <3>2. /\ t.high \in SUBSET Rows /\ s.high \in SUBSET Rows
          /\ t.nearby \in SUBSET Rows /\ s.nearby \in SUBSET Rows
      BY <1>a, <2>6, StateOf
    <3> QED
      BY <2>8, <2>9, <3>1, <3>2
  <2>11. /\ t.activeNearby \subseteq s.activeNearby
         /\ t.activeBackground \in {None, s.activeBackground}
         /\ s.retiring \subseteq t.retiring /\ t.generation = s.generation
    BY <2>1, <2>7 DEF SameLedger, SameDemand
  <2>12. Charge(t) = Charge(c)
    BY <2>7 DEF Charge, SameLedger
  <2>13. \A q \in Rows \ {r} : t.work[q] = s.work[q]
    BY <2>1, <2>7 DEF SameLedger, SameWorkElsewhere
  <2>14. IsFiniteSet(t.retiring) /\ IsFiniteSet(s.retiring)
    BY <1>0, <1>a DEF Kept, Core, LedgerSound
  <2>15. \A q \in Rows \ {r} : Cause(s, q) => Cause(t, q)
    BY <2>2, <2>11, <2>12, <2>13, <2>14, CauseKept
  <2>16. s.high \in SUBSET Rows /\ s.nearby \in SUBSET Rows
    BY <1>a, StateOf
  <2>17. (\A q \in t.high : Cause(t, q)) /\ (t.high = {} => \A q \in t.nearby : Cause(t, q))
    BY <2>8, <2>10, <2>15, <2>16 DEF Prompt
  <2> QED
    BY <1>0, <2>10, <2>11, <2>17 DEF Prompt
<1> QED
  BY <1>1, <1>2

LEMMA LoseResidencyKept ==
  ASSUME NEW b, NEW s, NEW S, Kept(b, s), Prompt(s), NEW t, t = LoseResidency(s, S)
  PROVE  Kept(b, t) /\ Prompt(t)
<1> DEFINE X == {x \in SchedulerStates : Kept(b, x) /\ Prompt(x)}
           G == [p \in X \X Rows |-> LoseOne(p[1], p[2])]
           Body(f) == [r \in 0 .. LastRow |-> IF r = 0 THEN s
                         ELSE IF r \in S THEN LoseOne(f[r - 1], r) ELSE f[r - 1]]
           up == CHOOSE f : f = Body(f)
<1>0. s \in X /\ \A x \in X, r \in Rows : LoseOne(x, r) \in X
  BY LoseOnePrompt DEF Kept, Core
<1> HIDE DEF X
<1>1. G \in [X \X Rows -> X] /\ \A x \in X, r \in Rows : G[<<x, r>>] = LoseOne(x, r)
  BY <1>0
<1> HIDE DEF G
<1>2. PICK h \in [0 .. LastRow -> X] : Builds(h, G, s, S)
  BY <1>0, <1>1, LoopExists
<1>3. h = Body(h)
  <2>1. \A r \in 0 .. LastRow : h[r] = Body(h)[r]
    BY <1>1, <1>2, RowsAre DEF Builds
  <2> QED
    BY <2>1
<1>4. up = Body(up)
  BY <1>3, Zenon
<1>5. t = up[LastRow]
  BY DEF ForEach, LoseResidency
<1> HIDE DEF up
<1>6. up[0] = s
  <2>1. 0 \in 0 .. LastRow
    BY RowsAssumption
  <2> QED
    BY <1>4, <2>1
<1>7. \A r \in Rows : up[r - 1] \in X => up[r] = IF r \in S THEN G[<<up[r - 1], r>>] ELSE up[r - 1]
  BY <1>1, <1>4, RowsAre
<1>8. Climbs(up, X, G, s, S)
  BY <1>6, <1>7 DEF Climbs
<1>9. up[LastRow] \in X
  BY <1>0, <1>1, <1>8, LoopStays
<1> QED
  BY <1>5, <1>9 DEF X

LEMMA ReleaseBlocksKept ==
  ASSUME NEW b, NEW s, NEW S, Kept(b, s), NEW t, t = ForEach(ReleaseBlock, s, S)
  PROVE  Kept(b, t)
<1> DEFINE X == {x \in SchedulerStates : Kept(b, x)}
           G == [p \in X \X Rows |-> ReleaseBlock(p[1], p[2])]
           Body(f) == [r \in 0 .. LastRow |-> IF r = 0 THEN s
                         ELSE IF r \in S THEN ReleaseBlock(f[r - 1], r) ELSE f[r - 1]]
           up == CHOOSE f : f = Body(f)
<1>0. s \in X /\ \A x \in X, r \in Rows : ReleaseBlock(x, r) \in X
  <2>1. ASSUME NEW x, NEW r \in Rows, Kept(b, x) PROVE Kept(b, ReleaseBlock(x, r))
    BY <2>1, ReleaseBlockKept, KeptIsButNone
  <2> QED
    BY <2>1 DEF Kept, Core
<1> HIDE DEF X
<1>1. G \in [X \X Rows -> X] /\ \A x \in X, r \in Rows : G[<<x, r>>] = ReleaseBlock(x, r)
  BY <1>0
<1> HIDE DEF G
<1>2. PICK h \in [0 .. LastRow -> X] : Builds(h, G, s, S)
  BY <1>0, <1>1, LoopExists
<1>3. h = Body(h)
  <2>1. \A r \in 0 .. LastRow : h[r] = Body(h)[r]
    BY <1>1, <1>2, RowsAre DEF Builds
  <2> QED
    BY <2>1
<1>4. up = Body(up)
  BY <1>3, Zenon
<1>5. t = up[LastRow]
  BY DEF ForEach
<1> HIDE DEF up
<1>6. up[0] = s
  <2>1. 0 \in 0 .. LastRow
    BY RowsAssumption
  <2> QED
    BY <1>4, <2>1
<1>7. \A r \in Rows : up[r - 1] \in X => up[r] = IF r \in S THEN G[<<up[r - 1], r>>] ELSE up[r - 1]
  BY <1>1, <1>4, RowsAre
<1>8. Climbs(up, X, G, s, S)
  BY <1>6, <1>7 DEF Climbs
<1>9. up[LastRow] \in X
  BY <1>0, <1>1, <1>8, LoopStays
<1> QED
  BY <1>5, <1>9 DEF X

LEMMA ExpireDemandsKept ==
  ASSUME NEW b, NEW s, NEW S, Kept(b, s), NEW t, t = ForEach(ExpireDemand, s, S)
  PROVE  Kept(b, t)
<1> DEFINE X == {x \in SchedulerStates : Kept(b, x)}
           G == [p \in X \X Rows |-> ExpireDemand(p[1], p[2])]
           Body(f) == [r \in 0 .. LastRow |-> IF r = 0 THEN s
                         ELSE IF r \in S THEN ExpireDemand(f[r - 1], r) ELSE f[r - 1]]
           up == CHOOSE f : f = Body(f)
<1>0. s \in X /\ \A x \in X, r \in Rows : ExpireDemand(x, r) \in X
  <2>1. ASSUME NEW x, NEW r \in Rows, Kept(b, x) PROVE Kept(b, ExpireDemand(x, r))
    <3>1. KeptBut(b, ExpireDemand(x, r), {} \ {r})
      BY <2>1, ExpireDemandKept, KeptIsButNone
    <3>2. KeptBut(b, ExpireDemand(x, r), {})
      BY <3>1, KeptMore
    <3> QED
      BY <3>2, KeptIsButNone
  <2> QED
    BY <2>1 DEF Kept, Core
<1> HIDE DEF X
<1>1. G \in [X \X Rows -> X] /\ \A x \in X, r \in Rows : G[<<x, r>>] = ExpireDemand(x, r)
  BY <1>0
<1> HIDE DEF G
<1>2. PICK h \in [0 .. LastRow -> X] : Builds(h, G, s, S)
  BY <1>0, <1>1, LoopExists
<1>3. h = Body(h)
  <2>1. \A r \in 0 .. LastRow : h[r] = Body(h)[r]
    BY <1>1, <1>2, RowsAre DEF Builds
  <2> QED
    BY <2>1
<1>4. up = Body(up)
  BY <1>3, Zenon
<1>5. t = up[LastRow]
  BY DEF ForEach
<1> HIDE DEF up
<1>6. up[0] = s
  <2>1. 0 \in 0 .. LastRow
    BY RowsAssumption
  <2> QED
    BY <1>4, <2>1
<1>7. \A r \in Rows : up[r - 1] \in X => up[r] = IF r \in S THEN G[<<up[r - 1], r>>] ELSE up[r - 1]
  BY <1>1, <1>4, RowsAre
<1>8. Climbs(up, X, G, s, S)
  BY <1>6, <1>7 DEF Climbs
<1>9. up[LastRow] \in X
  BY <1>0, <1>1, <1>8, LoopStays
<1> QED
  BY <1>5, <1>9 DEF X

AcceptDemands(s, S, demands) == ForEach(LAMBDA x, r : AcceptDemand(x, r, demands[r]), s, S)

LEMMA AcceptDemandsKept ==
  ASSUME NEW b, NEW s, NEW S \in SUBSET Rows, Kept(b, s), b.generation # 0, NEW demands,
         \A r \in S : demands[r] \in Demands,
         NEW t, t = AcceptDemands(s, S, demands)
  PROVE  Kept(b, t)
<1> DEFINE X == {x \in SchedulerStates : Kept(b, x)}
           G == [p \in X \X Rows |-> IF p[2] \in S THEN AcceptDemand(p[1], p[2], demands[p[2]])
                                                   ELSE p[1]]
           Body(f) == [r \in 0 .. LastRow |-> IF r = 0 THEN s
                         ELSE IF r \in S THEN AcceptDemand(f[r - 1], r, demands[r]) ELSE f[r - 1]]
           up == CHOOSE f : f = Body(f)
<1>0. s \in X /\ \A x \in X, r \in S : AcceptDemand(x, r, demands[r]) \in X
  <2>1. ASSUME NEW x, NEW r \in S, Kept(b, x) PROVE Kept(b, AcceptDemand(x, r, demands[r]))
    <3>1. x.generation # 0
      BY <2>1 DEF Kept, Core, Decided
    <3> QED
      BY <2>1, <3>1, AcceptDemandKept, KeptIsButNone
  <2> QED
    BY <2>1 DEF Kept, Core
<1> HIDE DEF X
<1>1. /\ G \in [X \X Rows -> X]
      /\ \A x \in X, r \in S : G[<<x, r>>] = AcceptDemand(x, r, demands[r])
  BY <1>0
<1> HIDE DEF G
<1>2. PICK h \in [0 .. LastRow -> X] : Builds(h, G, s, S)
  BY <1>0, <1>1, LoopExists
<1>3. h = Body(h)
  <2>1. \A r \in 0 .. LastRow : h[r] = Body(h)[r]
    BY <1>1, <1>2, RowsAre DEF Builds
  <2> QED
    BY <2>1
<1>4. up = Body(up)
  BY <1>3, Zenon
<1>5. t = up[LastRow]
  BY DEF ForEach, AcceptDemands
<1> HIDE DEF up
<1>6. up[0] = s
  <2>1. 0 \in 0 .. LastRow
    BY RowsAssumption
  <2> QED
    BY <1>4, <2>1
<1>7. \A r \in Rows : up[r - 1] \in X => up[r] = IF r \in S THEN G[<<up[r - 1], r>>] ELSE up[r - 1]
  BY <1>1, <1>4, RowsAre
<1>8. Climbs(up, X, G, s, S)
  BY <1>6, <1>7 DEF Climbs
<1>9. up[LastRow] \in X
  BY <1>0, <1>1, <1>8, LoopStays
<1> QED
  BY <1>5, <1>9 DEF X

-----------------------------------------------------------------------------
(* The candidates of the background sweep.                                 *)

LEMMA Products ==
  ASSUME NEW a \in Nat, NEW m \in Nat, NEW n \in Nat, a >= 1, m >= n
  PROVE  a * m \in Nat /\ a * n \in Nat /\ a * m >= a * n
<1>1. PICK d \in Nat : m = n + d
  <2>1. m - n \in Nat /\ m = n + (m - n)
    OBVIOUS
  <2> QED
    BY <2>1
<1>2. a * m = a * n + a * d
  BY <1>1
<1>3. a * n \in Nat /\ a * d \in Nat
  OBVIOUS
<1> QED
  BY <1>2, <1>3

LEMMA CandidatesAre == Candidates \in Nat /\ Candidates >= 1
<1>1. LastRow \in Nat /\ LastBucket \in Nat /\ 1 \in Nat /\ LastRow >= 1 /\ LastBucket >= 1
  BY RowsAssumption
<1>2. LastRow * LastBucket \in Nat /\ LastRow * LastBucket >= LastRow * 1
  BY <1>1, Products
<1>3. LastRow * 1 = LastRow
  BY <1>1
<1> QED
  BY <1>1, <1>2, <1>3 DEF Candidates

LEMMA CandidateIs ==
  ASSUME NEW c \in 0 .. Candidates - 1
  PROVE  CandidateRow(c) \in Rows /\ CandidateBucket(c) \in Buckets
<1>1. LastRow \in Nat /\ LastBucket \in Nat /\ LastRow >= 1 /\ LastBucket >= 1
  BY RowsAssumption
<1>2. c \in Nat /\ c < LastRow * LastBucket
  BY CandidatesAre DEF Candidates
<1> DEFINE q == c \div LastRow
           m == c % LastRow
<1>3. m \in Nat /\ m < LastRow /\ q \in Nat /\ c = LastRow * q + m
  BY <1>1, <1>2
<1> HIDE DEF q, m
<1>4. q < LastBucket
  <2> SUFFICES ASSUME ~ (q < LastBucket) PROVE FALSE
    OBVIOUS
  <2>1. q >= LastBucket
    BY <1>1, <1>3
  <2>2. LastRow * q \in Nat /\ LastRow * LastBucket \in Nat
          /\ LastRow * q >= LastRow * LastBucket
    BY <1>1, <1>3, <2>1, Products
  <2> DEFINE x == LastRow * q
             y == LastRow * LastBucket
  <2>3. x \in Nat /\ y \in Nat /\ x >= y /\ c < y /\ c = x + m
    BY <1>2, <1>3, <2>2
  <2> HIDE DEF x, y
  <2> QED
    BY <1>2, <1>3, <2>3
<1>5. m + 1 \in Rows
  BY <1>1, <1>3 DEF Rows
<1>6. q + 1 \in Buckets
  BY <1>1, <1>3, <1>4 DEF Buckets
<1> QED
  BY <1>5, <1>6 DEF CandidateRow, CandidateBucket, q, m

LEMMA CandidateAtIs ==
  ASSUME NEW s \in SchedulerStates, NEW k \in Nat
  PROVE  CandidateAt(s, k) \in 0 .. Candidates - 1
<1>1. s.cursor \in Nat /\ Candidates \in Nat /\ Candidates >= 1
  <2>1. s.cursor \in 0 .. Candidates - 1
    BY StateOf
  <2> QED
    BY <2>1, CandidatesAre
<1> DEFINE n == Candidates
           x == s.cursor + k
<1> HIDE DEF n
<1>2. n \in Nat /\ n >= 1 /\ x \in Nat
  BY <1>1 DEF n
<1> HIDE DEF x
<1>3. x % n \in 0 .. n - 1
  BY <1>2
<1> QED
  BY <1>3 DEF CandidateAt, n, x

LEMMA PassedIs ==
  ASSUME NEW s \in SchedulerStates, NEW n \in Nat, n <= s.remaining, NEW t, t = Passed(s, n)
  PROVE  /\ t \in SchedulerStates /\ SameLedger(s, t) /\ SameDemand(s, t)
         /\ t.outstanding = s.outstanding
<1> DEFINE cursor == CandidateAt(s, n)
           remaining == s.remaining - n
           u == [s EXCEPT !.cursor = cursor, !.remaining = remaining]
<1>1. t = u
  BY DEF Passed
<1>2. cursor \in 0 .. Candidates - 1
  BY CandidateAtIs
<1>3. remaining \in 0 .. Candidates
  <2>1. s.remaining \in 0 .. Candidates
    BY StateOf
  <2> QED
    BY <2>1, CandidatesAre
<1> HIDE DEF cursor, remaining
<1>4. u \in SchedulerStates
  BY <1>2, <1>3 DEF SchedulerStates
<1>5. SameLedger(s, u) /\ SameDemand(s, u) /\ u.outstanding = s.outstanding
  BY DEF SchedulerStates, SameLedger, SameDemand
<1> QED
  BY <1>1, <1>4, <1>5

\* An effect that is neither a start nor a cancel nor of the rows.
LEMMA AppendCore ==
  ASSUME NEW b, NEW s, NEW t, Core(b, s), t \in SchedulerStates, NEW e,
         e.kind \in {"continue", "accept"},
         t.effects = Append(s.effects, e), t.generation = s.generation, t.work = s.work,
         t.retiring = s.retiring, t.activeNearby = s.activeNearby,
         t.activeBackground = s.activeBackground
  PROVE  Core(b, t)
<1>a. s \in SchedulerStates /\ LedgerSound(s) /\ Decided(b, s) /\ ActiveListed(s)
  BY DEF Core
<1>1. Ledger(t) = Ledger(s) /\ Working(t) = Working(s) /\ Places(t) = Places(s)
  BY DEF Ledger, Working, Places
<1>2. \A c : Holds(t, c) <=> Holds(s, c)
  BY <1>1 DEF Holds
<1>3. LedgerSound(t)
  BY <1>1, <1>a DEF LedgerSound
<1>4. ActiveListed(t)
  BY <1>a DEF ActiveListed
<1> DEFINE n == Len(s.effects) + 1
<1>5. /\ DOMAIN t.effects = DOMAIN s.effects \cup {n} /\ n \notin DOMAIN s.effects
      /\ \A i \in DOMAIN s.effects : t.effects[i] = s.effects[i]
      /\ t.effects[n] = e
  BY <1>a, StateOf, Appended
<1>6. /\ \A i : Starts(t, i) => Starts(s, i) /\ t.effects[i] = s.effects[i]
      /\ \A i : Cancels(t, i) => Cancels(s, i) /\ t.effects[i] = s.effects[i]
  BY <1>5 DEF Starts, Cancels
<1>7. \A i \in DOMAIN t.effects : t.effects[i].kind # "rows"
  BY <1>a, <1>5 DEF Decided
<1> HIDE DEF n
<1>8. \A i : Starts(t, i) =>
        Holds(t, t.effects[i].work) /\ \A c \in Ledger(b) : c.id # t.effects[i].work.id
  <2> TAKE i
  <2> HAVE Starts(t, i)
  <2>1. Starts(s, i) /\ t.effects[i] = s.effects[i]
    BY <1>6
  <2> QED
    BY <1>a, <1>2, <2>1 DEF Decided
<1>9. \A i : Cancels(t, i) =>
        /\ \E c \in t.retiring : c.id = t.effects[i].id
        /\ \A c \in b.retiring : c.id # t.effects[i].id
  <2> TAKE i
  <2> HAVE Cancels(t, i)
  <2>1. Cancels(s, i) /\ t.effects[i] = s.effects[i]
    BY <1>6
  <2> QED
    BY <1>a, <2>1 DEF Decided
<1>10. \A i, j : Starts(t, i) /\ Starts(t, j) /\ i # j
                  => t.effects[i].work.id # t.effects[j].work.id
  <2> TAKE i, j
  <2> HAVE Starts(t, i) /\ Starts(t, j) /\ i # j
  <2>1. /\ Starts(s, i) /\ t.effects[i] = s.effects[i]
        /\ Starts(s, j) /\ t.effects[j] = s.effects[j]
    BY <1>6
  <2> QED
    BY <1>a, <2>1 DEF Decided
<1>11. \A i, j : Cancels(t, i) /\ Cancels(t, j) /\ i # j => t.effects[i].id # t.effects[j].id
  <2> TAKE i, j
  <2> HAVE Cancels(t, i) /\ Cancels(t, j) /\ i # j
  <2>1. /\ Cancels(s, i) /\ t.effects[i] = s.effects[i]
        /\ Cancels(s, j) /\ t.effects[j] = s.effects[j]
    BY <1>6
  <2> QED
    BY <1>a, <2>1 DEF Decided
<1>12. t.generation = b.generation /\ b.retiring \subseteq t.retiring
         /\ \A c \in Ledger(b) : Holds(t, c)
  BY <1>a, <1>2 DEF Decided
<1>13. \A c \in t.retiring : c \in b.retiring \/ c.generation = t.generation
  BY <1>a DEF Decided
<1>14. Decided(b, t)
  BY <1>7, <1>8, <1>9, <1>10, <1>11, <1>12, <1>13 DEF Decided
<1> QED
  BY <1>3, <1>4, <1>14 DEF Core

-----------------------------------------------------------------------------
(* Admission.                                                              *)

Fewer(s, t) ==  \* the same demands, and less or the same work of the lower tiers
  /\ SameDemand(s, t)
  /\ t.activeNearby \subseteq s.activeNearby
  /\ t.activeBackground \in {None, s.activeBackground}
  /\ s.retiring \subseteq t.retiring

LEMMA CancelRowFewer ==
  ASSUME NEW b, NEW s, NEW r \in Rows, Kept(b, s), NEW t, t = CancelRow(s, r)
  PROVE  /\ Kept(b, t) /\ Fewer(s, t) /\ t.work[r] = None
         /\ \A q \in Rows : s.work[q] = None => t.work[q] = None
<1>1. Core(b, s) /\ s \in SchedulerStates
  BY DEF Kept, Core
<1>2. /\ SameDemand(s, t) /\ t.work[r] = None /\ SameWorkElsewhere(s, t, r)
      /\ t.activeNearby \subseteq s.activeNearby
      /\ t.activeBackground \in {None, s.activeBackground}
      /\ s.retiring \subseteq t.retiring
  BY <1>1, CancelRowCore
<1>3. Kept(b, t)
  BY CancelRowKept, KeptIsButNone
<1> QED
  BY <1>2, <1>3 DEF Fewer, SameWorkElsewhere

CancelRows(s, S) == ForEach(CancelRow, s, S)

LEMMA CancelRowsKept ==
  ASSUME NEW b, NEW s, NEW S, Kept(b, s), NEW t, t = CancelRows(s, S)
  PROVE  Kept(b, t) /\ Fewer(s, t) /\ \A r \in Rows : r \in S => t.work[r] = None
<1> DEFINE X == {x \in SchedulerStates : Kept(b, x) /\ Fewer(s, x)}
           P == {p \in X \X Rows : p[1].work[p[2]] = None}
           G == [p \in X \X Rows |-> CancelRow(p[1], p[2])]
           Body(f) == [r \in 0 .. LastRow |-> IF r = 0 THEN s
                         ELSE IF r \in S THEN CancelRow(f[r - 1], r) ELSE f[r - 1]]
           up == CHOOSE f : f = Body(f)
<1>a. ASSUME NEW x \in X, NEW r \in Rows
      PROVE  /\ CancelRow(x, r) \in X /\ CancelRow(x, r).work[r] = None
             /\ \A q \in Rows : x.work[q] = None => CancelRow(x, r).work[q] = None
  <2>1. PICK y : y = CancelRow(x, r)
    OBVIOUS
  <2>2. /\ Kept(b, y) /\ Fewer(x, y) /\ y.work[r] = None
        /\ \A q \in Rows : x.work[q] = None => y.work[q] = None
    BY <2>1, CancelRowFewer
  <2>3. Fewer(s, y)
    BY <2>2 DEF Fewer, SameDemand
  <2> QED
    BY <2>1, <2>2, <2>3 DEF Kept, Core
<1>0. s \in X
  BY DEF Kept, Core, Fewer, SameDemand
<1> HIDE DEF X
<1>1. G \in [X \X Rows -> X] /\ \A x \in X, r \in Rows : G[<<x, r>>] = CancelRow(x, r)
  BY <1>a
<1> HIDE DEF G
<1>2. PICK h \in [0 .. LastRow -> X] : Builds(h, G, s, S)
  BY <1>0, <1>1, LoopExists
<1>3. h = Body(h)
  <2>1. \A r \in 0 .. LastRow : h[r] = Body(h)[r]
    BY <1>1, <1>2, RowsAre DEF Builds
  <2> QED
    BY <2>1
<1>4. up = Body(up)
  BY <1>3, Zenon
<1>5. t = up[LastRow]
  BY DEF ForEach, CancelRows
<1> HIDE DEF up
<1>6. up[0] = s
  <2>1. 0 \in 0 .. LastRow
    BY RowsAssumption
  <2> QED
    BY <1>4, <2>1
<1>7. \A r \in Rows : up[r - 1] \in X => up[r] = IF r \in S THEN G[<<up[r - 1], r>>] ELSE up[r - 1]
  BY <1>1, <1>4, RowsAre
<1>8. Climbs(up, X, G, s, S)
  BY <1>6, <1>7 DEF Climbs
<1>9. Settles(X, G, S, P)
  BY <1>1, <1>a DEF Settles
<1> HIDE DEF P
<1>11. up[LastRow] \in X /\ Settled(s, up[LastRow], S, P)
  BY <1>0, <1>1, <1>8, <1>9, LoopResult
<1>12. \A q \in Rows : q \in S => up[LastRow].work[q] = None
  BY <1>11 DEF P, Settled
<1> QED
  BY <1>5, <1>11, <1>12 DEF X

\* A row that waits can be started, unless it works or its canceled work does.
LEMMA WaitsAre ==
  ASSUME NEW b, NEW s, Kept(b, s), NEW r \in s.high \cup s.nearby
  PROVE  /\ r \in Rows /\ s.demand[r] # None /\ r \notin s.blocked /\ s.generation # 0
         /\ r \in Supported
         /\ ~Startable(s, r) => Cause(s, r)
         /\ r \in s.high => TierFor(s, r, s.demand[r]) # "nearby"
         /\ s.demand[r].bucket \in Buckets /\ TierFor(s, r, s.demand[r]) \in Tiers \ {"background"}
<1>1. s \in SchedulerStates
  BY DEF Kept, Core
<1>2. r \in Rows
  BY <1>1, StateOf
<1>3. RowSound(s, r) /\ RowListed(s, r)
  BY <1>2 DEF Kept, RowsSound
<1>4. s.demand[r] # None /\ r \notin s.blocked /\ ~DemandComplete(s, r)
  BY <1>3 DEF RowListed, Waits
<1>5. r \in Supported /\ s.generation # 0
  BY <1>3, <1>4 DEF RowSound
<1>6. ~Startable(s, r) => Cause(s, r)
  BY <1>4, <1>5 DEF Startable, Cause
<1>7. r \in s.high => TierFor(s, r, s.demand[r]) # "nearby"
  BY <1>3 DEF RowListed, IsHigh
<1>8. s.demand[r].bucket \in Buckets
  BY <1>1, <1>2, <1>4, StateOf DEF Demands
<1>9. TierFor(s, r, s.demand[r]) \in Tiers \ {"background"}
  BY <1>1, <1>2, <1>4, TierIs DEF Tiers
<1> QED
  BY <1>2, <1>4, <1>5, <1>6, <1>7, <1>8, <1>9

LEMMA OnlyForeground ==
  ASSUME NEW b, NEW s, Core(b, s), s.activeBackground = None
  PROVE  Working(s) = Foreground(s) /\ Places(s) = Charge(s)
<1>1. \A r \in Rows : ~ (s.work[r] # None /\ s.work[r].tier = "background")
  BY RowsAre DEF Core, ActiveListed
<1>2. Working(s) = Foreground(s)
  BY <1>1 DEF Working, Foreground, IsForeground
<1>3. IsFiniteSet(s.retiring)
  BY DEF Core, LedgerSound
<1>4. Charge(s) = Cardinality(s.retiring) + Cardinality(Foreground(s))
  BY <1>3, Charges
<1> QED
  BY <1>2, <1>4 DEF Places

LEMMA StartForegroundKept ==
  ASSUME NEW b, NEW s, Kept(b, s), NEW r \in s.high \cup s.nearby, s.activeBackground = None,
         Startable(s, r), Charge(s) < Capacity, NEW t, t = StartForeground(s, r)
  PROVE  /\ Kept(b, t) /\ SameDemand(s, t)
         /\ t.activeBackground = None
         /\ r \in s.high => t.activeNearby = s.activeNearby
         /\ t.retiring = s.retiring
         /\ \A q \in Rows : Cause(s, q) => Cause(t, q)
         /\ Cause(t, r)
<1> DEFINE tier == TierFor(s, r, s.demand[r])
           bucket == s.demand[r].bucket
<1>1. /\ r \in Rows /\ s.demand[r] # None /\ r \notin s.blocked /\ s.generation # 0
      /\ r \in s.high => tier # "nearby"
      /\ bucket \in Buckets /\ tier \in Tiers \ {"background"}
  BY WaitsAre
<1>2. Core(b, s) /\ IsFiniteSet(s.retiring) /\ RowSound(s, r)
  BY <1>1 DEF Kept, Core, LedgerSound, RowsSound
<1>3. s.work[r] = None /\ ~RetiringFor(s, r)
  BY DEF Startable
<1>4. Places(s) < Capacity
  BY <1>2, OnlyForeground
<1>5. t = Start(s, r, tier, bucket)
  BY DEF StartForeground
<1> HIDE DEF tier, bucket
<1>s. /\ Core(b, t)
      /\ SameDemand(s, t)
      /\ t.work[r] # None /\ t.work[r].tier = tier /\ t.work[r].bucket = bucket
      /\ t.retiring = s.retiring
      /\ Started(s, t, r, tier)
  <2>1. tier \in Tiers /\ bucket \in Buckets /\ (tier = "background" => s.activeBackground = None)
    BY <1>1
  <2>2. r \in Rows
    BY <1>1
  <2> QED
    BY <1>2, <1>3, <1>4, <1>5, <2>1, <2>2, StartCore
<1>6. /\ Core(b, t)
      /\ SameDemand(s, t)
      /\ t.work[r] # None /\ t.work[r].tier = tier /\ t.work[r].bucket = bucket
      /\ t.retiring = s.retiring
      /\ \A q \in Rows \ {r} : t.work[q] = s.work[q]
      /\ t.activeNearby = IF tier = "nearby" THEN s.activeNearby \cup {r} ELSE s.activeNearby
      /\ t.activeBackground = IF tier = "background" THEN r ELSE s.activeBackground
  BY <1>s DEF Started, SameWorkElsewhere
<1>7. RowSound(t, r)
  BY <1>1, <1>2, <1>6 DEF RowSound, SameDemand, DemandComplete, bucket
<1>8. RowListed(t, r)
  <2>1. RowListed(s, r)
    BY <1>1 DEF Kept, RowsSound
  <2> QED
    BY <1>6, <2>1 DEF RowListed, SameDemand, DemandComplete, Waits, IsHigh, TierFor
<1>9. \A q \in Rows \ {r} : SameRow(s, t, q)
  BY <1>6 DEF SameRow, SameDemand
<1>10. KeptBut(b, t, {} \ {r})
  <2>1. KeptBut(b, s, {})
    BY KeptIsButNone
  <2>2. t.generation = s.generation /\ t.armed = s.armed
    BY <1>6 DEF SameDemand
  <2> QED
    BY <1>1, <1>6, <1>7, <1>8, <1>9, <2>1, <2>2, RowStep
<1>11. Kept(b, t)
  <2>1. KeptBut(b, t, {})
    BY <1>10, KeptMore
  <2> QED
    BY <2>1, KeptIsButNone
<1>12. Charge(t) >= Charge(s) /\ IsFiniteSet(t.retiring)
  <2>1. Foreground(s) \in SUBSET Foreground(t)
    BY <1>3, <1>6 DEF Foreground, IsForeground
  <2>2. IsFiniteSet(Foreground(t)) /\ IsFiniteSet(t.retiring)
    BY <1>2, <1>6, Charges
  <2>3. Cardinality(Foreground(s)) <= Cardinality(Foreground(t))
    BY <2>1, <2>2, FS_Subset
  <2> QED
    BY <1>2, <1>6, <2>2, <2>3, Charges
<1>13. \A q \in Rows : Cause(s, q) => Cause(t, q)
  <2> TAKE q \in Rows
  <2> HAVE Cause(s, q)
  <2>1. t.work[q] = None => s.work[q] = None
    BY <1>6
  <2>2. t.generation = s.generation /\ s.retiring \subseteq t.retiring
    BY <1>6 DEF SameDemand
  <2> QED
    BY <1>2, <1>12, <2>1, <2>2, CauseKept
<1> QED
  BY <1>1, <1>6, <1>11, <1>13 DEF Cause

Quiet(s, t) ==  \* more work of the demands, but no background work
  SameDemand(s, t) /\ t.activeBackground = None

LEMMA StartWhileFreeKept ==
  ASSUME NEW b, NEW s, Kept(b, s), s.activeBackground = None,
    NEW S \in SUBSET (s.high \cup s.nearby),
         NEW t, t = StartWhileFree(s, S)
  PROVE  /\ Kept(b, t) /\ Quiet(s, t)
         /\ S \subseteq s.high => t.activeNearby = s.activeNearby
         /\ \A q \in Rows : q \in S \/ Cause(s, q) => Cause(t, q)
<1> DEFINE X == {x \in SchedulerStates :
                   /\ Kept(b, x) /\ Quiet(s, x)
                   /\ S \subseteq s.high => x.activeNearby = s.activeNearby}
           P == {p \in X \X Rows : Cause(p[1], p[2])}
           Op(x, r) == IF Charge(x) < Capacity /\ Startable(x, r) THEN StartForeground(x, r) ELSE x
           G == [p \in X \X Rows |-> IF p[2] \in S THEN Op(p[1], p[2]) ELSE p[1]]
           Body(f) == [r \in 0 .. LastRow |-> IF r = 0 THEN s
                         ELSE IF r \in S THEN Op(f[r - 1], r) ELSE f[r - 1]]
           up == CHOOSE f : f = Body(f)
<1>a. ASSUME NEW x \in X, NEW r \in S
      PROVE  /\ Op(x, r) \in X /\ Cause(Op(x, r), r)
             /\ \A q \in Rows : Cause(x, q) => Cause(Op(x, r), q)
  <2>1. Kept(b, x) /\ SameDemand(s, x) /\ x.activeBackground = None
    BY DEF Quiet
  <2>2. r \in x.high \cup x.nearby
    BY <2>1 DEF SameDemand
  <2>3. CASE Charge(x) < Capacity /\ Startable(x, r)
    <3>1. PICK y : y = StartForeground(x, r)
      OBVIOUS
    <3>2. /\ Kept(b, y) /\ SameDemand(x, y)
          /\ y.activeBackground = None
          /\ r \in x.high => y.activeNearby = x.activeNearby
          /\ \A q \in Rows : Cause(x, q) => Cause(y, q)
          /\ Cause(y, r)
      BY <2>1, <2>2, <2>3, <3>1, StartForegroundKept
    <3>3. Quiet(s, y)
      BY <2>1, <3>2 DEF Quiet, SameDemand
    <3>4. S \subseteq s.high => y.activeNearby = s.activeNearby
      BY <2>1, <3>2 DEF SameDemand
    <3>5. y \in SchedulerStates
      BY <3>2 DEF Kept, Core
    <3>6. Op(x, r) = y
      BY <2>3, <3>1
    <3> HIDE DEF Op
    <3> QED
      BY <3>2, <3>3, <3>4, <3>5, <3>6
  <2>4. CASE ~ (Charge(x) < Capacity /\ Startable(x, r))
    <3>1. Op(x, r) = x
      BY <2>4
    <3>2. Charge(x) \in Nat /\ Capacity \in Nat
      <4>1. IsFiniteSet(x.retiring)
        BY <2>1 DEF Kept, Core, LedgerSound
      <4> QED
        BY <4>1, Charges
    <3>3. Cause(x, r)
      <4>1. CASE ~Startable(x, r)
        BY <2>1, <2>2, <4>1, WaitsAre
      <4>2. CASE Charge(x) >= Capacity
        BY <4>2 DEF Cause
      <4> QED
        BY <2>4, <3>2, <4>1, <4>2
    <3> QED
      BY <3>1, <3>3
  <2> QED
    BY <2>3, <2>4
<1>0. s \in X
  BY DEF Kept, Core, Quiet, SameDemand
<1>r. S \subseteq Rows
  <2>1. s \in SchedulerStates
    BY DEF Kept, Core
  <2> QED
    BY <2>1, StateOf
<1>5. t = up[LastRow]
  BY DEF ForEach, StartWhileFree
<1> HIDE DEF X, Op
<1>1. G \in [X \X Rows -> X] /\ \A x \in X, r \in Rows : r \in S => G[<<x, r>>] = Op(x, r)
  BY <1>a
<1> HIDE DEF G
<1>2. PICK h \in [0 .. LastRow -> X] : Builds(h, G, s, S)
  BY <1>0, <1>1, LoopExists
<1>3. h = Body(h)
  <2>1. \A r \in 0 .. LastRow : h[r] = Body(h)[r]
    BY <1>1, <1>2, RowsAre DEF Builds
  <2> QED
    BY <2>1
<1>4. up = Body(up)
  BY <1>3, Zenon
<1> HIDE DEF up
<1>6. up[0] = s
  <2>1. 0 \in 0 .. LastRow
    BY RowsAssumption
  <2> QED
    BY <1>4, <2>1
<1>7. \A r \in Rows : up[r - 1] \in X => up[r] = IF r \in S THEN G[<<up[r - 1], r>>] ELSE up[r - 1]
  BY <1>1, <1>4, RowsAre
<1>8. Climbs(up, X, G, s, S)
  BY <1>6, <1>7 DEF Climbs
<1>9. Settles(X, G, S, P)
  <2> SUFFICES ASSUME NEW x \in X, NEW r \in Rows, r \in S
               PROVE  /\ <<G[<<x, r>>], r>> \in P
                      /\ \A q \in Rows : <<x, q>> \in P => <<G[<<x, r>>], q>> \in P
    BY DEF Settles
  <2> QED
    BY <1>1, <1>a
<1> HIDE DEF P
<1>11. up[LastRow] \in X /\ Settled(s, up[LastRow], S, P)
  BY <1>0, <1>1, <1>8, <1>9, LoopResult
<1>12. \A q \in Rows : q \in S \/ Cause(s, q) => Cause(up[LastRow], q)
  BY <1>0, <1>11 DEF P, Settled
<1> QED
  BY <1>5, <1>11, <1>12 DEF X

\* The current row starts, or a lower one of the tier makes room for it.
LEMMA AdmitCurrentKept ==
  ASSUME NEW b, NEW s, Kept(b, s), s.activeBackground = None, NEW t, t = AdmitCurrent(s)
  PROVE  /\ Kept(b, t) /\ Quiet(s, t)
         /\ t.activeNearby \subseteq s.activeNearby
         /\ s.current \in s.high => Cause(t, s.current)
<1>1. s \in SchedulerStates /\ IsFiniteSet(s.retiring)
  BY DEF Kept, Core, LedgerSound
<1>2. Charge(s) \in Nat /\ Capacity \in Nat
  BY <1>1, Charges
<1> DEFINE displaceable == {r \in s.high \ {s.current} :
                              s.work[r] # None /\ s.work[r].tier = "visible"}
           last == CHOOSE r \in displaceable : \A x \in displaceable : x <= r
<1>3. CASE s.current \notin s.high \/ ~Startable(s, s.current)
  <2>1. t = s
    BY <1>3 DEF AdmitCurrent
  <2>2. s.current \in s.high => Cause(s, s.current)
    BY <1>3, WaitsAre
  <2> QED
    BY <2>1, <2>2 DEF Quiet, SameDemand
<1>4. CASE s.current \in s.high /\ Startable(s, s.current) /\ Charge(s) < Capacity
  <2>1. t = StartForeground(s, s.current)
    BY <1>4 DEF AdmitCurrent
  <2>2. /\ Kept(b, t) /\ SameDemand(s, t)
        /\ t.activeBackground = None
        /\ t.activeNearby = s.activeNearby
        /\ Cause(t, s.current)
    <3>1. PICK r \in s.high \cup s.nearby : r = s.current /\ r \in s.high
      BY <1>4
    <3> QED
      BY <1>4, <2>1, <3>1, StartForegroundKept
  <2> QED
    BY <2>2 DEF Quiet
<1>5. CASE s.current \in s.high /\ Startable(s, s.current) /\ ~ (Charge(s) < Capacity)
  <2>1. t = IF displaceable = {} THEN s ELSE CancelRow(s, last)
    BY <1>5 DEF AdmitCurrent
  <2>2. Charge(s) >= Capacity
    BY <1>2, <1>5
  <2>3. CASE displaceable = {}
    BY <2>1, <2>2, <2>3 DEF Quiet, SameDemand, Cause
  <2>4. CASE displaceable # {}
    <3>1. displaceable \in SUBSET Rows
      BY <1>1, StateOf
    <3> HIDE DEF displaceable
    <3>2. \E r \in displaceable : \A x \in displaceable : x <= r
      <4> DEFINE T == {LastRow - x : x \in displaceable}
      <4>1. T \in SUBSET Nat /\ T # {}
        <5>1. \A x \in Rows : LastRow - x \in Nat
          BY RowsAre DEF Rows
        <5> QED
          BY <2>4, <3>1, <5>1
      <4> HIDE DEF T
      <4>2. PICK m \in T : \A k \in T : m <= k
        BY <4>1, Least
      <4>3. PICK r \in displaceable : m = LastRow - r
        BY <4>2 DEF T
      <4>4. ASSUME NEW x \in displaceable PROVE x <= r
        <5>1. LastRow - r <= LastRow - x
          BY <4>2, <4>3 DEF T
        <5>2. x \in Nat /\ r \in Nat /\ LastRow \in Nat
          BY <3>1, RowsAre
        <5> QED
          BY <5>1, <5>2
      <4> QED
        BY <4>4
    <3>3. last \in displaceable
      BY <3>2
    <3> HIDE DEF last
    <3>4. PICK r \in Rows : r = last
      BY <3>1, <3>3
    <3>5. t = CancelRow(s, r)
      BY <2>1, <2>4, <3>4
    <3>6. Kept(b, t) /\ Fewer(s, t)
      BY <3>5, CancelRowFewer
    <3>7. Charge(t) >= Charge(s)
      BY <3>5, CancelCharge DEF Kept
    <3>8. Charge(t) \in Nat
      <4>1. IsFiniteSet(t.retiring)
        BY <3>6 DEF Kept, Core, LedgerSound
      <4> QED
        BY <4>1, Charges
    <3>9. Cause(t, s.current)
      BY <1>2, <2>2, <3>7, <3>8 DEF Cause
    <3> QED
      BY <3>6, <3>9 DEF Quiet, Fewer
  <2> QED
    BY <2>3, <2>4
<1> QED
  BY <1>3, <1>4, <1>5

LEMMA CancelBackgroundKept ==
  ASSUME NEW b, NEW s, Kept(b, s), NEW t, t = CancelBackground(s)
  PROVE  Kept(b, t) /\ Fewer(s, t) /\ t.activeBackground = None
<1>1. CASE s.activeBackground = None
  BY <1>1 DEF CancelBackground, Fewer, SameDemand
<1>2. CASE s.activeBackground # None
  <2>1. s \in SchedulerStates /\ ActiveListed(s)
    BY DEF Kept, Core
  <2>2. PICK r \in Rows : r = s.activeBackground
    BY <1>2, <2>1, StateOf
  <2>3. t = CancelRow(s, r)
    BY <1>2, <2>2 DEF CancelBackground
  <2>4. Kept(b, t) /\ Fewer(s, t) /\ t.work[r] = None
    BY <2>3, CancelRowFewer
  <2>5. t.activeBackground = None
    <3>1. ActiveListed(t)
      BY <2>4 DEF Kept, Core
    <3> QED
      BY <2>2, <2>4, <3>1 DEF ActiveListed, Fewer
  <2> QED
    BY <2>4, <2>5
<1> QED
  BY <1>1, <1>2

LEMMA AdmitHighKept ==
  ASSUME NEW b, NEW s, Kept(b, s), s.high # {}, NEW t, t = AdmitHigh(s)
  PROVE  Kept(b, t) /\ Prompt(t)
<1>1. PICK first : first = CancelRows(s, s.activeNearby)
  OBVIOUS
<1>2. /\ Kept(b, first) /\ Fewer(s, first)
      /\ \A r \in Rows : r \in s.activeNearby => first.work[r] = None
  BY <1>1, CancelRowsKept
<1>3. first.activeNearby = {}
  <2>1. ActiveListed(first) /\ first \in SchedulerStates
    BY <1>2 DEF Kept, Core
  <2>2. first.activeNearby \in SUBSET Rows /\ first.activeNearby \subseteq s.activeNearby
    BY <1>2, <2>1, StateOf DEF Fewer
  <2> QED
    BY <1>2, <2>1, <2>2 DEF ActiveListed
<1>4. PICK second : second = CancelBackground(first)
  OBVIOUS
<1>5. Kept(b, second) /\ Fewer(first, second) /\ second.activeBackground = None
  BY <1>2, <1>4, CancelBackgroundKept
<1>6. PICK alone : alone = AdmitCurrent(second)
  OBVIOUS
<1>7. /\ Kept(b, alone) /\ Quiet(second, alone)
      /\ alone.activeNearby \subseteq second.activeNearby
      /\ second.current \in second.high => Cause(alone, second.current)
  BY <1>5, <1>6, AdmitCurrentKept
<1>8. /\ alone.activeNearby = {} /\ alone.activeBackground = None
      /\ alone.high = s.high /\ alone.current = second.current
      /\ alone.high = second.high
  BY <1>2, <1>3, <1>5, <1>7 DEF Fewer, Quiet, SameDemand
<1>9. PICK S \in SUBSET (alone.high \cup alone.nearby) :
        S = alone.high \ {alone.current} /\ S \subseteq alone.high
  OBVIOUS
<1>10. t = StartWhileFree(alone, S)
  BY <1>1, <1>4, <1>6, <1>9 DEF AdmitHigh, CancelRows
<1>11. /\ Kept(b, t) /\ Quiet(alone, t)
       /\ S \subseteq alone.high => t.activeNearby = alone.activeNearby
       /\ \A q \in Rows : q \in S \/ Cause(alone, q) => Cause(t, q)
  BY <1>7, <1>8, <1>10, StartWhileFreeKept
<1>12. t.high = alone.high /\ t.activeBackground = None /\ t.activeNearby = {}
  BY <1>8, <1>9, <1>11 DEF Quiet, SameDemand
<1>13. ASSUME NEW r \in t.high PROVE Cause(t, r)
  <2>1. r \in Rows
    <3>1. t \in SchedulerStates
      BY <1>11 DEF Kept, Core
    <3> QED
      BY <3>1, StateOf
  <2>2. r \in S \/ Cause(alone, r)
    BY <1>7, <1>8, <1>9, <1>12
  <2> QED
    BY <1>11, <2>1, <2>2
<1> QED
  BY <1>8, <1>11, <1>12, <1>13 DEF Prompt

\* Nothing waits and nothing works: the next wanted candidate starts.
LEMMA AdmitBackgroundKept ==
  ASSUME NEW b, NEW s, Kept(b, s), s.armed, s.activeBackground = None, Charge(s) = 0,
         NEW t, t = AdmitBackground(s)
  PROVE  Kept(b, t) /\ t.high = s.high /\ t.nearby = s.nearby
<1>1. /\ s \in SchedulerStates /\ Core(b, s) /\ IsFiniteSet(s.retiring) /\ s.generation # 0
      /\ KeptBut(b, s, {})
  BY KeptIsButNone DEF Kept, Core, LedgerSound, RowsSound
<1> DEFINE reach == IF s.remaining < ScanBudget THEN s.remaining ELSE ScanBudget
           wanted == {k \in 0 .. reach - 1 : BackgroundWanted(s, CandidateAt(s, k))}
           first == CHOOSE k \in wanted : \A j \in wanted : k <= j
           found == CandidateAt(s, first)
           swept == Passed(s, reach)
<1>2. reach \in Nat /\ reach <= s.remaining
  <2>1. s.remaining \in 0 .. Candidates
    BY <1>1, StateOf
  <2>2. s.remaining \in Nat /\ ScanBudget \in Nat
    BY <2>1, CandidatesAre, CapacityAssumption
  <2> QED
    BY <2>2
<1>3. t = CASE wanted # {} -> Start(Passed(s, first + 1), CandidateRow(found), "background",
                                    CandidateBucket(found))
            [] wanted = {} /\ swept.remaining = 0 -> [swept EXCEPT !.armed = FALSE]
            [] wanted = {} /\ swept.remaining > 0 /\ s.outstanding -> swept
            [] OTHER -> [swept EXCEPT !.outstanding = TRUE,
                           !.effects = Append(@, [kind |-> "continue", epoch |-> s.generation])]
  BY DEF AdmitBackground
<1> HIDE DEF reach
<1>4. /\ swept \in SchedulerStates /\ SameLedger(s, swept) /\ SameDemand(s, swept)
      /\ KeptBut(b, swept, {}) /\ swept.generation = s.generation
  <2>1. swept \in SchedulerStates /\ SameLedger(s, swept) /\ SameDemand(s, swept)
    BY <1>1, <1>2, PassedIs
  <2> HIDE DEF swept
  <2>2. \A q \in Rows : SameRow(s, swept, q)
    BY <2>1 DEF SameRow, SameLedger, SameDemand
  <2>3. swept.generation = s.generation
    BY <2>1 DEF SameDemand
  <2> QED
    BY <1>1, <2>1, <2>2, <2>3, KeptFrame
<1> HIDE DEF swept
<1>5. CASE wanted # {}
  <2>1. wanted \in SUBSET Nat
    BY <1>2
  <2> HIDE DEF wanted
  <2>2. \E k \in wanted : \A j \in wanted : k <= j
    BY <1>5, <2>1, Least
  <2>3. first \in wanted
    BY <2>2
  <2> HIDE DEF first
  <2> USE DEF wanted
  <2>4. first \in Nat /\ first + 1 \in Nat /\ first + 1 <= s.remaining
    <3>1. s.remaining \in Nat
      <4>1. s.remaining \in 0 .. Candidates
        BY <1>1, StateOf
      <4> QED
        BY <4>1, CandidatesAre
    <3>2. first \in 0 .. reach - 1
      BY <2>3
    <3> QED
      BY <1>2, <3>1, <3>2
  <2>5. BackgroundWanted(s, found)
    BY <2>3
  <2> HIDE DEF wanted
  <2>6. PICK r, bucket : r = CandidateRow(found) /\ bucket = CandidateBucket(found)
    OBVIOUS
  <2>7. r \in Rows /\ bucket \in Buckets
    BY <1>1, <2>4, <2>6, CandidateAtIs, CandidateIs
  <2>8. r \notin s.blocked /\ ~RetiringFor(s, r)
    BY <2>5, <2>6 DEF BackgroundWanted
  <2> HIDE DEF found
  <2>9. PICK p : p = Passed(s, first + 1)
    OBVIOUS
  <2>10. p \in SchedulerStates /\ SameLedger(s, p) /\ SameDemand(s, p)
    BY <1>1, <2>4, <2>9, PassedIs
  <2>11. Core(b, p)
    BY <1>1, <2>10, CoreFrame
  <2>12. Working(p) = {} /\ p.retiring = {} /\ p.activeBackground = None
    <3>1. Working(s) = Foreground(s) /\ Places(s) = Charge(s)
      BY <1>1, OnlyForeground
    <3>2. /\ Charge(s) = Cardinality(s.retiring) + Cardinality(Foreground(s))
          /\ Cardinality(s.retiring) \in Nat /\ Cardinality(Foreground(s)) \in Nat
          /\ IsFiniteSet(Foreground(s))
      BY <1>1, Charges
    <3>3. Cardinality(s.retiring) = 0 /\ Cardinality(Foreground(s)) = 0
      BY <3>2
    <3>4. s.retiring = {} /\ Foreground(s) = {}
      BY <1>1, <3>2, <3>3, FS_EmptySet
    <3> QED
      BY <2>10, <3>1, <3>4 DEF Working, SameLedger
  <2>13. Places(p) < Capacity
    BY <2>12, FS_EmptySet, CapacityAssumption DEF Places
  <2>14. p.work[r] = None /\ ~RetiringFor(p, r)
    BY <2>7, <2>12 DEF Working, RetiringFor
  <2>15. t = Start(p, r, "background", bucket)
    BY <1>3, <1>5, <2>6, <2>9
  <2>16. /\ Core(b, t)
         /\ SameDemand(p, t)
         /\ t.work[r] # None /\ t.work[r].tier = "background"
         /\ Started(p, t, r, "background")
    <3>1. "background" \in Tiers
      BY DEF Tiers
    <3> QED
      BY <2>7, <2>11, <2>12, <2>13, <2>14, <2>15, <3>1, StartCore
  <2>17. RowSound(s, r) /\ RowListed(s, r)
    BY <1>1, <2>7 DEF Kept, RowsSound
  <2>18. SameDemand(s, t)
    BY <2>10, <2>16 DEF SameDemand
  <2>19. RowSound(t, r)
    BY <1>1, <2>8, <2>16, <2>17, <2>18 DEF RowSound, SameDemand, DemandComplete, IsForeground
  <2>20. RowListed(t, r)
    BY <2>17, <2>18 DEF RowListed, SameDemand, DemandComplete, Waits, IsHigh, TierFor
  <2>21. \A q \in Rows \ {r} : SameRow(s, t, q)
    BY <2>10, <2>16, <2>18 DEF SameRow, SameDemand, SameLedger, Started, SameWorkElsewhere
  <2>22. t.generation = s.generation /\ t.armed = s.armed
    BY <2>18 DEF SameDemand
  <2>23. KeptBut(b, t, {} \ {r})
    BY <1>1, <2>7, <2>16, <2>19, <2>20, <2>21, <2>22, RowStep
  <2>24. KeptBut(b, t, {})
    BY <2>23, KeptMore
  <2> QED
    BY <2>18, <2>24, KeptIsButNone DEF SameDemand
<1>6. CASE wanted = {} /\ swept.remaining = 0
  <2>1. t = [swept EXCEPT !.armed = FALSE]
    BY <1>3, <1>6
  <2>2. t \in SchedulerStates
    BY <1>4, <2>1 DEF SchedulerStates
  <2>3. SameLedger(swept, t) /\ t.high = swept.high /\ t.nearby = swept.nearby
    BY <1>4, <2>1 DEF SchedulerStates, SameLedger
  <2>4. \A q \in Rows : SameRow(swept, t, q)
    BY <1>4, <2>1 DEF SchedulerStates, SameRow
  <2>5. t.generation # 0
    BY <1>1, <1>4, <2>3 DEF SameLedger
  <2>6. KeptBut(b, t, {})
    BY <1>4, <2>2, <2>3, <2>4, <2>5, KeptFrame
  <2> QED
    BY <1>4, <2>3, <2>6, KeptIsButNone DEF SameDemand
<1>7. CASE wanted = {} /\ swept.remaining > 0 /\ s.outstanding
  <2>1. swept.remaining # 0
    <3>1. swept.remaining \in 0 .. Candidates
      BY <1>4, StateOf
    <3> QED
      BY <1>7, <3>1, CandidatesAre
  <2>2. t = swept
    BY <1>3, <1>7, <2>1
  <2> QED
    BY <1>4, <2>2, KeptIsButNone DEF SameDemand
<1>8. CASE wanted = {} /\ swept.remaining # 0 /\ ~ (swept.remaining > 0 /\ s.outstanding)
  <2>1. PICK e : e = [kind |-> "continue", epoch |-> s.generation]
    OBVIOUS
  <2>2. t = [swept EXCEPT !.outstanding = TRUE, !.effects = Append(@, e)]
    BY <1>3, <1>8, <2>1
  <2>3. e \in Effects /\ e.kind \in {"continue", "accept"}
    BY <1>1, <2>1, StateOf DEF Effects
  <2>4. Append(swept.effects, e) \in Seq(Effects)
    BY <1>4, <2>3, StateOf
  <2>5. t \in SchedulerStates
    <3>1. PICK effs : effs = Append(swept.effects, e)
      OBVIOUS
    <3>2. t = [swept EXCEPT !.outstanding = TRUE, !.effects = effs]
      BY <2>2, <3>1
    <3>3. effs \in Seq(Effects)
      BY <2>4, <3>1
    <3>4. PICK m : m = [swept EXCEPT !.outstanding = TRUE]
      OBVIOUS
    <3>5. m \in SchedulerStates
      BY <1>4, <3>4 DEF SchedulerStates
    <3>6. t = [m EXCEPT !.effects = effs]
      BY <1>4, <3>2, <3>4 DEF SchedulerStates
    <3> QED
      BY <3>3, <3>5, <3>6 DEF SchedulerStates
  <2>6. t.effects = Append(swept.effects, e) /\ SameDemand(swept, t)
    BY <1>4, <2>2 DEF SchedulerStates, SameDemand
  <2>7. /\ t.generation = swept.generation /\ t.work = swept.work
        /\ t.retiring = swept.retiring /\ t.activeNearby = swept.activeNearby
        /\ t.activeBackground = swept.activeBackground
    BY <1>4, <2>2 DEF SchedulerStates
  <2>8. Core(b, t)
    BY <1>4, <2>3, <2>5, <2>6, <2>7, AppendCore DEF KeptBut
  <2>9. \A q \in Rows : SameRow(swept, t, q)
    BY <2>6, <2>7 DEF SameRow, SameDemand
  <2>10. \A q \in Rows : RowSound(t, q) /\ RowStale(t, q) /\ RowListed(t, q)
    BY <1>4, <2>7, <2>9, RowFrame DEF KeptBut
  <2>11. t.generation # 0
    BY <1>1, <1>4, <2>7
  <2>12. Kept(b, t)
    BY <2>8, <2>10, <2>11 DEF Kept, RowsSound
  <2> QED
    BY <1>4, <2>6, <2>12 DEF SameDemand
<1> QED
  BY <1>5, <1>6, <1>7, <1>8

\* No admission is forgotten.
LEMMA AdmitKept ==
  ASSUME NEW b, NEW s, Kept(b, s), NEW t, t = Admit(s)
  PROVE  Kept(b, t) /\ Prompt(t)
<1>1. CASE s.high # {}
  <2>1. t = AdmitHigh(s)
    BY <1>1 DEF Admit
  <2> QED
    BY <1>1, <2>1, AdmitHighKept
<1>2. CASE s.high = {} /\ s.nearby # {}
  <2>1. PICK c : c = CancelBackground(s)
    OBVIOUS
  <2>2. Kept(b, c) /\ Fewer(s, c) /\ c.activeBackground = None
    BY <2>1, CancelBackgroundKept
  <2>3. PICK S \in SUBSET (c.high \cup c.nearby) : S = s.nearby /\ S = c.nearby
    BY <2>2 DEF Fewer, SameDemand
  <2>4. t = StartWhileFree(c, S)
    BY <1>2, <2>1, <2>3 DEF Admit
  <2>5. /\ Kept(b, t) /\ Quiet(c, t)
        /\ \A q \in Rows : q \in S \/ Cause(c, q) => Cause(t, q)
    BY <2>2, <2>4, StartWhileFreeKept
  <2>6. t.high = {} /\ t.nearby = S /\ t.activeBackground = None
    BY <1>2, <2>2, <2>3, <2>5 DEF Quiet, Fewer, SameDemand
  <2>7. S \in SUBSET Rows
    <3>1. t \in SchedulerStates
      BY <2>5 DEF Kept, Core
    <3> QED
      BY <2>6, <3>1, StateOf
  <2> QED
    BY <2>5, <2>6, <2>7 DEF Prompt
<1>3. CASE s.high \cup s.nearby = {}
  <2>1. t = IF s.armed /\ s.activeBackground = None /\ Charge(s) = 0 THEN AdmitBackground(s) ELSE s
    BY <1>3 DEF Admit
  <2>2. Kept(b, t) /\ t.high = s.high /\ t.nearby = s.nearby
    BY <2>1, AdmitBackgroundKept
  <2> QED
    BY <1>3, <2>2 DEF Prompt
<1> QED
  BY <1>1, <1>2, <1>3

-----------------------------------------------------------------------------
(* The operations.                                                         *)

LEMMA ArmSweepKept ==
  ASSUME NEW b, NEW s, Kept(b, s), NEW t, t = ArmSweep(s)
  PROVE  Kept(b, t)
<1>1. s \in SchedulerStates /\ KeptBut(b, s, {})
  BY KeptIsButNone DEF Kept, Core
<1> DEFINE armed == s.generation # 0
           remaining == IF s.generation # 0 THEN Candidates ELSE 0
<1>2. t = [s EXCEPT !.armed = armed, !.remaining = remaining]
  BY DEF ArmSweep
<1>3. armed \in BOOLEAN /\ remaining \in 0 .. Candidates
  BY CandidatesAre
<1> HIDE DEF remaining
<1>4. t \in SchedulerStates
  BY <1>1, <1>2, <1>3 DEF SchedulerStates
<1>5. SameLedger(s, t) /\ t.armed = armed
  BY <1>1, <1>2 DEF SchedulerStates, SameLedger
<1>6. \A q \in Rows : SameRow(s, t, q)
  BY <1>1, <1>2 DEF SchedulerStates, SameRow
<1>7. t.generation = 0 => ~t.armed
  BY <1>5 DEF SameLedger
<1>8. KeptBut(b, t, {})
  BY <1>1, <1>4, <1>5, <1>6, <1>7, KeptFrame
<1> QED
  BY <1>8, KeptIsButNone

LEMMA SetCurrentNumberKept ==
  ASSUME NEW b, NEW s, Kept(b, s), NEW r \in Rows \cup {0}, NEW t, t = SetCurrentNumber(s, r)
  PROVE  Kept(b, t) /\ Prompt(t)
<1> DEFINE left == s.current
           moved == [s EXCEPT !.current = r]
           expires == left \notin {0, r} /\ s.demand[left] # None /\ left \notin s.reported
           behind == CASE left \in {0, r} -> moved
                       [] OTHER -> IF expires THEN ExpireDemand(moved, left)
                                              ELSE Reclassify(moved, left)
           before == IF r \in {0, left} THEN behind ELSE Reclassify(ReleaseBlock(behind, r), r)
<1>1. t = Admit(before)
  BY DEF SetCurrentNumber
<1>2. s \in SchedulerStates /\ KeptBut(b, s, {}) /\ Core(b, s) /\ left \in Rows \cup {0}
  BY KeptIsButNone, StateOf DEF Kept, Core
<1>3. moved \in SchedulerStates /\ SameLedger(s, moved) /\ moved.current = r
  BY <1>2 DEF SchedulerStates, SameLedger
<1>4. /\ moved.demand = s.demand /\ moved.done = s.done /\ moved.blocked = s.blocked
      /\ moved.high = s.high /\ moved.nearby = s.nearby /\ moved.armed = s.armed
  BY <1>2 DEF SchedulerStates
<1> HIDE DEF moved
<1>5. Core(b, moved)
  BY <1>2, <1>3, CoreFrame
<1>6. KeptBut(b, moved, {left, r})
  <2>1. ASSUME NEW q \in Rows PROVE RowSound(moved, q) /\ RowStale(moved, q)
    <3>1. RowSound(s, q) /\ RowStale(s, q)
      BY <1>2 DEF KeptBut
    <3>2. moved.work = s.work /\ moved.generation = s.generation
      BY <1>3 DEF SameLedger
    <3>3. RowSound(moved, q)
      BY <1>4, <3>1, <3>2 DEF RowSound, DemandComplete
    <3>4. RowStale(moved, q)
      BY <1>4, <3>1, <3>2 DEF RowStale, Waits, DemandComplete
    <3> QED
      BY <3>3, <3>4
  <2>2. ASSUME NEW q \in Rows, q \notin {left, r} PROVE RowListed(moved, q)
    <3>1. RowListed(s, q)
      BY <1>2 DEF KeptBut
    <3>2. SameRow(s, moved, q) /\ moved.generation = s.generation
      BY <1>3, <1>4, <2>2 DEF SameRow, SameLedger
    <3> QED
      BY <3>1, <3>2, RowFrame
  <2>3. moved.generation = 0 => ~moved.armed
    BY <1>2, <1>3, <1>4 DEF KeptBut, SameLedger
  <2> QED
    BY <1>5, <2>1, <2>2, <2>3 DEF KeptBut
<1>7. CASE r = left
  <2>1. \A q \in Rows : SameRow(s, moved, q)
    BY <1>3, <1>4, <1>7 DEF SameRow, SameLedger
  <2>2. moved.generation = 0 => ~moved.armed
    BY <1>6 DEF KeptBut
  <2>3. KeptBut(b, moved, {})
    BY <1>2, <1>3, <2>1, <2>2, KeptFrame
  <2>4. before = moved
    BY <1>7
  <2> QED
    BY <1>1, <2>3, <2>4, AdmitKept, KeptIsButNone
<1>8. CASE r # left
  <2>1. KeptBut(b, behind, {r})
    <3>1. CASE left = 0
      <4>1. behind = moved
        BY <3>1
      <4>2. {left, r} \cap Rows \subseteq {r}
        BY <3>1, RowsAre
      <4> QED
        BY <1>6, <4>1, <4>2, KeptMore
    <3>2. CASE left # 0
      <4>1. behind = ExpireDemand(moved, left) \/ behind = Reclassify(moved, left)
        BY <1>8, <3>2
      <4> HIDE DEF behind
      <4>2. PICK l \in Rows : l = left
        BY <1>2, <3>2
      <4>3. KeptBut(b, moved, {l, r})
        BY <1>6, <4>2
      <4>4. KeptBut(b, behind, {l, r} \ {l})
        BY <4>1, <4>2, <4>3, ExpireDemandKept, ReclassifyKept
      <4>5. ({l, r} \ {l}) \cap Rows \subseteq {r}
        OBVIOUS
      <4> QED
        BY <4>4, <4>5, KeptMore
    <3> QED
      BY <3>1, <3>2
  <2>2. before = IF r = 0 THEN behind ELSE Reclassify(ReleaseBlock(behind, r), r)
    BY <1>8
  <2> HIDE DEF before, behind
  <2>3. KeptBut(b, before, {})
    <3>1. CASE r = 0
      <4>1. {r} \cap Rows \subseteq {}
        BY <3>1, RowsAre
      <4>2. KeptBut(b, behind, {})
        BY <2>1, <4>1, KeptMore
      <4> QED
        BY <2>2, <3>1, <4>2
    <3>2. CASE r # 0
      <4>1. PICK q \in Rows : q = r
        BY <3>2
      <4>2. PICK u : u = ReleaseBlock(behind, q)
        OBVIOUS
      <4>3. KeptBut(b, u, {q})
        BY <2>1, <4>1, <4>2, ReleaseBlockKept
      <4>4. before = Reclassify(u, q)
        BY <2>2, <3>2, <4>1, <4>2
      <4>5. KeptBut(b, before, {q} \ {q})
        BY <4>3, <4>4, ReclassifyKept
      <4>6. ({q} \ {q}) \cap Rows \subseteq {}
        OBVIOUS
      <4> QED
        BY <4>5, <4>6, KeptMore
    <3> QED
      BY <3>1, <3>2
  <2> QED
    BY <1>1, <2>3, AdmitKept, KeptIsButNone
<1> QED
  BY <1>7, <1>8

LEMMA ReplaceDemandKept ==
  ASSUME NEW b, NEW s, Kept(b, s), b.generation # 0,
         NEW demands \in [Rows -> Demands \cup {None}], NEW t, t = ReplaceDemand(s, demands)
  PROVE  Kept(b, t) /\ Prompt(t)
<1>1. PICK facts \in SUBSET Rows : facts = {r \in Rows : demands[r] # None}
  OBVIOUS
<1>2. PICK missing : missing = {r \in Rows \ facts : s.demand[r] # None} \ {s.current}
  OBVIOUS
<1>3. PICK first : first = [s EXCEPT !.reported = facts]
  OBVIOUS
<1>4. PICK accepted : accepted = AcceptDemands(first, facts, demands)
  OBVIOUS
<1>5. PICK expired : expired = ForEach(ExpireDemand, accepted, missing)
  OBVIOUS
<1>6. PICK armed : armed = ArmSweep(expired)
  OBVIOUS
<1>7. t = Admit(armed)
  BY <1>1, <1>2, <1>3, <1>4, <1>5, <1>6 DEF ReplaceDemand, AcceptDemands
<1>8. Kept(b, first)
  <2>1. s \in SchedulerStates /\ KeptBut(b, s, {})
    BY KeptIsButNone DEF Kept, Core
  <2>2. first \in SchedulerStates /\ SameLedger(s, first) /\ first.armed = s.armed
    BY <1>3, <2>1 DEF SchedulerStates, SameLedger
  <2>3. \A q \in Rows : SameRow(s, first, q)
    BY <1>3, <2>1 DEF SchedulerStates, SameRow
  <2>4. first.generation = 0 => ~first.armed
    BY <2>1, <2>2 DEF KeptBut, SameLedger
  <2>5. KeptBut(b, first, {})
    BY <2>1, <2>2, <2>3, <2>4, KeptFrame
  <2> QED
    BY <2>5, KeptIsButNone
<1>9. Kept(b, accepted)
  <2>1. \A r \in facts : demands[r] \in Demands
    BY <1>1
  <2> QED
    BY <1>4, <1>8, <2>1, AcceptDemandsKept
<1>10. Kept(b, expired)
  BY <1>5, <1>9, ExpireDemandsKept
<1>11. Kept(b, armed)
  BY <1>6, <1>10, ArmSweepKept
<1> QED
  BY <1>7, <1>11, AdmitKept

LEMMA ReadmitKept ==
  ASSUME NEW b, NEW s, Kept(b, s), NEW t, t = Readmit(s)
  PROVE  Kept(b, t) /\ Prompt(t)
<1>1. PICK u : u = ForEach(ReleaseBlock, s, Rows)
  OBVIOUS
<1>2. Kept(b, u)
  BY <1>1, ReleaseBlocksKept
<1>3. t = Admit(u)
  BY <1>1 DEF Readmit
<1> QED
  BY <1>2, <1>3, AdmitKept

LEMMA RefreshRowKept ==
  ASSUME NEW b, NEW s, Kept(b, s), Prompt(s), NEW r \in Rows, NEW t, t = RefreshRow(s, r)
  PROVE  Kept(b, t) /\ Prompt(t)
<1>1. PICK u : u = ReleaseBlock(s, r)
  OBVIOUS
<1>2. Kept(b, u)
  BY <1>1, ReleaseBlockKept, KeptIsButNone
<1>3. t = Admit(u) \/ t = s
  BY <1>1 DEF RefreshRow
<1> QED
  BY <1>2, <1>3, AdmitKept

LEMMA ContinueAdmissionKept ==
  ASSUME NEW b, NEW s, Kept(b, s), Prompt(s), NEW epoch, NEW t, t = ContinueAdmission(s, epoch)
  PROVE  Kept(b, t) /\ Prompt(t)
<1>1. PICK u : u = [s EXCEPT !.outstanding = FALSE]
  OBVIOUS
<1>2. t = Admit(u) \/ t = s
  BY <1>1 DEF ContinueAdmission
<1>3. Kept(b, u)
  <2>1. s \in SchedulerStates /\ KeptBut(b, s, {})
    BY KeptIsButNone DEF Kept, Core
  <2>2. u \in SchedulerStates /\ SameLedger(s, u) /\ u.armed = s.armed
    BY <1>1, <2>1 DEF SchedulerStates, SameLedger
  <2>3. \A q \in Rows : SameRow(s, u, q)
    BY <1>1, <2>1 DEF SchedulerStates, SameRow
  <2>4. u.generation = 0 => ~u.armed
    BY <2>1, <2>2 DEF KeptBut, SameLedger
  <2>5. KeptBut(b, u, {})
    BY <2>1, <2>2, <2>3, <2>4, KeptFrame
  <2> QED
    BY <2>5, KeptIsButNone
<1> QED
  BY <1>2, <1>3, AdmitKept

-----------------------------------------------------------------------------
(* Work that ends leaves the ledger; an entry begins without it.           *)

Ends(s, b, id) ==  \* b is s without the work of this id
  /\ b.generation = s.generation
  /\ \A c \in Ledger(s) : c.id # id => Holds(b, c)
  /\ \A c \in s.retiring : c.id # id => c \in b.retiring
  /\ b.retiring \subseteq s.retiring

Fresh(b) == Kept(b, b) /\ b.effects = <<>>  \* an entry may begin here

LEMMA FreshIs ==
  ASSUME NEW b \in SchedulerStates, LedgerSound(b), ActiveListed(b), RowsSound(b), b.effects = <<>>
  PROVE  Fresh(b)
<1>1. DOMAIN b.effects = {}
  BY EmptySeq
<1>2. \A i : ~Starts(b, i) /\ ~Cancels(b, i)
  BY <1>1 DEF Starts, Cancels
<1>3. \A c \in Ledger(b) : Holds(b, c)
  BY DEF Holds, SameWork
<1>4. Decided(b, b)
  BY <1>1, <1>2, <1>3 DEF Decided
<1> QED
  BY <1>4 DEF Fresh, Kept, Core

LEMMA AcceptRetirementKept ==
  ASSUME NEW s, Fresh(s), Prompt(s), NEW id, NEW t, t = AcceptRetirement(s, id)
  PROVE  \E b : Fresh(b) /\ Ends(s, b, id) /\ Kept(b, t) /\ Prompt(t)
<1> DEFINE gone == {c \in s.retiring : c.id = id}
           b == [s EXCEPT !.retiring = @ \ gone]
<1>1. /\ Kept(s, s) /\ s \in SchedulerStates /\ LedgerSound(s) /\ ActiveListed(s) /\ RowsSound(s)
      /\ s.effects = <<>>
  BY DEF Fresh, Kept, Core
<1>2. CASE gone = {}
  <2>1. t = s
    BY <1>2 DEF AcceptRetirement
  <2>2. Ends(s, s, id)
    BY DEF Ends, Holds, SameWork
  <2> QED
    BY <1>1, <2>1, <2>2
<1>3. CASE gone # {}
  <2>1. t = Admit(ArmSweep(b))
    BY <1>3 DEF AcceptRetirement
  <2>2. b \in SchedulerStates
    <3>1. s.retiring \ gone \in SUBSET Claims
      BY <1>1, StateOf
    <3> HIDE DEF gone
    <3> QED
      BY <1>1, <3>1 DEF SchedulerStates
  <2>3. b.retiring = s.retiring \ gone /\ SameDemand(s, b) /\ b.work = s.work
    BY <1>1 DEF SchedulerStates, SameDemand
  <2>4. /\ b.activeNearby = s.activeNearby /\ b.activeBackground = s.activeBackground
        /\ b.effects = <<>>
    BY <1>1 DEF SchedulerStates
  <2> HIDE DEF b
  <2>5. Working(b) = Working(s) /\ Ledger(b) \subseteq Ledger(s) /\ b.retiring \subseteq s.retiring
    BY <2>3 DEF Working, Ledger
  <2>6. LedgerSound(b)
    <3>1. IsFiniteSet(b.retiring) /\ Cardinality(b.retiring) <= Cardinality(s.retiring)
      BY <1>1, <2>5, FS_Subset DEF LedgerSound
    <3>2. Cardinality(b.retiring) \in Nat /\ Cardinality(s.retiring) \in Nat
      BY <1>1, <3>1, FS_CardinalityType DEF LedgerSound
    <3>3. Cardinality(Working(s)) \in Nat /\ Capacity \in Nat
      BY <1>1, Charges DEF LedgerSound
    <3>4. Places(b) <= Capacity
      BY <1>1, <2>5, <3>1, <3>2, <3>3 DEF LedgerSound, Places
    <3>5. \A r \in Working(b) :
            b.work[r].row = r /\ b.work[r].generation = b.generation /\ b.work[r] \notin b.retiring
      BY <1>1, <2>3, <2>5 DEF LedgerSound, SameDemand
    <3>6. \A c, d \in Ledger(b) :
            c # d => c.id # d.id /\ (c.row # d.row \/ c.generation # d.generation)
      BY <1>1, <2>5 DEF LedgerSound
    <3>7. b.generation # 0 => \A c \in b.retiring : c.generation <= b.generation
      BY <1>1, <2>3, <2>5 DEF LedgerSound, SameDemand
    <3> QED
      BY <3>1, <3>4, <3>5, <3>6, <3>7 DEF LedgerSound
  <2>7. ActiveListed(b)
    BY <1>1, <2>3, <2>4 DEF ActiveListed
  <2>8. RowsSound(b)
    <3>1. \A q \in Rows : SameRow(s, b, q)
      BY <2>3 DEF SameRow, SameDemand
    <3>2. b.generation = s.generation /\ b.armed = s.armed
      BY <2>3 DEF SameDemand
    <3> QED
      BY <1>1, <3>1, <3>2, RowFrame DEF RowsSound
  <2>9. Fresh(b)
    BY <2>2, <2>4, <2>6, <2>7, <2>8, FreshIs
  <2>10. Ends(s, b, id)
    <3>1. \A c \in s.retiring : c.id # id => c \in b.retiring
      BY <2>3
    <3>2. \A c \in Ledger(s) : c.id # id => c \in Ledger(b)
      BY <2>3, <2>5, <3>1 DEF Ledger
    <3> QED
      BY <2>3, <2>5, <3>1, <3>2 DEF Ends, Holds, SameWork, SameDemand
  <2>11. Kept(b, t) /\ Prompt(t)
    <3>1. PICK u : u = ArmSweep(b)
      OBVIOUS
    <3>2. Kept(b, u)
      BY <2>9, <3>1, ArmSweepKept DEF Fresh
    <3> QED
      BY <2>1, <3>1, <3>2, AdmitKept
  <2> QED
    BY <2>9, <2>10, <2>11
<1> QED
  BY <1>2, <1>3

\* The row's work is over; the state is otherwise as it was.
Released(s, b, r) ==
  /\ SameDemand(s, b)
  /\ b.work[r] = None
  /\ SameWorkElsewhere(s, b, r)
  /\ b.retiring = s.retiring
  /\ WithoutActive(s, b, r)

LEMMA ReleasedFresh ==
  ASSUME NEW s, Fresh(s), NEW r \in Rows, s.work[r] # None, NEW b \in SchedulerStates,
         Released(s, b, r), b.effects = <<>>
  PROVE  Fresh(b) /\ Ends(s, b, s.work[r].id)
<1>1. s \in SchedulerStates /\ LedgerSound(s) /\ ActiveListed(s) /\ RowsSound(s)
  BY DEF Fresh, Kept, Core
<1>2. /\ SameDemand(s, b) /\ b.work[r] = None /\ b.retiring = s.retiring
      /\ \A q \in Rows \ {r} : b.work[q] = s.work[q]
  BY DEF Released, SameWorkElsewhere
<1>3. /\ b.activeNearby = IF s.work[r].tier = "nearby" THEN s.activeNearby \ {r}
                                                       ELSE s.activeNearby
      /\ b.activeBackground = IF s.work[r].tier = "background" THEN None ELSE s.activeBackground
  BY DEF Released, WithoutActive
<1>4. Working(b) = Working(s) \ {r}
  BY <1>2 DEF Working
<1>5. \A c \in Ledger(b) : c \in Ledger(s)
  BY <1>2, <1>4 DEF Ledger, Working
<1>6. \A c \in Ledger(s) : c \in Ledger(b) \/ c = s.work[r]
  BY <1>2, <1>4 DEF Ledger, Working
<1>7. LedgerSound(b)
  <2>1. IsFiniteSet(Working(s)) /\ IsFiniteSet(Working(b))
          /\ Cardinality(Working(b)) <= Cardinality(Working(s))
    <3>1. IsFiniteSet(Working(s)) /\ Working(b) \in SUBSET Working(s)
      BY <1>1, <1>4, Charges DEF LedgerSound
    <3> QED
      BY <3>1, FS_Subset
  <2>2. /\ Cardinality(Working(s)) \in Nat /\ Cardinality(Working(b)) \in Nat
        /\ Cardinality(s.retiring) \in Nat /\ Capacity \in Nat
    BY <1>1, <2>1, FS_CardinalityType, Charges DEF LedgerSound
  <2>3. Places(b) <= Capacity
    BY <1>1, <1>2, <2>1, <2>2 DEF LedgerSound, Places
  <2>4. \A q \in Working(b) :
          b.work[q].row = q /\ b.work[q].generation = b.generation /\ b.work[q] \notin b.retiring
    BY <1>1, <1>2, <1>4 DEF LedgerSound, SameDemand, Working
  <2>5. \A c, d \in Ledger(b) :
          c # d => c.id # d.id /\ (c.row # d.row \/ c.generation # d.generation)
    BY <1>1, <1>5 DEF LedgerSound
  <2>6. b.generation # 0 => \A c \in b.retiring : c.generation <= b.generation
    BY <1>1, <1>2 DEF LedgerSound, SameDemand
  <2> QED
    BY <1>1, <1>2, <2>3, <2>4, <2>5, <2>6 DEF LedgerSound
<1>8. ActiveListed(b)
  <2>1. \A q \in Rows : q \in b.activeNearby <=> b.work[q] # None /\ b.work[q].tier = "nearby"
    BY <1>1, <1>2, <1>3 DEF ActiveListed
  <2>2. \A q \in Rows : q = b.activeBackground
                          <=> b.work[q] # None /\ b.work[q].tier = "background"
    <3> TAKE q \in Rows
    <3>1. CASE q = r
      BY <1>1, <1>2, <1>3, <3>1, RowsAre DEF ActiveListed
    <3>2. CASE q # r
      BY <1>1, <1>2, <1>3, <3>2, RowsAre DEF ActiveListed
    <3> QED
      BY <3>1, <3>2
  <2> QED
    BY <2>1, <2>2 DEF ActiveListed
<1>9. RowsSound(b)
  <2>1. b.generation = s.generation /\ b.armed = s.armed
    BY <1>2 DEF SameDemand
  <2>2. \A q \in Rows \ {r} : SameRow(s, b, q)
    BY <1>2 DEF SameRow, SameDemand
  <2>3. RowSound(s, r) /\ RowListed(s, r)
    BY <1>1 DEF RowsSound
  <2>4. RowSound(b, r)
    BY <1>2, <2>3 DEF RowSound, SameDemand, DemandComplete, IsForeground
  <2>5. RowListed(b, r)
    BY <1>2, <2>3 DEF RowListed, SameDemand, DemandComplete, Waits, IsHigh, TierFor
  <2>6. \A q \in Rows : RowSound(b, q) /\ RowListed(b, q)
    BY <1>1, <2>1, <2>2, <2>4, <2>5, RowFrame DEF RowsSound
  <2> QED
    BY <1>1, <2>1, <2>6 DEF RowsSound
<1>10. Fresh(b)
  BY <1>7, <1>8, <1>9, FreshIs
<1>11. Ends(s, b, s.work[r].id)
  BY <1>2, <1>6 DEF Ends, Holds, SameWork, SameDemand
<1> QED
  BY <1>10, <1>11

LEMMA AcceptCompletionKept ==
  ASSUME NEW s, Fresh(s), Prompt(s), NEW c \in Claims, NEW result \in {"ready", "failed"},
         NEW t, t = AcceptCompletion(s, c, result)
  PROVE  \E b : Fresh(b) /\ Ends(s, b, c.id) /\ Kept(b, t) /\ Prompt(t)
<1> DEFINE r == c.row
           tier == s.work[r].tier
           near == IF tier = "nearby" THEN s.activeNearby \ {r} ELSE s.activeNearby
           back == IF tier = "background" THEN None ELSE s.activeBackground
<1>0. PICK e : e = [kind |-> "accept", row |-> r, tier |-> tier, result |-> result]
  OBVIOUS
<1>1. /\ Kept(s, s) /\ s \in SchedulerStates /\ ActiveListed(s) /\ RowsSound(s)
      /\ s.effects = <<>> /\ r \in Rows
  BY DEF Fresh, Kept, Core, Claims
<1>2. CASE ~AcceptsCompletion(s, c)
  <2>1. t = s
    BY <1>2 DEF AcceptCompletion
  <2>2. Ends(s, s, c.id)
    BY DEF Ends, Holds, SameWork
  <2> QED
    BY <1>1, <2>1, <2>2
<1>3. CASE AcceptsCompletion(s, c)
  <2>1. s.work[r] # None /\ s.work[r].id = c.id /\ s.work[r].bucket = c.bucket
    BY <1>3 DEF AcceptsCompletion
  <2>2. s.work[r] \in Claims /\ tier \in Tiers
    BY <1>1, <2>1, StateOf DEF Claims
  <2>3. RowSound(s, r) /\ RowListed(s, r) /\ r \notin s.blocked /\ s.generation # 0
    BY <1>1, <2>1 DEF RowsSound, RowSound
  <2>4. near \in SUBSET Rows /\ back \in Rows \cup {None}
    BY <1>1, StateOf
  <2>5. PICK work \in [Rows -> Claims \cup {None}] : work = [s.work EXCEPT ![r] = None]
    BY <1>1, StateOf
  <2>6. work[r] = None /\ \A q \in Rows \ {r} : work[q] = s.work[q]
    BY <1>1, <2>5, StateOf
  <2>7. e \in Effects /\ e.kind \in {"continue", "accept"} /\ Append(<<>>, e) \in Seq(Effects)
    <3>1. e \in Effects
      BY <1>0, <1>1, <2>2 DEF Effects
    <3> QED
      BY <1>0, <3>1
  <2> DEFINE b == [s EXCEPT !.work = work, !.activeNearby = near, !.activeBackground = back]
             released == [s EXCEPT !.work = work, !.activeNearby = near,
                                   !.activeBackground = back, !.blocked = @ \ {r},
                                   !.effects = Append(@, e)]
             swept == [released EXCEPT !.filled = @ \cup {<<r, c.bucket>>}, !.outstanding = TRUE]
  <2>8. t = CASE tier # "background" ->
                   Admit(RefreshDemandTier([released EXCEPT !.done[r] = c.bucket], r))
              [] OTHER -> IF s.outstanding THEN swept
                          ELSE [swept EXCEPT !.effects =
                                  Append(@, [kind |-> "continue", epoch |-> s.generation])]
    BY <1>0, <1>3, <2>5 DEF AcceptCompletion
  <2> HIDE DEF near, back, tier, r
  <2>9. b \in SchedulerStates
    BY <1>1, <2>4, <2>5 DEF SchedulerStates
  <2>10. /\ b.work = work /\ b.activeNearby = near /\ b.activeBackground = back
         /\ b.retiring = s.retiring /\ b.effects = <<>> /\ SameDemand(s, b)
    BY <1>1 DEF SchedulerStates, SameDemand
  <2> HIDE DEF b
  <2>11. Released(s, b, r)
    BY <2>6, <2>10 DEF Released, SameWorkElsewhere, WithoutActive, near, back, tier
  <2>12. Fresh(b) /\ Ends(s, b, c.id)
    BY <1>1, <2>1, <2>9, <2>10, <2>11, ReleasedFresh DEF r
  <2>13. Kept(b, b) /\ Core(b, b) /\ KeptBut(b, b, {})
    BY <2>12, KeptIsButNone DEF Fresh, Kept
  <2>14. released \in SchedulerStates
    <3>1. s.blocked \ {r} \in SUBSET Rows
      BY <1>1, StateOf
    <3>2. PICK effs \in Seq(Effects) : effs = Append(<<>>, e)
      BY <2>7
    <3>3. released = [s EXCEPT !.work = work, !.activeNearby = near, !.activeBackground = back,
                               !.blocked = s.blocked \ {r}, !.effects = effs]
      BY <1>1, <3>2
    <3> HIDE DEF released
    <3> QED
      BY <1>1, <2>4, <2>5, <3>1, <3>2, <3>3 DEF SchedulerStates
  <2>15. /\ released.work = work /\ released.activeNearby = near
         /\ released.activeBackground = back /\ released.retiring = s.retiring
         /\ released.blocked = s.blocked \ {r} /\ released.effects = Append(<<>>, e)
    BY <1>1 DEF SchedulerStates
  <2>16. /\ released.generation = s.generation /\ released.current = s.current
         /\ released.demand = s.demand /\ released.done = s.done
         /\ released.high = s.high /\ released.nearby = s.nearby /\ released.armed = s.armed
    BY <1>1 DEF SchedulerStates
  <2> HIDE DEF released
  <2>17. released.blocked = s.blocked
    BY <2>3, <2>15
  <2>18. CASE tier # "background"
    <3>1. PICK m : m = [released EXCEPT !.done[r] = c.bucket]
      OBVIOUS
    <3>2. PICK u : u = RefreshDemandTier(m, r)
      OBVIOUS
    <3>3. t = Admit(u)
      BY <2>8, <2>18, <3>1, <3>2
    <3>4. PICK done \in [Rows -> Buckets \cup {0}] : done = [s.done EXCEPT ![r] = c.bucket]
      BY <1>1, StateOf DEF Claims
    <3>5. m = [released EXCEPT !.done = done]
      BY <2>16, <3>1, <3>4
    <3>6. m \in SchedulerStates /\ m.done = done
      BY <2>14, <3>5 DEF SchedulerStates
    <3>7. /\ m.effects = released.effects /\ m.generation = released.generation
          /\ m.work = released.work /\ m.retiring = released.retiring
          /\ m.activeNearby = released.activeNearby /\ m.armed = released.armed
          /\ m.activeBackground = released.activeBackground
          /\ m.current = released.current /\ m.demand = released.demand
          /\ m.blocked = released.blocked /\ m.high = released.high
          /\ m.nearby = released.nearby
      BY <2>14, <3>5 DEF SchedulerStates
    <3>8. m.generation = b.generation /\ m.armed = b.armed
      BY <2>10, <2>16, <3>7 DEF SameDemand
    <3>9. Core(b, m)
      <4>1. m.effects = Append(b.effects, e)
        BY <2>10, <2>15, <3>7
      <4>2. /\ m.work = b.work /\ m.retiring = b.retiring /\ m.activeNearby = b.activeNearby
            /\ m.activeBackground = b.activeBackground
        BY <2>10, <2>15, <3>7
      <4> QED
        BY <2>7, <2>13, <3>6, <3>8, <4>1, <4>2, AppendCore
    <3>10. \A q \in Rows \ {r} : SameRow(b, m, q)
      <4>1. \A q \in Rows \ {r} : m.done[q] = s.done[q]
        BY <3>4, <3>6
      <4> QED
        BY <2>10, <2>15, <2>16, <2>17, <3>7, <4>1 DEF SameRow, SameDemand
    <3>11. RowSound(m, r)
      <4>1. s.demand[r] # None /\ s.work[r].bucket = s.demand[r].bucket
        BY <2>1, <2>3, <2>18 DEF RowSound, IsForeground, tier
      <4>2. s.demand[r].bucket \in Buckets
        BY <1>1, <4>1, StateOf DEF Demands, r
      <4>3. m.done[r] = c.bucket
        BY <1>1, <3>4, <3>6, StateOf DEF r
      <4>4. DemandComplete(m, r)
        <5>1. c.bucket >= s.demand[r].bucket
          BY <2>1, <4>1, <4>2 DEF Buckets
        <5> QED
          BY <2>16, <3>7, <4>1, <4>3, <5>1 DEF DemandComplete
      <4>5. m.work[r] = None /\ m.generation # 0
        BY <2>3, <2>6, <2>15, <2>16, <3>7
      <4> QED
        BY <4>4, <4>5 DEF RowSound, IsForeground
    <3>12. KeptBut(b, u, {} \ {r})
      BY <1>1, <2>13, <3>2, <3>8, <3>9, <3>10, <3>11, RefreshKept DEF r
    <3>13. Kept(b, u)
      <4>1. KeptBut(b, u, {})
        BY <3>12, KeptMore
      <4> QED
        BY <4>1, KeptIsButNone
    <3> QED
      BY <2>12, <3>3, <3>13, AdmitKept
  <2>19. CASE tier = "background"
    <3>1. s.high = {} /\ s.nearby = {}
      <4>1. s.activeBackground # None
        BY <1>1, <2>1, <2>19, RowsAre DEF ActiveListed, tier, r
      <4> QED
        BY <4>1 DEF Prompt
    <3>2. PICK filled \in SUBSET (Rows \X Buckets) : filled = s.filled \cup {<<r, c.bucket>>}
      <4>1. r \in Rows /\ c.bucket \in Buckets
        BY <1>1 DEF Claims, r
      <4>2. s.filled \in SUBSET (Rows \X Buckets)
        BY <1>1, StateOf
      <4>3. <<r, c.bucket>> \in Rows \X Buckets
        BY <4>1
      <4>4. s.filled \cup {<<r, c.bucket>>} \in SUBSET (Rows \X Buckets)
        BY <4>2, <4>3, Zenon
      <4> QED
        BY <4>4, Zenon
    <3>3. PICK u : u = [released EXCEPT !.filled = filled]
      OBVIOUS
    <3>4. u \in SchedulerStates
      BY <2>14, <3>2, <3>3 DEF SchedulerStates
    <3>5. PICK v : v = [u EXCEPT !.outstanding = TRUE]
      OBVIOUS
    <3>6. v \in SchedulerStates
      BY <3>4, <3>5 DEF SchedulerStates
    <3>7. swept = v
      <4>1. released.filled = s.filled
        BY <1>1 DEF SchedulerStates, released
      <4> QED
        BY <2>14, <3>2, <3>3, <3>5, <4>1 DEF SchedulerStates
    <3> HIDE DEF swept
    <3>8. /\ v.effects = released.effects /\ v.generation = released.generation
          /\ v.work = released.work /\ v.retiring = released.retiring
          /\ v.activeNearby = released.activeNearby /\ v.armed = released.armed
          /\ v.activeBackground = released.activeBackground
          /\ v.current = released.current /\ v.demand = released.demand
          /\ v.blocked = released.blocked /\ v.high = released.high
          /\ v.nearby = released.nearby /\ v.done = released.done
      BY <2>14, <3>3, <3>4, <3>5 DEF SchedulerStates
    <3>9. SameDemand(b, v)
      BY <2>10, <2>16, <2>17, <3>8 DEF SameDemand
    <3>10. Kept(b, v)
      <4>1. /\ v.effects = Append(b.effects, e) /\ v.generation = b.generation
            /\ v.work = b.work /\ v.retiring = b.retiring /\ v.activeNearby = b.activeNearby
            /\ v.activeBackground = b.activeBackground
        BY <2>10, <2>15, <2>16, <3>8, <3>9 DEF SameDemand
      <4>2. Core(b, v)
        BY <2>7, <2>13, <3>6, <4>1, AppendCore
      <4>3. \A q \in Rows : SameRow(b, v, q)
        BY <3>9, <4>1 DEF SameRow, SameDemand
      <4>4. v.generation = b.generation /\ v.armed = b.armed
        BY <3>9 DEF SameDemand
      <4> QED
        BY <2>13, <4>2, <4>3, <4>4, RowFrame DEF Kept, RowsSound
    <3>11. CASE s.outstanding
      <4>1. t = v
        BY <2>8, <2>19, <3>7, <3>11
      <4>2. v.high = {} /\ v.nearby = {}
        BY <2>16, <3>1, <3>8
      <4> QED
        BY <2>12, <3>10, <4>1, <4>2 DEF Prompt
    <3>12. CASE ~s.outstanding
      <4>1. PICK f : f = [kind |-> "continue", epoch |-> s.generation]
        OBVIOUS
      <4>2. t = [v EXCEPT !.effects = Append(@, f)]
        BY <2>8, <2>19, <3>7, <3>12, <4>1
      <4>3. f \in Effects /\ f.kind \in {"continue", "accept"}
        BY <1>1, <4>1, StateOf DEF Effects
      <4>4. PICK effs \in Seq(Effects) : effs = Append(v.effects, f)
        <5>1. v.effects \in Seq(Effects)
          BY <3>6, StateOf
        <5>2. Append(v.effects, f) \in Seq(Effects)
          BY <4>3, <5>1
        <5> QED
          BY <5>2
      <4>5. t = [v EXCEPT !.effects = effs]
        BY <4>2, <4>4
      <4>6. t \in SchedulerStates /\ t.effects = Append(v.effects, f)
        BY <3>6, <4>4, <4>5 DEF SchedulerStates
      <4>7. /\ t.generation = v.generation /\ t.work = v.work /\ t.retiring = v.retiring
            /\ t.activeNearby = v.activeNearby /\ t.activeBackground = v.activeBackground
            /\ SameDemand(v, t)
        BY <3>6, <4>5 DEF SchedulerStates, SameDemand
      <4>8. Core(b, t)
        BY <3>10, <4>3, <4>6, <4>7, AppendCore DEF Kept
      <4>9. Kept(b, t)
        <5>1. \A q \in Rows : SameRow(v, t, q)
          BY <4>7 DEF SameRow, SameDemand
        <5>2. t.generation = v.generation /\ t.armed = v.armed
          BY <4>7 DEF SameDemand
        <5> QED
          BY <3>10, <4>8, <5>1, <5>2, RowFrame DEF Kept, RowsSound
      <4>10. t.high = {} /\ t.nearby = {}
        BY <2>16, <3>1, <3>8, <4>7 DEF SameDemand
      <4> QED
        BY <2>12, <4>9, <4>10 DEF Prompt
    <3> QED
      BY <3>11, <3>12
  <2> QED
    BY <2>18, <2>19
<1> QED
  BY <1>2, <1>3

-----------------------------------------------------------------------------
(* Back in the stack of effects.                                           *)

Joins(e, p, q) ==
  \A i \in DOMAIN e : \/ i \in DOMAIN p /\ e[i] = p[i]
                      \/ \E k \in DOMAIN q : i = Len(p) + k /\ e[i] = q[k]

LEMMA JoinIs ==
  ASSUME NEW S, NEW p \in Seq(S), NEW q \in Seq(S), NEW e, e = p \o q
  PROVE  /\ e \in Seq(S) /\ Joins(e, p, q) /\ Len(e) = Len(p) + Len(q)
         /\ q # <<>> => e # <<>> /\ e[Len(e)] = q[Len(q)]
<1>1. /\ Len(p) \in Nat /\ Len(q) \in Nat /\ DOMAIN p = 1 .. Len(p) /\ DOMAIN q = 1 .. Len(q)
      /\ q # <<>> => Len(q) # 0
  OBVIOUS
<1>2. e \in Seq(S) /\ Len(e) = Len(p) + Len(q) /\ DOMAIN e = 1 .. Len(p) + Len(q)
  OBVIOUS
<1>3. ASSUME NEW i \in 1 .. Len(p) + Len(q)
      PROVE  e[i] = IF i <= Len(p) THEN p[i] ELSE q[i - Len(p)]
  OBVIOUS
<1>4. Joins(e, p, q)
  <2> SUFFICES ASSUME NEW i \in DOMAIN e
               PROVE  \/ i \in DOMAIN p /\ e[i] = p[i]
                      \/ \E k \in DOMAIN q : i = Len(p) + k /\ e[i] = q[k]
    BY DEF Joins
  <2>1. CASE i <= Len(p)
    BY <1>1, <1>2, <1>3, <2>1
  <2>2. CASE ~ (i <= Len(p))
    <3> DEFINE k == i - Len(p)
    <3>1. k \in DOMAIN q /\ i = Len(p) + k
      BY <1>1, <1>2, <2>2
    <3>2. e[i] = q[k]
      BY <1>2, <1>3, <2>2
    <3> QED
      BY <3>1, <3>2
  <2> QED
    BY <2>1, <2>2
<1>5. q # <<>> => e # <<>> /\ e[Len(e)] = q[Len(q)]
  <2> SUFFICES ASSUME q # <<>> PROVE e # <<>> /\ e[Len(e)] = q[Len(q)]
    OBVIOUS
  <2>1. Len(q) >= 1
    BY <1>1
  <2>2. Len(e) \in 1 .. Len(p) + Len(q) /\ ~ (Len(e) <= Len(p)) /\ Len(e) - Len(p) = Len(q)
    BY <1>1, <1>2, <2>1
  <2>3. e[Len(e)] = q[Len(q)]
    BY <1>3, <2>2
  <2>4. e # <<>>
    BY <1>1, <1>2, <2>1
  <2> QED
    BY <2>3, <2>4
<1> QED
  BY <1>2, <1>4, <1>5

LEMMA NestedIs ==
  ASSUME NEW t \in SchedulerStates, NEW rest \in Seq(Effects), NEW u, u = Nested(t, rest)
  PROVE  /\ u \in SchedulerStates /\ SameDemand(t, u)
         /\ u.work = t.work /\ u.retiring = t.retiring
         /\ u.activeNearby = t.activeNearby /\ u.activeBackground = t.activeBackground
         /\ u.effects = t.effects \o rest
<1>1. t.effects \in Seq(Effects)
  BY StateOf
<1>2. PICK effs \in Seq(Effects) : effs = t.effects \o rest
  BY <1>1, JoinIs
<1>3. u = [t EXCEPT !.effects = effs]
  BY <1>2 DEF Nested
<1>4. u \in SchedulerStates
  BY <1>2, <1>3 DEF SchedulerStates
<1>5. /\ SameDemand(t, u)
      /\ u.work = t.work /\ u.retiring = t.retiring
      /\ u.activeNearby = t.activeNearby /\ u.activeBackground = t.activeBackground
      /\ u.effects = effs
  BY <1>2, <1>3 DEF SchedulerStates, SameDemand
<1> QED
  BY <1>2, <1>4, <1>5

LEMMA RestedFrame ==
  ASSUME NEW s, NEW t, Rested(s), SameDemand(s, t), t.work = s.work, t.retiring = s.retiring,
         t.activeNearby = s.activeNearby, t.activeBackground = s.activeBackground
  PROVE  /\ Rested(t) /\ Ledger(t) = Ledger(s)
         /\ \A c : Holds(t, c) <=> Holds(s, c)
<1>1. Ledger(t) = Ledger(s) /\ Working(t) = Working(s) /\ Places(t) = Places(s)
        /\ t.generation = s.generation
  BY DEF Ledger, Working, Places, SameDemand
<1>2. \A c : Holds(t, c) <=> Holds(s, c)
  BY <1>1 DEF Holds
<1>3. LedgerSound(t)
  BY <1>1 DEF Rested, LedgerSound
<1>4. ActiveListed(t)
  BY DEF Rested, ActiveListed
<1>5. RowsSound(t)
  <2>1. \A q \in Rows : SameRow(s, t, q)
    BY DEF SameRow, SameDemand
  <2>2. t.generation = s.generation /\ t.armed = s.armed
    BY DEF SameDemand
  <2> QED
    BY <2>1, <2>2, RowFrame DEF Rested, RowsSound
<1>6. Prompt(t)
  <2>1. \A r : Cause(s, r) => Cause(t, r)
    BY <1>1 DEF Cause, Charge, RetiringFor
  <2>2. t.high = s.high /\ t.nearby = s.nearby
    BY DEF SameDemand
  <2> QED
    BY <2>1, <2>2 DEF Rested, Prompt
<1> QED
  BY <1>1, <1>2, <1>3, <1>4, <1>5, <1>6 DEF Rested

Follows(b, s) ==  \* what Decided says of the ledger, whatever the generations
  /\ b.retiring \subseteq s.retiring
  /\ \A c \in Ledger(b) : Holds(s, c)
  /\ \A i \in DOMAIN s.effects : s.effects[i].kind # "rows"
  /\ \A i : Starts(s, i) =>
       Holds(s, s.effects[i].work) /\ \A c \in Ledger(b) : c.id # s.effects[i].work.id
  /\ \A i : Cancels(s, i) =>
       /\ \E c \in s.retiring : c.id = s.effects[i].id
       /\ \A c \in b.retiring : c.id # s.effects[i].id
  /\ \A i, j : Starts(s, i) /\ Starts(s, j) /\ i # j => s.effects[i].work.id # s.effects[j].work.id
  /\ \A i, j : Cancels(s, i) /\ Cancels(s, j) /\ i # j => s.effects[i].id # s.effects[j].id

LEMMA FollowedAgree ==
  ASSUME NEW b, NEW t, Follows(b, t), NEW recs, NEW rest,
         RecordsAgree(b, recs), StartsAgree(b, recs, rest), CancelsAgree(b, recs, rest),
         NEW effs, Joins(effs, t.effects, rest)
  PROVE  RecordsAgree(t, recs) /\ StartsAgree(t, recs, effs) /\ CancelsAgree(t, recs, effs)
<1> DEFINE n == Len(t.effects)
<1>4. \A c : Holds(b, c) => Holds(t, c)
  BY DEF Follows, Holds, SameWork
<1>6. b.retiring \subseteq t.retiring
  BY DEF Follows
<1>7. RecordsAgree(t, recs)
  BY <1>4, <1>6 DEF RecordsAgree
<1>8. \A rec \in recs : \E d \in Ledger(b) : d.id = rec.claim.id
  BY DEF RecordsAgree, Holds, SameWork
<1>9. \A k \in DOMAIN rest : rest[k].kind = "start" => \E d \in Ledger(b) : d.id = rest[k].work.id
  BY DEF StartsAgree, Holds, SameWork
<1>10. StartsAgree(t, recs, effs)
  <2>1. ASSUME NEW i \in DOMAIN effs, effs[i].kind = "start"
        PROVE  Holds(t, effs[i].work) /\ \A rec \in recs : rec.claim.id # effs[i].work.id
    <3>1. CASE i \in DOMAIN t.effects /\ effs[i] = t.effects[i]
      <4>1. Starts(t, i)
        BY <2>1, <3>1 DEF Starts
      <4>2. Holds(t, effs[i].work) /\ \A c \in Ledger(b) : c.id # effs[i].work.id
        BY <3>1, <4>1 DEF Follows
      <4> QED
        BY <1>8, <4>2
    <3>2. CASE \E k \in DOMAIN rest : i = n + k /\ effs[i] = rest[k]
      BY <1>4, <2>1, <3>2 DEF StartsAgree
    <3> QED
      BY <3>1, <3>2 DEF Joins
  <2>2. ASSUME NEW i \in DOMAIN effs, NEW j \in DOMAIN effs, i # j,
               effs[i].kind = "start", effs[j].kind = "start"
        PROVE  effs[i].work.id # effs[j].work.id
    <3> DEFINE First(x) == x \in DOMAIN t.effects /\ effs[x] = t.effects[x]
               Second(x) == \E k \in DOMAIN rest : x = n + k /\ effs[x] = rest[k]
    <3>1. CASE First(i) /\ First(j)
      <4>1. Starts(t, i) /\ Starts(t, j)
        BY <2>2, <3>1 DEF Starts
      <4> QED
        BY <2>2, <3>1, <4>1 DEF Follows
    <3>2. CASE First(i) /\ Second(j)
      <4>1. Starts(t, i)
        BY <2>2, <3>2 DEF Starts
      <4>2. \A c \in Ledger(b) : c.id # effs[i].work.id
        BY <3>2, <4>1 DEF Follows
      <4> QED
        BY <1>9, <2>2, <3>2, <4>2
    <3>3. CASE Second(i) /\ First(j)
      <4>1. Starts(t, j)
        BY <2>2, <3>3 DEF Starts
      <4>2. \A c \in Ledger(b) : c.id # effs[j].work.id
        BY <3>3, <4>1 DEF Follows
      <4> QED
        BY <1>9, <2>2, <3>3, <4>2
    <3>4. CASE Second(i) /\ Second(j)
      <4>1. PICK k \in DOMAIN rest : i = n + k /\ effs[i] = rest[k]
        BY <3>4
      <4>2. PICK m \in DOMAIN rest : j = n + m /\ effs[j] = rest[m]
        BY <3>4
      <4>3. k # m
        BY <2>2, <4>1, <4>2
      <4> QED
        BY <2>2, <4>1, <4>2, <4>3 DEF StartsAgree
    <3> QED
      BY <3>1, <3>2, <3>3, <3>4 DEF Joins
  <2> QED
    BY <2>1, <2>2 DEF StartsAgree
<1>11. CancelsAgree(t, recs, effs)
  <2>1. ASSUME NEW i \in DOMAIN effs, effs[i].kind = "cancel"
        PROVE  /\ \E c \in t.retiring : c.id = effs[i].id
               /\ \A rec \in recs : rec.claim.id = effs[i].id => ~rec.canceled
    <3>1. CASE i \in DOMAIN t.effects /\ effs[i] = t.effects[i]
      <4>1. Cancels(t, i)
        BY <2>1, <3>1 DEF Cancels
      <4>2. /\ \E c \in t.retiring : c.id = effs[i].id
            /\ \A c \in b.retiring : c.id # effs[i].id
        BY <3>1, <4>1 DEF Follows
      <4> QED
        BY <4>2 DEF RecordsAgree
    <3>2. CASE \E k \in DOMAIN rest : i = n + k /\ effs[i] = rest[k]
      BY <1>6, <2>1, <3>2 DEF CancelsAgree
    <3> QED
      BY <3>1, <3>2 DEF Joins
  <2>2. ASSUME NEW i \in DOMAIN effs, NEW j \in DOMAIN effs, i # j,
               effs[i].kind = "cancel", effs[j].kind = "cancel"
        PROVE  effs[i].id # effs[j].id
    <3> DEFINE First(x) == x \in DOMAIN t.effects /\ effs[x] = t.effects[x]
               Second(x) == \E k \in DOMAIN rest : x = n + k /\ effs[x] = rest[k]
    <3>0. \A k \in DOMAIN rest : rest[k].kind = "cancel" => \E c \in b.retiring : c.id = rest[k].id
      BY DEF CancelsAgree
    <3>1. CASE First(i) /\ First(j)
      <4>1. Cancels(t, i) /\ Cancels(t, j)
        BY <2>2, <3>1 DEF Cancels
      <4> QED
        BY <2>2, <3>1, <4>1 DEF Follows
    <3>2. CASE First(i) /\ Second(j)
      <4>1. Cancels(t, i)
        BY <2>2, <3>2 DEF Cancels
      <4>2. \A c \in b.retiring : c.id # effs[i].id
        BY <3>2, <4>1 DEF Follows
      <4> QED
        BY <2>2, <3>0, <3>2, <4>2
    <3>3. CASE Second(i) /\ First(j)
      <4>1. Cancels(t, j)
        BY <2>2, <3>3 DEF Cancels
      <4>2. \A c \in b.retiring : c.id # effs[j].id
        BY <3>3, <4>1 DEF Follows
      <4> QED
        BY <2>2, <3>0, <3>3, <4>2
    <3>4. CASE Second(i) /\ Second(j)
      <4>1. PICK k \in DOMAIN rest : i = n + k /\ effs[i] = rest[k]
        BY <3>4
      <4>2. PICK m \in DOMAIN rest : j = n + m /\ effs[j] = rest[m]
        BY <3>4
      <4>3. k # m
        BY <2>2, <4>1, <4>2
      <4> QED
        BY <2>2, <4>1, <4>2, <4>3 DEF CancelsAgree
    <3> QED
      BY <3>1, <3>2, <3>3, <3>4 DEF Joins
  <2> QED
    BY <2>1, <2>2 DEF CancelsAgree
<1> QED
  BY <1>7, <1>10, <1>11

LEMMA AgreeFrame ==
  ASSUME NEW s, NEW t, t.retiring = s.retiring, t.generation = s.generation,
         \A c : Holds(t, c) <=> Holds(s, c), NEW recs, NEW effs
  PROVE  /\ RecordsAgree(s, recs) => RecordsAgree(t, recs)
         /\ StartsAgree(s, recs, effs) => StartsAgree(t, recs, effs)
         /\ CancelsAgree(s, recs, effs) => CancelsAgree(t, recs, effs)
         /\ RowsAgree(s, effs) => RowsAgree(t, effs)
<1>1. RecordsAgree(s, recs) => RecordsAgree(t, recs)
  BY DEF RecordsAgree
<1>2. StartsAgree(s, recs, effs) => StartsAgree(t, recs, effs)
  BY DEF StartsAgree
<1>3. CancelsAgree(s, recs, effs) => CancelsAgree(t, recs, effs)
  BY DEF CancelsAgree
<1>4. RowsAgree(s, effs) => RowsAgree(t, effs)
  BY DEF RowsAgree
<1> QED
  BY <1>1, <1>2, <1>3, <1>4

LEMMA Resume ==
  ASSUME NEW b, NEW t, Kept(b, t), Prompt(t), NEW recs, NEW rest \in Seq(Effects),
         Agree(b, recs, rest), NEW u, u = Nested(t, rest)
  PROVE  u \in SchedulerStates /\ Rested(u) /\ Agree(u, recs, u.effects)
<1>1. t \in SchedulerStates /\ Rested(t) /\ Decided(b, t)
  BY DEF Kept, Core, Rested
<1>2. /\ u \in SchedulerStates /\ SameDemand(t, u)
      /\ u.work = t.work /\ u.retiring = t.retiring
      /\ u.activeNearby = t.activeNearby /\ u.activeBackground = t.activeBackground
      /\ u.effects = t.effects \o rest
  BY <1>1, NestedIs
<1>3. Rested(u) /\ \A c : Holds(u, c) <=> Holds(t, c)
  BY <1>1, <1>2, RestedFrame
<1> DEFINE effs == u.effects
           n == Len(t.effects)
<1>e. effs = t.effects \o rest
  BY <1>2
<1> HIDE DEF effs
<1>5. /\ Joins(effs, t.effects, rest) /\ Len(effs) = n + Len(rest)
      /\ rest # <<>> => effs # <<>> /\ effs[Len(effs)] = rest[Len(rest)]
  <2>1. t.effects \in Seq(Effects)
    BY <1>1, StateOf
  <2>2. PICK p \in Seq(Effects) : p = t.effects
    BY <2>1
  <2>3. effs = p \o rest
    BY <1>e, <2>2
  <2>4. Joins(effs, p, rest)
    BY <2>3, JoinIs
  <2>5. Len(effs) = Len(p) + Len(rest)
    BY <2>3, JoinIs
  <2>6. rest # <<>> => effs # <<>> /\ effs[Len(effs)] = rest[Len(rest)]
    BY <2>3, JoinIs
  <2> QED
    BY <2>2, <2>4, <2>5, <2>6
<1>6. Follows(b, t)
  BY <1>1 DEF Decided, Follows
<1>7. RecordsAgree(t, recs) /\ StartsAgree(t, recs, effs) /\ CancelsAgree(t, recs, effs)
  BY <1>5, <1>6, FollowedAgree DEF Agree
<1>8. RecordsAgree(u, recs) /\ StartsAgree(u, recs, effs) /\ CancelsAgree(u, recs, effs)
  BY <1>2, <1>3, <1>7, AgreeFrame DEF SameDemand
<1>9. RowsAgree(u, effs)
  <2>1. u.generation = b.generation /\ t.generation = b.generation /\ RowsAgree(b, rest)
    BY <1>1, <1>2 DEF Decided, SameDemand, Agree
  <2>2. u.generation = 0 => effs # <<>> /\ effs[Len(effs)].kind = "rows"
    BY <1>5, <2>1 DEF RowsAgree
  <2>3. ASSUME NEW i \in DOMAIN effs, effs[i].kind = "rows"
        PROVE  /\ i = Len(effs)
               /\ u.generation = 0
               /\ effs[i].generation > 0
               /\ \A c \in u.retiring : c.generation < effs[i].generation
    <3>1. ~ (i \in DOMAIN t.effects /\ effs[i] = t.effects[i])
      BY <1>1, <2>3 DEF Decided
    <3>2. PICK k \in DOMAIN rest : i = n + k /\ effs[i] = rest[k]
      BY <1>5, <3>1 DEF Joins
    <3>3. /\ k = Len(rest)
          /\ b.generation = 0
          /\ effs[i].generation > 0
          /\ \A c \in b.retiring : c.generation < effs[i].generation
      BY <2>1, <2>3, <3>2 DEF RowsAgree
    <3>4. \A c \in u.retiring : c \in b.retiring \/ c.generation = 0
      BY <1>1, <1>2, <2>1, <3>3 DEF Decided
    <3> QED
      BY <1>5, <2>1, <3>2, <3>3, <3>4
  <2> QED
    BY <2>2, <2>3 DEF RowsAgree
<1> QED
  BY <1>2, <1>3, <1>8, <1>9 DEF Agree, effs

LEMMA EnteredIs ==
  ASSUME NEW s \in SchedulerStates, Rested(s), NEW b, b = Entered(s)
  PROVE  /\ Fresh(b) /\ Prompt(b)
         /\ b.retiring = s.retiring /\ b.generation = s.generation /\ Ledger(b) = Ledger(s)
         /\ \A c : Holds(b, c) <=> Holds(s, c)
<1>0. <<>> \in Seq(Effects)
  OBVIOUS
<1>1. b \in SchedulerStates
  BY <1>0 DEF Entered, SchedulerStates
<1>2. /\ SameDemand(s, b) /\ b.work = s.work /\ b.retiring = s.retiring
      /\ b.activeNearby = s.activeNearby /\ b.activeBackground = s.activeBackground
      /\ b.effects = <<>>
  BY DEF Entered, SchedulerStates, SameDemand
<1>3. Rested(b) /\ Ledger(b) = Ledger(s) /\ \A c : Holds(b, c) <=> Holds(s, c)
  BY <1>2, RestedFrame
<1>4. Fresh(b) /\ Prompt(b)
  BY <1>1, <1>2, <1>3, FreshIs DEF Rested
<1> QED
  BY <1>2, <1>3, <1>4 DEF SameDemand

\* Between calls nothing is left to put back.
LEMMA ResumeIdle ==
  ASSUME NEW b, NEW t, Kept(b, t), Prompt(t), NEW recs, Agree(b, recs, <<>>)
  PROVE  t \in SchedulerStates /\ Rested(t) /\ Agree(t, recs, t.effects)
<1>1. PICK u : u = Nested(t, <<>>)
  OBVIOUS
<1>2. PICK none \in Seq(Effects) : none = <<>>
  <2>1. <<>> \in Seq(Effects)
    OBVIOUS
  <2> QED
    BY <2>1, Zenon
<1>3. u \in SchedulerStates /\ Rested(u) /\ Agree(u, recs, u.effects)
  <2>1. Agree(b, recs, none) /\ u = Nested(t, none)
    BY <1>1, <1>2
  <2> QED
    BY <2>1, Resume
<1>4. u = t
  <2>1. t \in SchedulerStates
    BY DEF Kept, Core
  <2>2. t.effects \in Seq(Effects)
    BY <2>1, StateOf
  <2>3. t.effects \o <<>> = t.effects
    BY <2>2, ConcatEmptySeq
  <2>4. u = [t EXCEPT !.effects = t.effects]
    BY <1>1, <2>3 DEF Nested
  <2> QED
    BY <2>1, <2>4 DEF SchedulerStates
<1> QED
  BY <1>3, <1>4

HeadAgrees(s, recs, h, rest) ==  \* the first effect h, beside the others
  /\ h.kind = "rows" =>
       /\ rest = <<>> /\ s.generation = 0 /\ h.generation > 0
       /\ \A c \in s.retiring : c.generation < h.generation
  /\ h.kind = "start" =>
       /\ Holds(s, h.work)
       /\ \A rec \in recs : rec.claim.id # h.work.id
       /\ \A k \in DOMAIN rest : rest[k].kind = "start" => rest[k].work.id # h.work.id
  /\ h.kind = "cancel" =>
       /\ \E c \in s.retiring : c.id = h.id
       /\ \A rec \in recs : rec.claim.id = h.id => ~rec.canceled
       /\ \A k \in DOMAIN rest : rest[k].kind = "cancel" => rest[k].id # h.id

LEMMA TailIs ==
  ASSUME NEW s, NEW recs, NEW effs \in Seq(Effects), effs # <<>>, Agree(s, recs, effs),
         NEW h, h = Head(effs), NEW rest, rest = Tail(effs)
  PROVE  /\ rest \in Seq(Effects) /\ h \in Effects
         /\ RecordsAgree(s, recs) /\ StartsAgree(s, recs, rest) /\ CancelsAgree(s, recs, rest)
         /\ h.kind # "rows" => RowsAgree(s, rest)
         /\ HeadAgrees(s, recs, h, rest)
<1>1. /\ Len(effs) \in Nat /\ Len(effs) >= 1 /\ DOMAIN effs = 1 .. Len(effs)
      /\ rest \in Seq(Effects) /\ Len(rest) = Len(effs) - 1 /\ DOMAIN rest = 1 .. Len(effs) - 1
      /\ h \in Effects /\ h = effs[1]
  <2>1. Len(effs) \in Nat /\ Len(effs) # 0 /\ DOMAIN effs = 1 .. Len(effs)
    OBVIOUS
  <2>2. h = effs[1] /\ 1 \in 1 .. Len(effs)
    BY <2>1
  <2>3. rest \in Seq(Effects) /\ Len(rest) = Len(effs) - 1
    OBVIOUS
  <2>4. DOMAIN rest = 1 .. Len(rest)
    BY <2>3
  <2>5. h \in Effects
    BY <2>2
  <2> QED
    BY <2>1, <2>2, <2>3, <2>4, <2>5
<1>2. 1 \in DOMAIN effs
  BY <1>1
<1>3. \A k \in DOMAIN rest : k + 1 \in DOMAIN effs /\ k + 1 # 1 /\ rest[k] = effs[k + 1]
  BY <1>1
<1>4. \A j, k \in DOMAIN rest : j # k => j + 1 # k + 1
  BY <1>1
<1>5. StartsAgree(s, recs, rest)
  <2>1. StartsAgree(s, recs, effs)
    BY DEF Agree
  <2> QED
    BY <1>3, <1>4, <2>1 DEF StartsAgree
<1>6. CancelsAgree(s, recs, rest)
  <2>1. CancelsAgree(s, recs, effs)
    BY DEF Agree
  <2> QED
    BY <1>3, <1>4, <2>1 DEF CancelsAgree
<1>7. RowsAgree(s, effs) /\ RecordsAgree(s, recs)
  BY DEF Agree
<1>8. ASSUME h.kind # "rows" PROVE RowsAgree(s, rest)
  <2>1. ASSUME s.generation = 0 PROVE rest # <<>> /\ rest[Len(rest)].kind = "rows"
    <3>1. effs[Len(effs)].kind = "rows"
      BY <1>7, <2>1 DEF RowsAgree
    <3>2. Len(effs) # 1
      BY <1>1, <1>8, <3>1
    <3>3. Len(rest) \in DOMAIN rest /\ Len(rest) + 1 = Len(effs)
      BY <1>1, <3>2
    <3>4. rest[Len(rest)].kind = "rows"
      BY <1>3, <3>1, <3>3
    <3>5. rest # <<>>
      BY <1>1, <3>2
    <3> QED
      BY <3>4, <3>5
  <2>2. ASSUME NEW i \in DOMAIN rest, rest[i].kind = "rows"
        PROVE  /\ i = Len(rest)
               /\ s.generation = 0
               /\ rest[i].generation > 0
               /\ \A c \in s.retiring : c.generation < rest[i].generation
    <3>1. i + 1 \in DOMAIN effs /\ rest[i] = effs[i + 1]
      BY <1>3
    <3>2. i + 1 = Len(effs) /\ s.generation = 0 /\ effs[i + 1].generation > 0
            /\ \A c \in s.retiring : c.generation < effs[i + 1].generation
      BY <1>7, <2>2, <3>1 DEF RowsAgree
    <3>3. i = Len(rest)
      BY <1>1, <3>2
    <3> QED
      BY <3>1, <3>2, <3>3
  <2> QED
    BY <2>1, <2>2 DEF RowsAgree
<1>9. HeadAgrees(s, recs, h, rest)
  <2>1. ASSUME h.kind = "rows"
        PROVE  /\ rest = <<>> /\ s.generation = 0 /\ h.generation > 0
               /\ \A c \in s.retiring : c.generation < h.generation
    <3>1. /\ 1 = Len(effs) /\ s.generation = 0 /\ h.generation > 0
          /\ \A c \in s.retiring : c.generation < h.generation
      BY <1>1, <1>2, <1>7, <2>1 DEF RowsAgree
    <3>2. rest = <<>>
      BY <1>1, <3>1
    <3> QED
      BY <3>1, <3>2
  <2>2. ASSUME h.kind = "start"
        PROVE  /\ Holds(s, h.work)
               /\ \A rec \in recs : rec.claim.id # h.work.id
               /\ \A k \in DOMAIN rest : rest[k].kind = "start" => rest[k].work.id # h.work.id
    <3>1. StartsAgree(s, recs, effs)
      BY DEF Agree
    <3> QED
      BY <1>1, <1>2, <1>3, <2>2, <3>1 DEF StartsAgree
  <2>3. ASSUME h.kind = "cancel"
        PROVE  /\ \E c \in s.retiring : c.id = h.id
               /\ \A rec \in recs : rec.claim.id = h.id => ~rec.canceled
               /\ \A k \in DOMAIN rest : rest[k].kind = "cancel" => rest[k].id # h.id
    <3>1. CancelsAgree(s, recs, effs)
      BY DEF Agree
    <3> QED
      BY <1>1, <1>2, <1>3, <2>3, <3>1 DEF CancelsAgree
  <2> QED
    BY <2>1, <2>2, <2>3 DEF HeadAgrees
<1> QED
  BY <1>1, <1>5, <1>6, <1>7, <1>8, <1>9

\* A record and the work it is about leave together.
LEMMA EndsAgree ==
  ASSUME NEW s, NEW b, NEW id, Ends(s, b, id), NEW recs, NEW rest,
         RecordsAgree(s, recs), StartsAgree(s, recs, rest), CancelsAgree(s, recs, rest),
         RowsAgree(s, rest), NEW mine \in recs, mine.claim.id = id,
         \A k \in DOMAIN rest : rest[k].kind = "cancel" => rest[k].id # id,
         NEW others, others \subseteq recs, \A rec \in others : rec.claim.id # id
  PROVE  Agree(b, others, rest)
<1>1. \A c : Holds(s, c) /\ c.id # id => Holds(b, c)
  <2> SUFFICES ASSUME NEW c, Holds(s, c), c.id # id PROVE Holds(b, c)
    OBVIOUS
  <2>1. PICK d \in Ledger(s) : SameWork(c, d)
    BY DEF Holds
  <2>2. d.id # id
    BY <2>1 DEF SameWork
  <2>3. Holds(b, d)
    BY <2>2 DEF Ends
  <2> QED
    BY <2>1, <2>3 DEF Holds, SameWork
<1>2. RecordsAgree(b, others)
  <2>1. \A rec \in others : Holds(b, rec.claim)
    BY <1>1 DEF RecordsAgree
  <2>2. \A rec \in others : rec.canceled => \E c \in b.retiring : c.id = rec.claim.id
    BY DEF RecordsAgree, Ends
  <2>3. \A x, y \in others : x # y => x.claim.id # y.claim.id
    BY DEF RecordsAgree
  <2> QED
    BY <2>1, <2>2, <2>3 DEF RecordsAgree
<1>3. StartsAgree(b, others, rest)
  <2>1. \A k \in DOMAIN rest : rest[k].kind = "start" => rest[k].work.id # id
    BY DEF StartsAgree
  <2>2. \A k \in DOMAIN rest : rest[k].kind = "start" =>
          Holds(b, rest[k].work) /\ \A rec \in others : rec.claim.id # rest[k].work.id
    BY <1>1, <2>1 DEF StartsAgree
  <2> QED
    BY <2>2 DEF StartsAgree
<1>4. CancelsAgree(b, others, rest)
  <2>1. \A k \in DOMAIN rest : rest[k].kind = "cancel" =>
          /\ \E c \in b.retiring : c.id = rest[k].id
          /\ \A rec \in others : rec.claim.id = rest[k].id => ~rec.canceled
    BY DEF CancelsAgree, Ends
  <2> QED
    BY <2>1 DEF CancelsAgree
<1>5. RowsAgree(b, rest)
  BY DEF RowsAgree, Ends
<1> QED
  BY <1>2, <1>3, <1>4, <1>5 DEF Agree

-----------------------------------------------------------------------------
(* The steps of the program.                                               *)

LEMMA NoEffects ==
  ASSUME NEW s, NEW recs, RecordsAgree(s, recs), s.generation # 0
  PROVE  Agree(s, recs, <<>>)
<1>1. DOMAIN <<>> = {}
  OBVIOUS
<1> QED
  BY <1>1 DEF Agree, StartsAgree, CancelsAgree, RowsAgree

LEMMA IdleIs ==
  ASSUME IInv, Idle
  PROVE  /\ scheduler \in SchedulerStates /\ Fresh(scheduler) /\ Prompt(scheduler)
         /\ RecordsAgree(scheduler, records) /\ scheduler.generation # 0
         /\ Agree(scheduler, records, <<>>)
<1>1. scheduler \in SchedulerStates /\ Rested(scheduler) /\ scheduler.effects = <<>>
  BY DEF IInv, TypeOK, Idle, effects
<1>2. Agree(scheduler, records, <<>>)
  BY <1>1 DEF IInv, effects
<1>3. RecordsAgree(scheduler, records) /\ scheduler.generation # 0
  BY <1>2 DEF Agree, RowsAgree
<1>4. Fresh(scheduler) /\ Prompt(scheduler)
  BY <1>1, FreshIs DEF Rested
<1> QED
  BY <1>1, <1>2, <1>3, <1>4

Typed(recs, epochs, images, lost, opens) ==  \* TypeOK of what is not the scheduler's
  /\ recs \subseteq Records /\ epochs \subseteq Nat /\ images \subseteq Rows /\ lost \subseteq Rows
  /\ opens \in BOOLEAN

Bounded(n, m) == n \in 0 .. MaxCalls /\ m \in 0 .. MaxPressure

LEMMA Concludes ==
  ASSUME Typed(records', continuations', ready', losses', opportunity'), Bounded(calls', pressure'),
         NEW u, scheduler' = u, u \in SchedulerStates, Rested(u), Agree(u, records', u.effects)
  PROVE  IInv'
<1>1. TypeOK'
  BY DEF TypeOK, Typed, Bounded
<1>2. Rested(scheduler)' /\ Agree(scheduler, records, effects)'
  BY DEF effects
<1> QED
  BY <1>1, <1>2 DEF IInv

LEMMA TypedIs ==
  ASSUME IInv
  PROVE  /\ Typed(records, continuations, ready, losses, opportunity) /\ Bounded(calls, pressure)
         /\ scheduler \in SchedulerStates /\ Rested(scheduler)
         /\ effects \in Seq(Effects) /\ Agree(scheduler, records, effects)
<1>1. scheduler \in SchedulerStates
  BY DEF IInv, TypeOK
<1> QED
  BY <1>1, StateOf DEF IInv, TypeOK, Typed, Bounded, effects

LEMMA CountedIs == ASSUME IInv, Counted PROVE Bounded(calls', pressure')
<1>1. calls \in Nat /\ calls < MaxCalls /\ MaxCalls \in Nat
  BY BoundsAssumption DEF IInv, TypeOK, Counted
<1>2. calls' = calls + 1 /\ pressure' = pressure /\ pressure \in 0 .. MaxPressure
  BY DEF IInv, TypeOK, Counted
<1>3. calls + 1 \in 0 .. MaxCalls
  BY <1>1
<1> QED
  BY <1>2, <1>3 DEF Bounded

\* A call, with the residency change of the row store.
LEMMA Called ==
  ASSUME IInv, Idle, NEW done, Kept(scheduler, done), Prompt(done),
         scheduler' = IF opportunity THEN Readmit(done) ELSE done,
         losses' = {}, opportunity' = FALSE, UNCHANGED <<records, continuations, ready>>,
         Bounded(calls', pressure')
  PROVE  IInv'
<1>1. PICK u : u = IF opportunity THEN Readmit(done) ELSE done
  OBVIOUS
<1>2. Kept(scheduler, u) /\ Prompt(u)
  BY <1>1, ReadmitKept
<1>3. u \in SchedulerStates /\ Rested(u) /\ Agree(u, records, u.effects)
  BY <1>2, IdleIs, ResumeIdle
<1>4. Typed(records', continuations', ready', losses', opportunity')
  BY TypedIs DEF Typed
<1> QED
  BY <1>1, <1>3, <1>4, Concludes

LEMMA SelectRowKept == ASSUME IInv, NEW r \in Rows \cup {0}, SelectRow(r) PROVE IInv'
<1>1. PICK lost : lost = LoseResidency(scheduler, losses)
  OBVIOUS
<1>2. PICK done : done = SetCurrentNumber(lost, r)
  OBVIOUS
<1>3. /\ Idle /\ Counted
      /\ scheduler' = IF opportunity THEN Readmit(done) ELSE done
      /\ losses' = {} /\ opportunity' = FALSE /\ UNCHANGED <<records, continuations, ready>>
  BY <1>1, <1>2 DEF SelectRow, Call
<1>4. Kept(scheduler, lost) /\ Prompt(lost)
  BY <1>1, <1>3, IdleIs, LoseResidencyKept DEF Fresh
<1>5. Kept(scheduler, done) /\ Prompt(done)
  BY <1>2, <1>4, SetCurrentNumberKept
<1>6. Bounded(calls', pressure')
  BY <1>3, CountedIs
<1> QED
  BY <1>3, <1>5, <1>6, Called

LEMMA ReportDemandKept ==
  ASSUME IInv, NEW demands \in [Rows -> Wanted \cup {None}], ReportDemand(demands)
  PROVE  IInv'
<1>1. PICK lost : lost = LoseResidency(scheduler, losses)
  OBVIOUS
<1>2. PICK done : done = ReplaceDemand(lost, demands)
  OBVIOUS
<1>3. /\ Idle /\ Counted
      /\ scheduler' = IF opportunity THEN Readmit(done) ELSE done
      /\ losses' = {} /\ opportunity' = FALSE /\ UNCHANGED <<records, continuations, ready>>
  BY <1>1, <1>2 DEF ReportDemand, Call
<1>4. Kept(scheduler, lost) /\ Prompt(lost)
  BY <1>1, <1>3, IdleIs, LoseResidencyKept DEF Fresh
<1>5. Kept(scheduler, done) /\ Prompt(done)
  <2>1. demands \in [Rows -> Demands \cup {None}]
    BY WantedAssumption
  <2>2. scheduler.generation # 0
    BY <1>3, IdleIs
  <2> QED
    BY <1>2, <1>4, <2>1, <2>2, ReplaceDemandKept
<1>6. Bounded(calls', pressure')
  BY <1>3, CountedIs
<1> QED
  BY <1>3, <1>5, <1>6, Called

LEMMA RefreshSourceKept == ASSUME IInv, NEW r \in Rows, RefreshSource(r) PROVE IInv'
<1>1. PICK lost : lost = LoseResidency(scheduler, losses)
  OBVIOUS
<1>2. PICK fresh : fresh = RefreshRow(lost, r)
  OBVIOUS
<1>3. PICK done : done = SetCurrentNumber(fresh, lost.current)
  OBVIOUS
<1>4. /\ Idle /\ Counted
      /\ scheduler' = IF opportunity THEN Readmit(done) ELSE done
      /\ losses' = {} /\ opportunity' = FALSE /\ UNCHANGED <<records, continuations, ready>>
  BY <1>1, <1>2, <1>3 DEF RefreshSource, Call
<1>5. Kept(scheduler, lost) /\ Prompt(lost)
  BY <1>1, <1>4, IdleIs, LoseResidencyKept DEF Fresh
<1>6. Kept(scheduler, fresh) /\ Prompt(fresh)
  BY <1>2, <1>5, RefreshRowKept
<1>7. Kept(scheduler, done) /\ Prompt(done)
  <2>1. lost.current \in Rows \cup {0}
    <3>1. lost \in SchedulerStates
      BY <1>5 DEF Kept, Core
    <3> QED
      BY <3>1, StateOf
  <2> QED
    BY <1>3, <1>6, <2>1, SetCurrentNumberKept
<1>8. Bounded(calls', pressure')
  BY <1>4, CountedIs
<1> QED
  BY <1>4, <1>7, <1>8, Called

LEMMA ReconcileKept == ASSUME IInv, Reconcile PROVE IInv'
<1>1. PICK lost : lost = LoseResidency(scheduler, losses)
  OBVIOUS
<1>2. /\ Idle /\ UNCHANGED bounds
      /\ scheduler' = IF opportunity THEN Readmit(lost) ELSE lost
      /\ losses' = {} /\ opportunity' = FALSE /\ UNCHANGED <<records, continuations, ready>>
  BY <1>1 DEF Reconcile, Call
<1>3. Kept(scheduler, lost) /\ Prompt(lost)
  BY <1>1, <1>2, IdleIs, LoseResidencyKept DEF Fresh
<1>4. Bounded(calls', pressure')
  BY <1>2, TypedIs DEF bounds
<1> QED
  BY <1>2, <1>3, <1>4, Called

LEMMA ContinueKept == ASSUME IInv, NEW epoch, Continue(epoch) PROVE IInv'
<1>1. PICK u : u = ContinueAdmission(scheduler, epoch)
  OBVIOUS
<1>2. /\ Idle /\ scheduler' = u /\ continuations' = continuations \ {epoch}
      /\ UNCHANGED <<records, storeVars, bounds>>
  BY <1>1 DEF Continue
<1>3. Kept(scheduler, u) /\ Prompt(u)
  BY <1>1, <1>2, IdleIs, ContinueAdmissionKept DEF Fresh
<1>4. u \in SchedulerStates /\ Rested(u) /\ Agree(u, records, u.effects)
  BY <1>2, <1>3, IdleIs, ResumeIdle
<1>5. Typed(records', continuations', ready', losses', opportunity') /\ Bounded(calls', pressure')
  BY <1>2, TypedIs DEF Typed, storeVars, bounds
<1> QED
  BY <1>2, <1>4, <1>5, Concludes

LEMMA CapacityFreesKept == ASSUME IInv, CapacityFrees PROVE IInv'
<1>1. /\ UNCHANGED <<scheduler, records, continuations, ready, losses, calls>>
      /\ opportunity' = TRUE /\ pressure < MaxPressure /\ pressure' = pressure + 1
  BY DEF CapacityFrees
<1>2. Bounded(calls', pressure')
  <2>1. pressure \in Nat /\ MaxPressure \in Nat
    BY BoundsAssumption DEF IInv, TypeOK
  <2>2. pressure + 1 \in 0 .. MaxPressure
    BY <1>1, <2>1
  <2> QED
    BY <1>1, <2>2, TypedIs DEF Bounded
<1>3. Typed(records', continuations', ready', losses', opportunity')
  BY <1>1, TypedIs DEF Typed
<1>4. Agree(scheduler, records', scheduler.effects)
  BY <1>1, TypedIs DEF effects
<1> QED
  BY <1>1, <1>2, <1>3, <1>4, TypedIs, Concludes

\* The rows of a new navigation: nothing is demanded and only canceled work runs.
LEMMA NewRowsTyped ==
  ASSUME NEW generation \in Nat, NEW retiring \in SUBSET Claims
  PROVE  NewRows(generation, retiring) \in SchedulerStates
<1>1. 0 \in 0 .. Candidates - 1 /\ 0 \in 0 .. Candidates
  BY CandidatesAre
<1>2. <<>> \in Seq(Effects)
  OBVIOUS
<1>3. /\ [r \in Rows |-> None] \in [Rows -> Demands \cup {None}]
      /\ [r \in Rows |-> None] \in [Rows -> Claims \cup {None}]
      /\ [r \in Rows |-> 0] \in [Rows -> Buckets \cup {0}]
  OBVIOUS
<1> QED
  BY <1>1, <1>2, <1>3 DEF NewRows, SchedulerStates

Empty(t) ==  \* as NewRows has it
  /\ t.work = [r \in Rows |-> None] /\ t.demand = [r \in Rows |-> None]
  /\ t.done = [r \in Rows |-> 0] /\ t.blocked = {} /\ ~t.armed
  /\ t.activeNearby = {} /\ t.activeBackground = None /\ t.high = {} /\ t.nearby = {}

LEMMA EmptyRested ==
  ASSUME NEW t, Empty(t), IsFiniteSet(t.retiring), Cardinality(t.retiring) <= Capacity,
         \A c, d \in t.retiring :
           c # d => c.id # d.id /\ (c.row # d.row \/ c.generation # d.generation),
         t.generation # 0 => \A c \in t.retiring : c.generation <= t.generation
  PROVE  Rested(t) /\ Ledger(t) = t.retiring
<1>1. Working(t) = {}
  BY DEF Empty, Working
<1>2. Ledger(t) = t.retiring
  BY <1>1 DEF Ledger
<1>3. Places(t) = Cardinality(t.retiring)
  <2>1. Cardinality(t.retiring) \in Nat
    BY FS_CardinalityType
  <2> QED
    BY <1>1, <2>1, FS_EmptySet DEF Places
<1>4. LedgerSound(t)
  BY <1>1, <1>2, <1>3 DEF LedgerSound
<1>5. ActiveListed(t)
  BY RowsAre DEF Empty, ActiveListed
<1>6. RowsSound(t)
  <2>1. ASSUME NEW r \in Rows PROVE RowSound(t, r) /\ RowListed(t, r)
    <3>1. /\ t.work[r] = None /\ t.demand[r] = None /\ t.done[r] = 0
          /\ r \notin t.blocked /\ r \notin t.high /\ r \notin t.nearby
      BY DEF Empty
    <3> QED
      BY <3>1 DEF RowSound, RowListed, IsForeground, Waits
  <2> QED
    BY <2>1 DEF Empty, RowsSound
<1>7. Prompt(t)
  BY DEF Empty, Prompt
<1> QED
  BY <1>2, <1>4, <1>5, <1>6, <1>7 DEF Rested

\* An identity replacement cancels all the work; the rows that follow it come last.
LEMMA InvalidateIs ==
  ASSUME NEW s, Fresh(s), s.generation # 0, NEW t, t = Invalidate(s)
  PROVE  /\ t \in SchedulerStates /\ t.generation = 0
         /\ Rested(t) /\ Follows(s, t)
         /\ \A c \in t.retiring : c.generation <= s.generation
<1>1. PICK k : k = CancelRows(s, Rows)
  OBVIOUS
<1>2. Kept(s, k) /\ \A r \in Rows : k.work[r] = None
  BY <1>1, CancelRowsKept DEF Fresh
<1>3. k \in SchedulerStates /\ LedgerSound(k) /\ Decided(s, k) /\ Working(k) = {}
  BY <1>2 DEF Kept, Core, Working
<1>4. Ledger(k) = k.retiring
  BY <1>3 DEF Ledger
<1>5. PICK retiring \in SUBSET Claims : retiring = k.retiring
  BY <1>3, StateOf
<1>6. PICK effs \in Seq(Effects) : effs = k.effects
  BY <1>3, StateOf
<1>7. t = [NewRows(0, retiring) EXCEPT !.effects = effs]
  BY <1>1, <1>5, <1>6 DEF Invalidate, CancelRows
<1>8. NewRows(0, retiring) \in SchedulerStates
  BY NewRowsTyped
<1>9. t \in SchedulerStates /\ t.effects = effs
  BY <1>6, <1>7, <1>8 DEF SchedulerStates
<1>10. /\ t.generation = 0 /\ t.retiring = retiring /\ ~t.armed
       /\ t.activeNearby = {} /\ t.activeBackground = None /\ t.high = {} /\ t.nearby = {}
       /\ t.work = [r \in Rows |-> None] /\ t.demand = [r \in Rows |-> None]
       /\ t.done = [r \in Rows |-> 0] /\ t.blocked = {}
  BY <1>7 DEF NewRows
<1>11. Rested(t) /\ Ledger(t) = Ledger(k)
  <2>1. Empty(t)
    BY <1>10 DEF Empty
  <2>2. IsFiniteSet(k.retiring) /\ Cardinality(k.retiring) <= Capacity
    <3>1. IsFiniteSet(k.retiring) /\ Places(k) <= Capacity
      BY <1>3 DEF LedgerSound
    <3>2. Cardinality(k.retiring) \in Nat
      BY <3>1, FS_CardinalityType
    <3> QED
      BY <1>3, <3>1, <3>2, FS_EmptySet DEF Places
  <2>3. \A c, d \in k.retiring :
          c # d => c.id # d.id /\ (c.row # d.row \/ c.generation # d.generation)
    BY <1>3, <1>4 DEF LedgerSound
  <2> QED
    BY <1>4, <1>5, <1>10, <2>1, <2>2, <2>3, EmptyRested
<1>13. Follows(s, t)
  <2>1. Follows(s, k)
    BY <1>3 DEF Decided, Follows
  <2>2. \A c : Holds(t, c) <=> Holds(k, c)
    BY <1>11 DEF Holds
  <2>3. t.retiring = k.retiring /\ t.effects = k.effects
    BY <1>5, <1>6, <1>9, <1>10
  <2>4. \A i : (Starts(t, i) <=> Starts(k, i)) /\ (Cancels(t, i) <=> Cancels(k, i))
    BY <2>3 DEF Starts, Cancels
  <2> QED
    BY <2>1, <2>2, <2>3, <2>4 DEF Follows
<1>14. \A c \in t.retiring : c.generation <= s.generation
  BY <1>3, <1>5, <1>10 DEF LedgerSound, Decided
<1> QED
  BY <1>9, <1>10, <1>11, <1>13, <1>14

LEMMA ReplaceRowsKept == ASSUME IInv, NEW r \in Rows \cup {0}, ReplaceRows(r) PROVE IInv'
<1>1. PICK t : t = Invalidate(scheduler)
  OBVIOUS
<1>2. PICK rows : rows = [kind |-> "rows", generation |-> scheduler.generation + 1, current |-> r]
  OBVIOUS
<1>3. /\ Counted /\ Idle /\ scheduler' = Nested(t, <<rows>>)
      /\ losses' = {} /\ ready' = {} /\ opportunity' = (opportunity \/ ready # {})
      /\ UNCHANGED <<records, continuations>>
  BY <1>1, <1>2 DEF ReplaceRows
<1>4. /\ scheduler \in SchedulerStates /\ Fresh(scheduler) /\ scheduler.generation # 0
      /\ RecordsAgree(scheduler, records) /\ scheduler.generation \in Nat
  BY <1>3, IdleIs, StateOf
<1>5. /\ t \in SchedulerStates /\ t.generation = 0
      /\ Rested(t) /\ Follows(scheduler, t)
      /\ \A c \in t.retiring : c.generation <= scheduler.generation
  BY <1>1, <1>4, InvalidateIs
<1>6. rows \in Effects
  <2>1. scheduler.generation + 1 \in Nat
    BY <1>4
  <2> QED
    BY <1>2, <2>1 DEF Effects
<1>7. PICK rest \in Seq(Effects) : rest = <<rows>>
  <2>1. <<rows>> \in Seq(Effects)
    BY <1>6
  <2> QED
    BY <2>1, Zenon
<1>8. DOMAIN rest = {1} /\ rest[1] = rows /\ Len(rest) = 1 /\ rest # <<>>
  BY <1>7
<1>9. rows.kind = "rows" /\ rows.generation = scheduler.generation + 1
  BY <1>2
<1>10. PICK u : u = Nested(t, rest)
  OBVIOUS
<1>11. /\ u \in SchedulerStates /\ SameDemand(t, u)
       /\ u.work = t.work /\ u.retiring = t.retiring
       /\ u.activeNearby = t.activeNearby /\ u.activeBackground = t.activeBackground
       /\ u.effects = t.effects \o rest
  BY <1>5, <1>10, NestedIs
<1>12. Rested(u) /\ \A c : Holds(u, c) <=> Holds(t, c)
  BY <1>5, <1>11, RestedFrame
<1>13. PICK effs : effs = u.effects
  OBVIOUS
<1>14. PICK p \in Seq(Effects) : p = t.effects
  BY <1>5, StateOf
<1>15. effs = p \o rest
  BY <1>11, <1>13, <1>14
<1>16. Joins(effs, p, rest)
  BY <1>15, JoinIs
<1>17. Len(effs) = Len(p) + Len(rest)
  BY <1>15, JoinIs
<1>18. rest # <<>> => effs # <<>> /\ effs[Len(effs)] = rest[Len(rest)]
  BY <1>15, JoinIs
<1>19. StartsAgree(scheduler, records, rest) /\ CancelsAgree(scheduler, records, rest)
  BY <1>8, <1>9 DEF StartsAgree, CancelsAgree
<1>20. RecordsAgree(t, records) /\ StartsAgree(t, records, effs) /\ CancelsAgree(t, records, effs)
  BY <1>4, <1>5, <1>14, <1>16, <1>19, FollowedAgree
<1>21. u.generation = 0
  BY <1>5, <1>11 DEF SameDemand
<1>22. RecordsAgree(u, records) /\ StartsAgree(u, records, effs) /\ CancelsAgree(u, records, effs)
  BY <1>5, <1>11, <1>12, <1>20, <1>21, AgreeFrame
<1>23. RowsAgree(u, effs)
  <2>1. effs # <<>> /\ effs[Len(effs)].kind = "rows"
    BY <1>8, <1>9, <1>18
  <2>2. ASSUME NEW i \in DOMAIN effs, effs[i].kind = "rows"
        PROVE  /\ i = Len(effs)
               /\ effs[i].generation > 0
               /\ \A c \in u.retiring : c.generation < effs[i].generation
    <3>1. ~ (i \in DOMAIN p /\ effs[i] = p[i])
      BY <1>5, <1>14, <2>2 DEF Follows
    <3>2. i = Len(p) + 1 /\ effs[i] = rows
      BY <1>8, <1>16, <3>1 DEF Joins
    <3>3. i = Len(effs)
      BY <1>8, <1>17, <3>2
    <3>4. effs[i].generation > 0
      BY <1>4, <1>9, <3>2
    <3>5. ASSUME NEW c \in u.retiring PROVE c.generation < effs[i].generation
      <4>1. c \in t.retiring /\ c \in Claims
        BY <1>5, <1>11, StateOf
      <4>2. c.generation \in Nat /\ c.generation <= scheduler.generation
        BY <1>5, <4>1 DEF Claims
      <4> QED
        BY <1>4, <1>9, <3>2, <4>2
    <3> QED
      BY <3>3, <3>4, <3>5
  <2> QED
    BY <1>21, <2>1, <2>2 DEF RowsAgree
<1>24. Agree(u, records', u.effects)
  BY <1>3, <1>13, <1>22, <1>23 DEF Agree
<1>25. Typed(records', continuations', ready', losses', opportunity')
  BY <1>3, TypedIs DEF Typed
<1>26. Bounded(calls', pressure')
  BY <1>3, CountedIs
<1>27. scheduler' = u
  BY <1>3, <1>7, <1>10
<1> QED
  BY <1>11, <1>12, <1>24, <1>25, <1>26, <1>27, Concludes

\* Before the first effect is applied.
LEMMA FirstIs ==
  ASSUME IInv, ~Idle, NEW h, h = Head(effects), NEW rest, rest = Tail(effects),
         NEW b, b = Entered(scheduler)
  PROVE  /\ rest \in Seq(Effects) /\ h \in Effects
         /\ Fresh(b) /\ Prompt(b)
         /\ RecordsAgree(b, records) /\ StartsAgree(b, records, rest)
         /\ CancelsAgree(b, records, rest)
         /\ h.kind # "rows" => RowsAgree(b, rest)
         /\ HeadAgrees(b, records, h, rest)
         /\ \A t : Returned(t) = Nested(t, rest)
<1>1. /\ scheduler \in SchedulerStates /\ Rested(scheduler)
      /\ effects \in Seq(Effects) /\ Agree(scheduler, records, effects) /\ effects # <<>>
  BY TypedIs DEF Idle
<1>2. PICK effs \in Seq(Effects) : effs = effects
  BY <1>1
<1>3. /\ rest \in Seq(Effects) /\ h \in Effects
      /\ RecordsAgree(scheduler, records) /\ StartsAgree(scheduler, records, rest)
      /\ CancelsAgree(scheduler, records, rest)
      /\ h.kind # "rows" => RowsAgree(scheduler, rest)
      /\ HeadAgrees(scheduler, records, h, rest)
  BY <1>1, <1>2, TailIs
<1>4. /\ Fresh(b) /\ Prompt(b)
      /\ b.retiring = scheduler.retiring /\ b.generation = scheduler.generation
      /\ \A c : Holds(b, c) <=> Holds(scheduler, c)
  BY <1>1, EnteredIs
<1>5. /\ RecordsAgree(b, records) /\ StartsAgree(b, records, rest)
      /\ CancelsAgree(b, records, rest)
      /\ h.kind # "rows" => RowsAgree(b, rest)
  BY <1>3, <1>4, AgreeFrame
<1>6. HeadAgrees(b, records, h, rest)
  BY <1>3, <1>4 DEF HeadAgrees
<1>7. \A t : Returned(t) = Nested(t, rest)
  BY DEF Returned
<1> QED
  BY <1>3, <1>4, <1>5, <1>6, <1>7

\* Back from the entry of the first effect.
LEMMA Applied ==
  ASSUME NEW b, NEW t, Kept(b, t), Prompt(t), NEW rest \in Seq(Effects), Agree(b, records', rest),
         scheduler' = Nested(t, rest),
         Typed(records', continuations', ready', losses', opportunity'), Bounded(calls', pressure')
  PROVE  IInv'
<1>1. PICK u : u = Nested(t, rest)
  OBVIOUS
<1>2. u \in SchedulerStates /\ Rested(u) /\ Agree(u, records', u.effects)
  BY <1>1, Resume
<1> QED
  BY <1>1, <1>2, Concludes

LEMMA ApplyCancelKept == ASSUME IInv, NEW withdrawn \in BOOLEAN, ApplyCancel(withdrawn) PROVE IInv'
<1>1. PICK h : h = Head(effects)
  OBVIOUS
<1>2. PICK rest : rest = Tail(effects)
  OBVIOUS
<1>3. PICK b : b = Entered(scheduler)
  OBVIOUS
<1>4. PICK mine : mine = {rec \in records : rec.claim.id = h.id}
  OBVIOUS
<1>5. PICK gone : gone = {rec \in mine : rec.retired \/ withdrawn}
  OBVIOUS
<1>6. /\ ~Idle /\ h.kind = "cancel"
      /\ records' = (records \ mine) \cup {Canceled(rec) : rec \in mine \ gone}
      /\ scheduler' = Returned(IF gone = {} THEN b ELSE AcceptRetirement(b, h.id))
      /\ UNCHANGED <<continuations, storeVars, bounds>>
  BY <1>1, <1>3, <1>4, <1>5 DEF ApplyCancel
<1>7. /\ rest \in Seq(Effects) /\ h \in Effects
      /\ Fresh(b) /\ Prompt(b)
      /\ RecordsAgree(b, records) /\ StartsAgree(b, records, rest)
      /\ CancelsAgree(b, records, rest)
      /\ RowsAgree(b, rest)
      /\ HeadAgrees(b, records, h, rest)
      /\ \A t : Returned(t) = Nested(t, rest)
  BY <1>1, <1>2, <1>3, <1>6, FirstIs
<1>8. /\ \E c \in b.retiring : c.id = h.id
      /\ \A k \in DOMAIN rest : rest[k].kind = "cancel" => rest[k].id # h.id
  BY <1>6, <1>7 DEF HeadAgrees
<1>9. Bounded(calls', pressure')
  BY <1>6, TypedIs DEF bounds
<1>10. Typed(records', continuations', ready', losses', opportunity')
  <2>1. records \subseteq Records
    BY TypedIs DEF Typed
  <2>2. \A rec \in Records : Canceled(rec) \in Records
    BY DEF Records, Canceled
  <2>3. records' \subseteq Records
    BY <1>4, <1>6, <2>1, <2>2
  <2> QED
    BY <1>6, <2>3, TypedIs DEF Typed, storeVars
<1>11. CASE gone = {}
  <2>1. scheduler' = Nested(b, rest)
    BY <1>6, <1>7, <1>11
  <2>2. records' = (records \ mine) \cup {Canceled(rec) : rec \in mine}
    BY <1>6, <1>11
  <2>3. \A rec \in records : Canceled(rec).claim = rec.claim /\ Canceled(rec).canceled
    BY TypedIs DEF Typed, Records, Canceled
  <2>4. \A x \in records' : \E rec \in records :
          /\ x.claim = rec.claim
          /\ x = rec \/ (x = Canceled(rec) /\ rec \in mine)
    BY <1>4, <2>2, <2>3
  <2>5. RecordsAgree(b, records')
    <3>1. \A x \in records' : Holds(b, x.claim)
      BY <1>7, <2>4 DEF RecordsAgree
    <3>2. ASSUME NEW x \in records', NEW y \in records', x # y PROVE x.claim.id # y.claim.id
      <4>1. PICK p \in records : x.claim = p.claim /\ (x = p \/ (x = Canceled(p) /\ p \in mine))
        BY <2>4
      <4>2. PICK q \in records : y.claim = q.claim /\ (y = q \/ (y = Canceled(q) /\ q \in mine))
        BY <2>4
      <4>3. CASE p # q
        BY <1>7, <4>1, <4>2, <4>3 DEF RecordsAgree
      <4>4. CASE p = q
        <5>1. p \in mine
          BY <3>2, <4>1, <4>2, <4>4
        <5>2. x = Canceled(p) /\ y = Canceled(p)
          <6>1. \A z \in records' : z \in mine => \E rec \in mine : z = Canceled(rec)
            BY <2>2
          <6>2. ASSUME NEW z \in records', z.claim = p.claim PROVE z = Canceled(p)
            <7>1. z \in mine \/ \E rec \in mine : z = Canceled(rec)
              <8>1. CASE z \in records
                BY <1>4, <5>1, <6>2, <8>1
              <8>2. CASE z \notin records
                BY <2>2, <8>2
              <8> QED
                BY <8>1, <8>2
            <7>2. PICK rec \in mine : z = Canceled(rec)
              BY <6>1, <7>1
            <7>3. rec.claim = p.claim /\ rec \in records
              BY <1>4, <2>3, <6>2, <7>2
            <7>4. rec = p
              BY <1>7, <7>3 DEF RecordsAgree
            <7> QED
              BY <7>2, <7>4
          <6> QED
            BY <4>1, <4>2, <4>4, <6>2
        <5> QED
          BY <3>2, <5>2
      <4> QED
        BY <4>3, <4>4
    <3>3. \A x \in records' : x.canceled => \E c \in b.retiring : c.id = x.claim.id
      <4> TAKE x \in records'
      <4> HAVE x.canceled
      <4>1. PICK p \in records : x.claim = p.claim /\ (x = p \/ (x = Canceled(p) /\ p \in mine))
        BY <2>4
      <4>2. CASE x = p
        BY <1>7, <4>1, <4>2 DEF RecordsAgree
      <4>3. CASE p \in mine
        BY <1>4, <1>8, <4>1, <4>3
      <4> QED
        BY <4>1, <4>2, <4>3
    <3> QED
      BY <3>1, <3>2, <3>3 DEF RecordsAgree
  <2>6. StartsAgree(b, records', rest)
    BY <1>7, <2>4 DEF StartsAgree
  <2>7. CancelsAgree(b, records', rest)
    <3>1. ASSUME NEW k \in DOMAIN rest, rest[k].kind = "cancel", NEW x \in records',
                 x.claim.id = rest[k].id
          PROVE  ~x.canceled
      <4>1. PICK p \in records : x.claim = p.claim /\ (x = p \/ (x = Canceled(p) /\ p \in mine))
        BY <2>4
      <4>2. p \notin mine
        BY <1>4, <1>8, <3>1, <4>1
      <4> QED
        BY <1>7, <3>1, <4>1, <4>2 DEF CancelsAgree
    <3> QED
      BY <1>7, <3>1 DEF CancelsAgree
  <2>8. Agree(b, records', rest)
    BY <1>7, <2>5, <2>6, <2>7 DEF Agree
  <2>9. Kept(b, b)
    BY <1>7 DEF Fresh
  <2> QED
    BY <1>7, <1>9, <1>10, <2>1, <2>8, <2>9, Applied
<1>12. CASE gone # {}
  <2>1. PICK t : t = AcceptRetirement(b, h.id)
    OBVIOUS
  <2>2. scheduler' = Nested(t, rest)
    BY <1>6, <1>7, <1>12, <2>1
  <2>3. PICK rec \in mine : rec \in records /\ rec.claim.id = h.id /\ (rec.retired \/ withdrawn)
    BY <1>4, <1>5, <1>12
  <2>4. \A x \in mine : x = rec
    BY <1>4, <1>7, <2>3 DEF RecordsAgree
  <2>5. gone = mine
    BY <1>5, <2>3, <2>4
  <2>6. records' \subseteq records /\ \A x \in records' : x.claim.id # h.id
    BY <1>4, <1>6, <2>5
  <2>7. PICK e : Fresh(e) /\ Ends(b, e, h.id) /\ Kept(e, t) /\ Prompt(t)
    BY <1>7, <2>1, AcceptRetirementKept
  <2>8. Agree(e, records', rest)
    BY <1>7, <1>8, <2>3, <2>6, <2>7, EndsAgree
  <2> QED
    BY <1>7, <1>9, <1>10, <2>2, <2>7, <2>8, Applied
<1> QED
  BY <1>11, <1>12

LEMMA ApplyStartKept == ASSUME IInv, ApplyStart PROVE IInv'
<1>1. PICK h : h = Head(effects)
  OBVIOUS
<1>2. PICK rest : rest = Tail(effects)
  OBVIOUS
<1>3. PICK b : b = Entered(scheduler)
  OBVIOUS
<1>4. PICK phase \in {"lookup", "generation"} :
        phase = IF h.work.row \in Cacheable THEN "lookup" ELSE "generation"
  OBVIOUS
<1>5. PICK new : new = [claim |-> h.work, phase |-> phase, canceled |-> FALSE,
                        retired |-> FALSE, staged |-> "none"]
  OBVIOUS
<1>6. /\ ~Idle /\ h.kind = "start" /\ records' = records \cup {new}
      /\ scheduler' = Returned(b) /\ UNCHANGED <<continuations, storeVars, bounds>>
  BY <1>1, <1>3, <1>4, <1>5 DEF ApplyStart
<1>7. /\ rest \in Seq(Effects) /\ h \in Effects
      /\ Fresh(b) /\ Prompt(b)
      /\ RecordsAgree(b, records) /\ StartsAgree(b, records, rest)
      /\ CancelsAgree(b, records, rest)
      /\ RowsAgree(b, rest)
      /\ HeadAgrees(b, records, h, rest)
      /\ \A t : Returned(t) = Nested(t, rest)
  BY <1>1, <1>2, <1>3, <1>6, FirstIs
<1>8. /\ Holds(b, h.work)
      /\ \A rec \in records : rec.claim.id # h.work.id
      /\ \A k \in DOMAIN rest : rest[k].kind = "start" => rest[k].work.id # h.work.id
  BY <1>6, <1>7 DEF HeadAgrees
<1>9. new.claim = h.work /\ ~new.canceled
  BY <1>5
<1>10. new \in Records
  <2>1. h.work \in Claims
    BY <1>6, <1>7 DEF Effects
  <2> QED
    BY <1>4, <1>5, <2>1 DEF Records
<1>11. RecordsAgree(b, records')
  BY <1>6, <1>7, <1>8, <1>9 DEF RecordsAgree
<1>12. StartsAgree(b, records', rest)
  BY <1>6, <1>7, <1>8, <1>9 DEF StartsAgree
<1>13. CancelsAgree(b, records', rest)
  BY <1>6, <1>7, <1>9 DEF CancelsAgree
<1>14. Agree(b, records', rest)
  BY <1>7, <1>11, <1>12, <1>13 DEF Agree
<1>15. Typed(records', continuations', ready', losses', opportunity') /\ Bounded(calls', pressure')
  BY <1>6, <1>10, TypedIs DEF Typed, storeVars, bounds
<1>16. scheduler' = Nested(b, rest) /\ Kept(b, b)
  BY <1>6, <1>7 DEF Fresh
<1> QED
  BY <1>7, <1>14, <1>15, <1>16, Applied

LEMMA ApplyContinueKept == ASSUME IInv, ApplyContinue PROVE IInv'
<1>1. PICK h : h = Head(effects)
  OBVIOUS
<1>2. PICK rest : rest = Tail(effects)
  OBVIOUS
<1>3. PICK b : b = Entered(scheduler)
  OBVIOUS
<1>4. /\ ~Idle /\ h.kind = "continue" /\ continuations' = continuations \cup {h.epoch}
      /\ scheduler' = Returned(b) /\ UNCHANGED <<records, storeVars, bounds>>
  BY <1>1, <1>3 DEF ApplyContinue
<1>5. /\ rest \in Seq(Effects) /\ h \in Effects
      /\ Fresh(b) /\ Prompt(b)
      /\ RecordsAgree(b, records) /\ StartsAgree(b, records, rest)
      /\ CancelsAgree(b, records, rest)
      /\ RowsAgree(b, rest)
      /\ \A t : Returned(t) = Nested(t, rest)
  BY <1>1, <1>2, <1>3, <1>4, FirstIs
<1>6. h.epoch \in Nat
  BY <1>4, <1>5 DEF Effects
<1>7. Typed(records', continuations', ready', losses', opportunity') /\ Bounded(calls', pressure')
  BY <1>4, <1>6, TypedIs DEF Typed, storeVars, bounds
<1>8. Agree(b, records', rest)
  BY <1>4, <1>5 DEF Agree
<1>9. scheduler' = Nested(b, rest) /\ Kept(b, b)
  BY <1>4, <1>5 DEF Fresh
<1> QED
  BY <1>5, <1>7, <1>8, <1>9, Applied

LEMMA ApplyRowsKept == ASSUME IInv, ApplyRows PROVE IInv'
<1>1. PICK h : h = Head(effects)
  OBVIOUS
<1>2. PICK rest : rest = Tail(effects)
  OBVIOUS
<1>3. PICK b : b = Entered(scheduler)
  OBVIOUS
<1>4. PICK rows : rows = NewRows(h.generation, scheduler.retiring)
  OBVIOUS
<1>5. PICK done : done = SetCurrentNumber(rows, h.current)
  OBVIOUS
<1>6. PICK u : u = IF opportunity THEN Readmit(done) ELSE done
  OBVIOUS
<1>7. /\ ~Idle /\ h.kind = "rows" /\ scheduler' = u /\ opportunity' = FALSE
      /\ UNCHANGED <<records, continuations, ready, losses, bounds>>
  BY <1>1, <1>4, <1>5, <1>6 DEF ApplyRows
<1>8. /\ h \in Effects /\ RecordsAgree(b, records) /\ HeadAgrees(b, records, h, rest) /\ Fresh(b)
  BY <1>1, <1>2, <1>3, <1>7, FirstIs
<1>9. /\ b.generation = 0 /\ h.generation > 0
      /\ \A c \in b.retiring : c.generation < h.generation
  BY <1>7, <1>8 DEF HeadAgrees
<1>10. h.generation \in Nat /\ h.current \in Rows \cup {0}
  BY <1>7, <1>8 DEF Effects
<1>11. scheduler \in SchedulerStates /\ b.retiring = scheduler.retiring
  BY <1>3, TypedIs, EnteredIs
<1>12. b \in SchedulerStates /\ LedgerSound(b) /\ RowsSound(b)
  BY <1>8 DEF Fresh, Kept, Core
<1>13. Working(b) = {} /\ Ledger(b) = b.retiring
  <2>1. Working(b) = {}
    BY <1>9, <1>12 DEF RowsSound, RowSound, Working
  <2> QED
    BY <2>1 DEF Ledger
<1>14. rows \in SchedulerStates
  <2>1. scheduler.retiring \in SUBSET Claims
    BY <1>11, StateOf
  <2> QED
    BY <1>4, <1>10, <2>1, NewRowsTyped
<1>15. /\ Empty(rows) /\ rows.retiring = b.retiring /\ rows.generation = h.generation
       /\ rows.effects = <<>>
  BY <1>4, <1>11 DEF NewRows, Empty
<1>16. Rested(rows) /\ Ledger(rows) = Ledger(b)
  <2>1. IsFiniteSet(b.retiring) /\ Cardinality(b.retiring) <= Capacity
    <3>1. IsFiniteSet(b.retiring) /\ Places(b) <= Capacity
      BY <1>12 DEF LedgerSound
    <3>2. Cardinality(b.retiring) \in Nat
      BY <3>1, FS_CardinalityType
    <3> QED
      BY <1>13, <3>1, <3>2, FS_EmptySet DEF Places
  <2>2. \A c, d \in b.retiring :
          c # d => c.id # d.id /\ (c.row # d.row \/ c.generation # d.generation)
    BY <1>12, <1>13 DEF LedgerSound
  <2>3. \A c \in b.retiring : c.generation <= h.generation
    <3> TAKE c \in b.retiring
    <3>1. c.generation \in Nat
      BY <1>12, StateOf DEF Claims
    <3> QED
      BY <1>9, <1>10, <3>1
  <2> QED
    BY <1>13, <1>15, <2>1, <2>2, <2>3, EmptyRested
<1>17. Fresh(rows)
  BY <1>14, <1>15, <1>16, FreshIs DEF Rested
<1>18. Agree(rows, records, <<>>)
  <2>1. RecordsAgree(rows, records)
    BY <1>8, <1>15, <1>16 DEF RecordsAgree, Holds
  <2>2. rows.generation # 0
    BY <1>9, <1>10, <1>15
  <2> QED
    BY <2>1, <2>2, NoEffects
<1>19. Kept(rows, done) /\ Prompt(done)
  BY <1>5, <1>10, <1>17, SetCurrentNumberKept DEF Fresh
<1>20. Kept(rows, u) /\ Prompt(u)
  BY <1>6, <1>19, ReadmitKept
<1>21. u \in SchedulerStates /\ Rested(u) /\ Agree(u, records, u.effects)
  BY <1>18, <1>20, ResumeIdle
<1>22. Typed(records', continuations', ready', losses', opportunity') /\ Bounded(calls', pressure')
  BY <1>7, TypedIs DEF Typed, bounds
<1> QED
  BY <1>7, <1>21, <1>22, Concludes

LEMMA ApplyAcceptKept == ASSUME IInv, ApplyAccept PROVE IInv'
<1>1. PICK h : h = Head(effects)
  OBVIOUS
<1>2. PICK rest : rest = Tail(effects)
  OBVIOUS
<1>3. PICK b : b = Entered(scheduler)
  OBVIOUS
<1>4. ~Idle /\ h.kind = "accept" /\ UNCHANGED <<records, continuations, calls>>
  BY <1>1 DEF ApplyAccept
<1>5. /\ rest \in Seq(Effects) /\ h \in Effects
      /\ Fresh(b) /\ Prompt(b)
      /\ RecordsAgree(b, records) /\ StartsAgree(b, records, rest)
      /\ CancelsAgree(b, records, rest)
      /\ RowsAgree(b, rest)
      /\ \A t : Returned(t) = Nested(t, rest)
  BY <1>1, <1>2, <1>3, <1>4, FirstIs
<1>6. h.row \in Rows
  BY <1>4, <1>5 DEF Effects
<1>7. Agree(b, records', rest) /\ Kept(b, b)
  BY <1>4, <1>5 DEF Agree, Fresh
<1>8. /\ Typed(records, continuations, ready, losses, opportunity)
      /\ calls \in 0 .. MaxCalls /\ pressure \in Nat /\ pressure <= MaxPressure
      /\ MaxPressure \in Nat
  BY TypedIs, BoundsAssumption DEF Bounded
<1>9. CASE scheduler' = Returned(Entered(scheduler)) /\ UNCHANGED <<storeVars, pressure>>
  <2>1. scheduler' = Nested(b, rest)
    BY <1>3, <1>5, <1>9
  <2>2. /\ Typed(records', continuations', ready', losses', opportunity')
        /\ Bounded(calls', pressure')
    BY <1>4, <1>8, <1>9 DEF Typed, Bounded, storeVars
  <2> QED
    BY <1>5, <1>7, <2>1, <2>2, Applied
<1>10. CASE \E evicted \in {S \in SUBSET (ready \ {h.row}) :
                              Cardinality(S) <= 1 /\ pressure + Cardinality(S) <= MaxPressure} :
              InstallImage(evicted)
  <2>1. PICK evicted \in SUBSET (ready \ {h.row}) :
          pressure + Cardinality(evicted) <= MaxPressure /\ InstallImage(evicted)
    BY <1>10
  <2>2. /\ ready' = (ready \cup {h.row}) \ evicted
        /\ losses' = (losses \ {h.row}) \cup evicted
        /\ pressure' = pressure + Cardinality(evicted)
        /\ opportunity' = (opportunity \/ h.row \in ready)
        /\ scheduler' = Returned(b)
    BY <1>1, <1>3, <2>1 DEF InstallImage
  <2>3. evicted \in SUBSET Rows
    BY <1>8, <2>1 DEF Typed
  <2>4. Cardinality(evicted) \in Nat
    BY <2>3, Sizes
  <2>5. Bounded(calls', pressure')
    BY <1>4, <1>8, <2>1, <2>2, <2>4 DEF Bounded
  <2>6. Typed(records', continuations', ready', losses', opportunity')
    BY <1>4, <1>6, <1>8, <2>2, <2>3 DEF Typed
  <2>7. scheduler' = Nested(b, rest)
    BY <1>5, <2>2
  <2> QED
    BY <1>5, <1>7, <2>5, <2>6, <2>7, Applied
<1>11. CASE /\ pressure < MaxPressure /\ pressure' = pressure + 1
            /\ scheduler' = Returned(LoseResidency(Entered(scheduler), {h.row}))
            /\ UNCHANGED storeVars
  <2>1. PICK t : t = LoseResidency(b, {h.row})
    OBVIOUS
  <2>2. Kept(b, t) /\ Prompt(t)
    BY <1>5, <1>7, <2>1, LoseResidencyKept
  <2>3. scheduler' = Nested(t, rest)
    BY <1>3, <1>5, <1>11, <2>1
  <2>4. pressure + 1 \in 0 .. MaxPressure
    BY <1>8, <1>11
  <2>5. /\ Typed(records', continuations', ready', losses', opportunity')
        /\ Bounded(calls', pressure')
    BY <1>4, <1>8, <1>11, <2>4 DEF Typed, Bounded, storeVars
  <2> QED
    BY <1>5, <1>7, <2>2, <2>3, <2>5, Applied
<1> QED
  BY <1>1, <1>9, <1>10, <1>11 DEF ApplyAccept

\* A record changes, but not the work it is about.
LEMMA Relabeled ==
  ASSUME NEW s, NEW recs, RecordsAgree(s, recs), NEW rec \in recs, NEW new,
         new.claim = rec.claim, new.canceled = rec.canceled,
         NEW after, after \subseteq (recs \ {rec}) \cup {new}
  PROVE  RecordsAgree(s, after)
<1>1. \A x \in after : Holds(s, x.claim)
  BY DEF RecordsAgree
<1>2. \A x, y \in after : x # y => x.claim.id # y.claim.id
  BY DEF RecordsAgree
<1>3. \A x \in after : x.canceled => \E c \in s.retiring : c.id = x.claim.id
  BY DEF RecordsAgree
<1> QED
  BY <1>1, <1>2, <1>3 DEF RecordsAgree

\* A job is still running when its record changes.
LEMMA RelabeledKept ==
  ASSUME IInv, Idle, NEW rec \in records, NEW new \in Records,
         new.claim = rec.claim, new.canceled = rec.canceled,
         records' \subseteq (records \ {rec}) \cup {new},
         scheduler' = scheduler, UNCHANGED <<continuations, storeVars, bounds>>
  PROVE  IInv'
<1>1. /\ scheduler \in SchedulerStates /\ RecordsAgree(scheduler, records)
      /\ scheduler.generation # 0
  BY IdleIs
<1>2. RecordsAgree(scheduler, records')
  BY <1>1, Relabeled
<1>3. scheduler.effects = <<>>
  BY DEF Idle, effects
<1>4. Agree(scheduler, records', scheduler.effects)
  BY <1>1, <1>2, <1>3, NoEffects
<1>5. Typed(records', continuations', ready', losses', opportunity') /\ Bounded(calls', pressure')
  BY TypedIs DEF Typed, storeVars, bounds
<1> QED
  BY <1>4, <1>5, TypedIs, Concludes

\* The record of a job is gone when the scheduler hears of it.
LEMMA EndedKept ==
  ASSUME IInv, Idle, NEW rec \in records, records' \subseteq records \ {rec},
         NEW b, NEW t, Fresh(b), Ends(scheduler, b, rec.claim.id), Kept(b, t), Prompt(t),
         scheduler' = t, UNCHANGED <<continuations, storeVars, bounds>>
  PROVE  IInv'
<1>1. PICK none \in Seq(Effects) : none = <<>>
  <2>1. <<>> \in Seq(Effects)
    OBVIOUS
  <2> QED
    BY <2>1, Zenon
<1>2. /\ scheduler \in SchedulerStates
      /\ RecordsAgree(scheduler, records) /\ Agree(scheduler, records, none)
  BY <1>1, IdleIs
<1>3. DOMAIN none = {}
  BY <1>1
<1>4. \A x \in records' : x.claim.id # rec.claim.id
  BY <1>2 DEF RecordsAgree
<1>5. Agree(b, records', none)
  <2>1. records' \subseteq records
    OBVIOUS
  <2> QED
    BY <1>2, <1>3, <1>4, <2>1, EndsAgree DEF Agree
<1>6. t \in SchedulerStates /\ Rested(t) /\ Agree(t, records', t.effects)
  BY <1>1, <1>5, ResumeIdle
<1>7. Typed(records', continuations', ready', losses', opportunity') /\ Bounded(calls', pressure')
  BY TypedIs DEF Typed, storeVars, bounds
<1> QED
  BY <1>6, <1>7, Concludes

\* A job ends, or goes on to generate: rec is its record with the result it has.
LEMMA RetirePhaseKept ==
  ASSUME IInv, Idle, NEW old \in records, NEW rec \in Records,
         rec.claim = old.claim, rec.canceled = old.canceled,
         NEW after, after = RetirePhase(rec, scheduler),
         records' = after[1] \ {old} \/ (rec = old /\ records' = after[1]),
         scheduler' = after[2], UNCHANGED <<continuations, storeVars, bounds>>
  PROVE  IInv'
<1>1. Fresh(scheduler) /\ Prompt(scheduler)
  BY IdleIs
<1>2. CASE rec.canceled
  <2>1. PICK t : t = AcceptRetirement(scheduler, rec.claim.id)
    OBVIOUS
  <2>2. after = <<records \ {rec}, t>>
    BY <1>2, <2>1 DEF RetirePhase
  <2>3. scheduler' = t /\ records' \subseteq records \ {old}
    BY <2>2
  <2>4. PICK b : Fresh(b) /\ Ends(scheduler, b, old.claim.id) /\ Kept(b, t) /\ Prompt(t)
    BY <1>1, <2>1, AcceptRetirementKept
  <2> QED
    BY <2>3, <2>4, EndedKept
<1>3. CASE ~rec.canceled /\ rec.staged \in {"ready", "failed"}
  <2>1. PICK t : t = AcceptCompletion(scheduler, rec.claim, rec.staged)
    OBVIOUS
  <2>2. after = <<records \ {rec}, t>>
    BY <1>3, <2>1 DEF RetirePhase
  <2>3. scheduler' = t /\ records' \subseteq records \ {old}
    BY <2>2
  <2>4. rec.claim \in Claims
    BY DEF Records
  <2>5. PICK b : Fresh(b) /\ Ends(scheduler, b, old.claim.id) /\ Kept(b, t) /\ Prompt(t)
    BY <1>1, <1>3, <2>1, <2>4, AcceptCompletionKept
  <2> QED
    BY <2>3, <2>5, EndedKept
<1>4. CASE ~rec.canceled /\ rec.staged = "missing"
  <2>1. PICK new : new = [rec EXCEPT !.phase = "generation", !.staged = "none", !.retired = FALSE]
    OBVIOUS
  <2>2. new \in Records /\ new.claim = rec.claim /\ new.canceled = rec.canceled
    BY <2>1 DEF Records
  <2>3. after = <<(records \ {rec}) \cup {new}, scheduler>>
    BY <1>4, <2>1 DEF RetirePhase
  <2>4. scheduler' = scheduler /\ records' \subseteq (records \ {old}) \cup {new}
    BY <2>3
  <2> QED
    BY <2>2, <2>4, RelabeledKept
<1>5. CASE ~rec.canceled /\ rec.staged \notin {"missing", "ready", "failed"}
  <2>1. PICK new : new = [rec EXCEPT !.retired = TRUE]
    OBVIOUS
  <2>2. new \in Records /\ new.claim = rec.claim /\ new.canceled = rec.canceled
    BY <2>1 DEF Records
  <2>3. after = <<(records \ {rec}) \cup {new}, scheduler>>
    BY <1>5, <2>1 DEF RetirePhase
  <2>4. scheduler' = scheduler /\ records' \subseteq (records \ {old}) \cup {new}
    BY <2>3
  <2> QED
    BY <2>2, <2>4, RelabeledKept
<1> QED
  BY <1>2, <1>3, <1>4, <1>5

LEMMA JobReportsKept ==
  ASSUME IInv, NEW rec, NEW result \in Results(rec), JobReports(rec, result)
  PROVE  IInv'
<1>1. PICK staged : staged = [rec EXCEPT !.staged = result]
  OBVIOUS
<1>2. PICK after : after = IF rec.retired THEN RetirePhase(staged, scheduler)
                                          ELSE <<records \cup {staged}, scheduler>>
  OBVIOUS
<1>3. /\ Idle /\ rec \in records /\ ~rec.canceled
      /\ records' = after[1] \ {rec} /\ scheduler' = after[2]
      /\ UNCHANGED <<continuations, storeVars, bounds>>
  BY <1>1, <1>2 DEF JobReports
<1>4. result \in {"ready", "missing", "failed"}
  BY DEF Results
<1>5. staged \in Records /\ staged.claim = rec.claim /\ staged.canceled = rec.canceled
  BY <1>1, <1>3, <1>4, TypedIs DEF Typed, Records
<1>6. CASE rec.retired
  BY <1>2, <1>3, <1>5, <1>6, RetirePhaseKept
<1>7. CASE ~rec.retired
  <2>1. after[1] = records \cup {staged} /\ after[2] = scheduler
    BY <1>2, <1>7
  <2>2. scheduler' = scheduler /\ records' \subseteq (records \ {rec}) \cup {staged}
    BY <1>3, <2>1
  <2> QED
    BY <1>3, <1>5, <2>2, RelabeledKept
<1> QED
  BY <1>6, <1>7

LEMMA JobRetiresKept == ASSUME IInv, NEW rec, JobRetires(rec) PROVE IInv'
<1>1. PICK after : after = RetirePhase(rec, scheduler)
  OBVIOUS
<1>2. /\ Idle /\ rec \in records /\ records' = after[1] /\ scheduler' = after[2]
      /\ UNCHANGED <<continuations, storeVars, bounds>>
  BY <1>1 DEF JobRetires
<1>3. rec \in Records
  BY <1>2, TypedIs DEF Typed
<1> QED
  BY <1>1, <1>2, <1>3, RetirePhaseKept

LEMMA StutterKept == ASSUME IInv, UNCHANGED vars PROVE IInv'
<1>1. UNCHANGED <<scheduler, records, continuations, ready, losses, opportunity, calls, pressure>>
  BY DEF vars, storeVars, bounds
<1>2. /\ Typed(records', continuations', ready', losses', opportunity')
      /\ Bounded(calls', pressure') /\ Agree(scheduler, records', scheduler.effects)
  BY <1>1, TypedIs DEF effects
<1> QED
  BY <1>1, <1>2, TypedIs, Concludes

LEMMA NextKept == ASSUME IInv, Next PROVE IInv'
<1>1. CASE SessionCall
  BY <1>1, SelectRowKept, ReplaceRowsKept, ReportDemandKept, RefreshSourceKept DEF SessionCall
<1>2. CASE ApplyEffect
  BY <1>2, ApplyCancelKept, ApplyStartKept, ApplyContinueKept, ApplyRowsKept, ApplyAcceptKept
     DEF ApplyEffect
<1>3. CASE JobStep
  BY <1>3, JobRetiresKept, JobReportsKept DEF JobStep
<1>4. CASE QueuedCall
  BY <1>4, ReconcileKept, ContinueKept DEF QueuedCall
<1>5. CASE CapacityFrees
  BY <1>5, CapacityFreesKept
<1> QED
  BY <1>1, <1>2, <1>3, <1>4, <1>5 DEF Next

LEMMA InitIs == Init => IInv
<1> SUFFICES ASSUME Init PROVE IInv
  OBVIOUS
<1>1. PICK s : s = NewRows(1, {})
  OBVIOUS
<1>2. scheduler = s /\ s \in SchedulerStates
  BY <1>1, NewRowsTyped DEF Init
<1>3. Empty(s) /\ s.retiring = {} /\ s.generation = 1 /\ s.effects = <<>>
  BY <1>1 DEF NewRows, Empty
<1>4. IsFiniteSet({}) /\ Cardinality({}) <= Capacity
  BY FS_EmptySet, CapacityAssumption
<1>5. Rested(s)
  BY <1>3, <1>4, EmptyRested
<1>6. RecordsAgree(s, {})
  BY DEF RecordsAgree
<1>7. Agree(s, {}, s.effects)
  BY <1>3, <1>6, NoEffects
<1>8. TypeOK
  <2>1. 0 \in 0 .. MaxCalls /\ 0 \in 0 .. MaxPressure
    BY BoundsAssumption
  <2> QED
    BY <1>2, <2>1 DEF Init, TypeOK
<1> QED
  BY <1>2, <1>5, <1>7, <1>8 DEF IInv, Init, effects

-----------------------------------------------------------------------------
(* What the invariant says of the work admitted.                           *)

LEMMA LedgerFits ==
  ASSUME NEW s \in SchedulerStates, LedgerSound(s)
  PROVE  IsFiniteSet(Ledger(s)) /\ Cardinality(Ledger(s)) <= Capacity
<1> DEFINE active == {s.work[r] : r \in Working(s)}
           rowOf == [c \in active |-> c.row]
<1>1. /\ IsFiniteSet(s.retiring) /\ Places(s) <= Capacity
      /\ \A r \in Working(s) : s.work[r].row = r
  BY DEF LedgerSound
<1>2. Working(s) \in SUBSET Rows
  BY DEF Working
<1>3. IsFiniteSet(Working(s)) /\ Cardinality(Working(s)) \in Nat
  BY <1>2, Sizes
<1>4. rowOf \in Injection(active, Working(s))
  <2>1. rowOf \in [active -> Working(s)]
    BY <1>1
  <2>2. \A a, c \in active : a.row = c.row => a = c
    BY <1>1
  <2> QED
    BY <2>1, <2>2 DEF Injection, IsInjective
<1>5. IsFiniteSet(active) /\ Cardinality(active) <= Cardinality(Working(s))
  <2> HIDE DEF active, rowOf
  <2> QED
    BY <1>3, <1>4, FS_Injection
<1>6. /\ Cardinality(active) \in Nat /\ Cardinality(s.retiring) \in Nat
  BY <1>1, <1>5, FS_CardinalityType
<1>7. /\ IsFiniteSet(s.retiring \cup active)
      /\ Cardinality(s.retiring \cup active) =
           Cardinality(s.retiring) + Cardinality(active) - Cardinality(s.retiring \cap active)
  <2> HIDE DEF active
  <2> QED
    BY <1>1, <1>5, FS_Union
<1>8. Cardinality(s.retiring \cap active) \in Nat
  <2> HIDE DEF active
  <2>1. s.retiring \cap active \in SUBSET s.retiring
    OBVIOUS
  <2>2. IsFiniteSet(s.retiring \cap active)
    BY <1>1, <2>1, FS_Subset
  <2> QED
    BY <2>2, FS_CardinalityType
<1>9. Ledger(s) = s.retiring \cup active
  BY DEF Ledger
<1>10. Capacity \in Nat
  BY CapacityAssumption
<1> HIDE DEF active
<1> QED
  BY <1>1, <1>3, <1>5, <1>6, <1>7, <1>8, <1>9, <1>10 DEF Places

\* Distinct jobs work for distinct claims.
LEMMA RecordsFit ==
  ASSUME NEW s \in SchedulerStates, LedgerSound(s), NEW recs, RecordsAgree(s, recs)
  PROVE  /\ IsFiniteSet(recs) /\ Cardinality(recs) <= Capacity
         /\ \A a, c \in recs : a # c =>
              a.claim.row # c.claim.row \/ a.claim.generation # c.claim.generation
<1> DEFINE claimOf == [rec \in recs |-> CHOOSE d \in Ledger(s) : SameWork(rec.claim, d)]
<1>1. \A rec \in recs : \E d \in Ledger(s) : SameWork(rec.claim, d)
  BY DEF RecordsAgree, Holds
<1>2. \A rec \in recs : claimOf[rec] \in Ledger(s) /\ SameWork(rec.claim, claimOf[rec])
  BY <1>1
<1>3. claimOf \in [recs -> Ledger(s)]
  BY <1>2
<1> HIDE DEF claimOf
<1>4. \A a, c \in recs : a # c => claimOf[a].id # claimOf[c].id
  BY <1>2 DEF RecordsAgree, SameWork
<1>5. claimOf \in Injection(recs, Ledger(s))
  <2>1. DOMAIN claimOf = recs
    BY <1>3
  <2> QED
    BY <1>3, <1>4, <2>1 DEF Injection, IsInjective
<1>6. IsFiniteSet(Ledger(s)) /\ Cardinality(Ledger(s)) <= Capacity
  BY LedgerFits
<1>7. IsFiniteSet(recs) /\ Cardinality(recs) <= Cardinality(Ledger(s))
  BY <1>5, <1>6, FS_Injection
<1>8. Cardinality(recs) <= Capacity
  <2>1. /\ Cardinality(recs) \in Nat /\ Cardinality(Ledger(s)) \in Nat /\ Capacity \in Nat
    BY <1>6, <1>7, FS_CardinalityType, CapacityAssumption
  <2> QED
    BY <1>6, <1>7, <2>1
<1>9. ASSUME NEW a \in recs, NEW c \in recs, a # c
      PROVE  a.claim.row # c.claim.row \/ a.claim.generation # c.claim.generation
  <2>1. claimOf[a] # claimOf[c]
    BY <1>4, <1>9
  <2>2. \/ claimOf[a].row # claimOf[c].row
        \/ claimOf[a].generation # claimOf[c].generation
    BY <1>2, <2>1 DEF LedgerSound
  <2> QED
    BY <1>2, <2>2 DEF SameWork
<1> QED
  BY <1>7, <1>8, <1>9

LEMMA AdmissionHolds == IInv => AdmissionBound
<1> SUFFICES ASSUME IInv PROVE AdmissionBound
  OBVIOUS
<1>1. scheduler \in SchedulerStates /\ LedgerSound(scheduler) /\ RecordsAgree(scheduler, records)
  BY TypedIs DEF Rested, Agree
<1> QED
  BY <1>1, RecordsFit DEF AdmissionBound

LEMMA RowSetsHold == IInv => RowSetsAgree
<1> SUFFICES ASSUME IInv PROVE RowSetsAgree
  OBVIOUS
<1>1. scheduler \in SchedulerStates /\ ActiveListed(scheduler) /\ RowsSound(scheduler)
  BY TypedIs DEF Rested
<1>2. /\ scheduler.high \in SUBSET Rows /\ scheduler.nearby \in SUBSET Rows
      /\ scheduler.activeNearby \in SUBSET Rows
  BY <1>1, StateOf
<1> DEFINE s == scheduler
           waiting == {r \in Rows : s.demand[r] # None /\ r \notin s.blocked /\ ~DemandComplete(s,
             r)}
           isHigh(r) == TierFor(s, r, s.demand[r]) \in {"current", "visible"}
<1>3. \A r \in Rows : Waits(s, r) <=> r \in waiting
  BY DEF Waits
<1>4. \A r \in Rows : IsHigh(s, r) <=> isHigh(r)
  BY DEF IsHigh
<1>5. \A r \in Rows : RowListed(s, r)
  BY <1>1 DEF RowsSound
<1>6. s.high = {r \in waiting : isHigh(r)} /\ s.nearby = {r \in waiting : ~isHigh(r)}
  <2>1. waiting \in SUBSET Rows
    OBVIOUS
  <2> HIDE DEF waiting, isHigh
  <2> QED
    BY <1>2, <1>3, <1>4, <1>5, <2>1 DEF RowListed
<1>7. s.activeNearby = {r \in Rows : s.work[r] # None /\ s.work[r].tier = "nearby"}
  BY <1>1, <1>2 DEF ActiveListed
<1>8. {r \in Rows : s.work[r] # None /\ s.work[r].tier = "background"}
        = {r \in Rows : r = s.activeBackground}
  BY <1>1 DEF ActiveListed
<1> QED
  BY <1>6, <1>7, <1>8 DEF RowSetsAgree

LEMMA ForegroundHolds == IInv => ForegroundFirst
<1> SUFFICES ASSUME IInv PROVE ForegroundFirst
  OBVIOUS
<1>1. Prompt(scheduler)
  BY TypedIs DEF Rested
<1> QED
  BY <1>1 DEF ForegroundFirst, Prompt, WaitsForCause, Cause

-----------------------------------------------------------------------------
(* The theorems. *)

\* Whatever the strip reports, whatever finishes, is lost or is refused, and in
\* whatever order the effects of the scheduler enter it again: its ledger is
\* sound, the jobs that run and the effects that wait are about the work of the
\* ledger, and the rows are listed for the tier they have.
THEOREM Inductive == Spec => []IInv
<1>1. Init => IInv
  BY InitIs
<1>2. IInv /\ [Next]_vars => IInv'
  BY NextKept, StutterKept
<1> QED
  BY <1>1, <1>2, PTL DEF Spec

\* The scheduler, its jobs and the row store keep to their types.
THEOREM TypeCorrect == Spec => []TypeOK
<1>1. IInv => TypeOK
  BY DEF IInv
<1> QED
  BY <1>1, Inductive, PTL

\* The sets of rows that the scheduler keeps beside the rows never disagree with
\* them: no demand is forgotten and no row without one is admitted.
THEOREM RowSetsCorrect == Spec => []RowSetsAgree
BY RowSetsHold, Inductive, PTL

\* Never more jobs than places, canceled jobs that still run included, and never
\* two for one row of one navigation.
THEOREM AdmissionCorrect == Spec => []AdmissionBound
BY AdmissionHolds, Inductive, PTL

\* Between the calls no speculative work runs beside a row of a higher tier that
\* waits, and a row of the tier in turn waits only for a place or its own
\* canceled work.
THEOREM ForegroundCorrect == Spec => []ForegroundFirst
BY ForegroundHolds, Inductive, PTL

\* No job runs that the ledger does not know, no two are of one id, and a canceled job is
\* one the ledger knows to retire. What can fail of LedgerAgrees is the converse: work that
\* the ledger names, or names as retiring, of which no job knows.
THEOREM JobsAreKnown == Spec => []RecordsAgree(scheduler, records)
<1>1. IInv => RecordsAgree(scheduler, records)
  BY DEF IInv, Agree
<1> QED
  BY <1>1, Inductive, PTL
=============================================================================
