----------------------- MODULE PredecodeSchedulerProofs -----------------------
(***************************************************************************)
(* Proofs about the preparation of neighbouring pages: the typing of its   *)
(* state, the bound on decodes, the silence under power saver, the latest  *)
(* selection and what may be started, for any number of pages, any limit   *)
(* and any windows.                                                        *)
(***************************************************************************)
EXTENDS PredecodeScheduler, WellFoundedInduction, FiniteSetTheorems, TLAPS

-----------------------------------------------------------------------------
(* Induction over the length of a sequence, as the least counterexample.   *)

LEMMA Least == ASSUME NEW T \in SUBSET Nat, T # {} PROVE \E m \in T : \A k \in T : m <= k
<1> DEFINE Less == {p \in Nat \X Nat : p[1] < p[2]}
<1>1. OpToRel(<, Nat) = Less
  BY Zenon DEF OpToRel
<1>2. IsWellFoundedOn(Less, Nat)
  BY <1>1, NatLessThanWellFounded, Zenon
<1>3. \A k, m \in Nat : k < m => <<k, m>> \in Less
  OBVIOUS
<1> HIDE DEF Less
<1>4. PICK m \in T : \A k \in T : ~ (<<k, m>> \in Less)
  BY <1>2, WFMin, Zenon
<1>5. ASSUME NEW k \in T PROVE m <= k
  <2>1. k \in Nat /\ m \in Nat
    OBVIOUS
  <2>2. ~ (k < m)
    BY <1>3, <1>4, <2>1, Zenon
  <2> QED
    BY <2>1, <2>2
<1> QED
  BY <1>5

Builds(f, s, T) ==
  /\ f[0] = <<>>
  /\ \A n \in 1 .. Len(s) : f[n] = IF s[n] \in T THEN Append(f[n - 1], s[n]) ELSE f[n - 1]

LEMMA KeptDef ==
  ASSUME NEW S, NEW s \in Seq(S), NEW T
  PROVE  \E f \in [0 .. Len(s) -> Seq(S)] : Builds(f, s, T) /\ Kept(s, T) = f[Len(s)]
<1> DEFINE Grow(v, k) == IF s[k] \in T THEN Append(v, s[k]) ELSE v
           Part(n, g) == /\ g \in [0 .. n -> Seq(S)]
                         /\ g[0] = <<>>
                         /\ \A k \in 1 .. n : g[k] = Grow(g[k - 1], k)
           Bad == {n \in 0 .. Len(s) : ~ \E g : Part(n, g)}
<1>a. Len(s) \in Nat
  OBVIOUS
<1>b. \A k \in 1 .. Len(s), v \in Seq(S) : Grow(v, k) \in Seq(S)
  OBVIOUS
<1> HIDE DEF Grow
<1>1. Bad = {}
  <2> SUFFICES ASSUME Bad # {} PROVE FALSE
    OBVIOUS
  <2>0. Bad \in SUBSET Nat
    BY <1>a
  <2> HIDE DEF Bad
  <2>1. PICK m \in Bad : \A k \in Bad : m <= k
    BY <2>0, Least
  <2> USE DEF Bad
  <2>2. Part(0, [k \in 0 .. 0 |-> <<>>])
    OBVIOUS
  <2> HIDE DEF Part
  <2>3. m # 0 /\ m \in 0 .. Len(s)
    BY <2>1, <2>2
  <2>4. m - 1 \in 0 .. Len(s) /\ m \in 1 .. Len(s)
    BY <1>a, <2>3
  <2>5. PICK g : Part(m - 1, g)
    BY <2>1, <2>4
  <2> USE DEF Part
  <2> DEFINE h == [k \in 0 .. m |-> IF k = m THEN Grow(g[m - 1], m) ELSE g[k]]
  <2>6. \A k \in 0 .. m - 1 : h[k] = g[k] /\ g[k] \in Seq(S)
    BY <2>4, <2>5
  <2>7. h[m] = Grow(g[m - 1], m) /\ h[m] \in Seq(S)
    BY <1>b, <2>4, <2>5
  <2>8. h \in [0 .. m -> Seq(S)]
    <3>1. \A k \in 0 .. m : k = m \/ k \in 0 .. m - 1
      BY <2>4
    <3>2. \A k \in 0 .. m : h[k] \in Seq(S)
      BY <2>6, <2>7, <3>1
    <3> QED
      BY <3>2
  <2>9. h[0] = <<>>
    BY <2>4, <2>5, <2>6
  <2>10. \A k \in 1 .. m : h[k] = Grow(h[k - 1], k)
    <3> TAKE k \in 1 .. m
    <3>1. CASE k = m
      BY <3>1, <2>4, <2>6, <2>7
    <3>2. CASE k # m
      BY <3>2, <2>4, <2>5, <2>6
    <3> QED
      BY <3>1, <3>2
  <2> HIDE DEF h
  <2>11. Part(m, h)
    BY <2>8, <2>9, <2>10
  <2> QED
    BY <2>1, <2>11
<1>2. PICK g : Part(Len(s), g)
  BY <1>1, <1>a
<1> DEFINE Body(f) == [n \in 0 .. Len(s) |->
                        IF n = 0 THEN <<>>
                        ELSE IF s[n] \in T THEN Append(f[n - 1], s[n]) ELSE f[n - 1]]
           up == CHOOSE f : f = Body(f)
<1>3. g = Body(g)
  <2>1. g \in [0 .. Len(s) -> Seq(S)]
    BY <1>2
  <2>2. g[0] = <<>>
    BY <1>2
  <2>3. \A n \in 0 .. Len(s) : n # 0 => n \in 1 .. Len(s)
    BY <1>a
  <2>4. \A n \in 1 .. Len(s) :
          n # 0 /\ g[n] = IF s[n] \in T THEN Append(g[n - 1], s[n]) ELSE g[n - 1]
    BY <1>2 DEF Grow
  <2>5. \A n \in 0 .. Len(s) : g[n] = Body(g)[n]
    BY <2>2, <2>3, <2>4
  <2> QED
    BY <2>1, <2>5
<1>4. up = Body(up)
  BY <1>3, Zenon
<1>5. Kept(s, T) = up[Len(s)]
  BY DEF Kept
<1>6. up = g
  <2> HIDE DEF up
  <2> DEFINE Off == {n \in 0 .. Len(s) : up[n] # g[n]}
  <2>1. Off = {}
    <3> SUFFICES ASSUME Off # {} PROVE FALSE
      OBVIOUS
    <3>0. Off \in SUBSET Nat
      BY <1>a
    <3> HIDE DEF Off
    <3>1. PICK m \in Off : \A k \in Off : m <= k
      BY <3>0, Least
    <3> USE DEF Off
    <3>2. m # 0 /\ m \in 0 .. Len(s)
      BY <1>3, <1>4
    <3>3. m - 1 \in 0 .. Len(s) /\ m - 1 \notin Off
      BY <1>a, <3>1, <3>2
    <3>4. up[m] = g[m]
      BY <3>2, <3>3, <1>3, <1>4
    <3> QED
      BY <3>4
  <2> QED
    BY <2>1, <1>3, <1>4
<1> HIDE DEF up
<1> QED
  BY <1>2, <1>5, <1>6 DEF Grow, Builds

LEMMA KeptIs ==
  ASSUME NEW S, NEW s \in Seq(S), NEW T
  PROVE  Kept(s, T) \in Seq(S) /\ Elements(Kept(s, T)) = Elements(s) \cap T
<1>1. PICK f \in [0 .. Len(s) -> Seq(S)] : Builds(f, s, T) /\ Kept(s, T) = f[Len(s)]
  BY KeptDef
<1>a. Len(s) \in Nat
  OBVIOUS
<1> DEFINE Upto(n) == {s[i] : i \in 1 .. n}
           Bad == {n \in 0 .. Len(s) : Elements(f[n]) # Upto(n) \cap T}
<1>2. Bad = {}
  <2> SUFFICES ASSUME Bad # {} PROVE FALSE
    OBVIOUS
  <2>0. Bad \in SUBSET Nat
    BY <1>a
  <2> HIDE DEF Bad
  <2>1. PICK m \in Bad : \A k \in Bad : m <= k
    BY <2>0, Least
  <2> USE DEF Bad
  <2>2. m # 0 /\ m \in 0 .. Len(s)
    <3>1. Elements(f[0]) = {}
      BY <1>1 DEF Elements, Builds
    <3> QED
      BY <3>1
  <2>3. m \in 1 .. Len(s) /\ m - 1 \in 0 .. Len(s) /\ m - 1 \notin Bad
    <3>1. m \in 1 .. Len(s) /\ m - 1 \in 0 .. Len(s) /\ ~ (m <= m - 1)
      BY <1>a, <2>2
    <3> HIDE DEF Bad
    <3> QED
      BY <2>1, <3>1
  <2>4. Elements(f[m - 1]) = Upto(m - 1) \cap T /\ f[m - 1] \in Seq(S)
    BY <2>3
  <2>5. ASSUME NEW v \in Seq(S), NEW x \in S PROVE Elements(Append(v, x)) = Elements(v) \cup {x}
    <3>1. Len(Append(v, x)) = Len(v) + 1 /\ Append(v, x)[Len(v) + 1] = x
      OBVIOUS
    <3>2. \A i \in 1 .. Len(v) : Append(v, x)[i] = v[i]
      OBVIOUS
    <3>3. Len(v) \in Nat
      OBVIOUS
    <3> QED
      BY <3>1, <3>2, <3>3 DEF Elements
  <2>6. Upto(m) = Upto(m - 1) \cup {s[m]} /\ s[m] \in S
    BY <2>3
  <2>7. f[m] = IF s[m] \in T THEN Append(f[m - 1], s[m]) ELSE f[m - 1]
    BY <1>1, <2>3 DEF Builds
  <2> HIDE DEF Upto
  <2>8. Elements(f[m]) = Upto(m) \cap T
    BY <2>4, <2>5, <2>6, <2>7
  <2> QED
    BY <2>8
<1>3. Elements(f[Len(s)]) = Upto(Len(s)) \cap T
  BY <1>2, <1>a
<1>4. Elements(s) = Upto(Len(s))
  BY DEF Elements
<1> QED
  BY <1>1, <1>3, <1>4, <1>a

-----------------------------------------------------------------------------
(* Finite sets. *)

LEMMA Images ==
  ASSUME NEW S, IsFiniteSet(S), NEW f, f = [x \in S |-> f[x]]
  PROVE  LET T == {f[x] : x \in S} IN IsFiniteSet(T) /\ Cardinality(T) <= Cardinality(S)
<1> DEFINE T == {f[x] : x \in S}
<1>1. f \in Surjection(S, T)
  BY DEF Surjection
<1> QED
  BY <1>1, FS_Surjection

\* Of the members of S, at most k have at most k members of S up to themselves.
LEMMA FirstOnesAreFew ==
  ASSUME NEW n \in Nat, NEW S \in SUBSET (1 .. n), NEW k \in Nat
  PROVE  LET taken == {i \in S : Cardinality({j \in S : j <= i}) <= k}
         IN  IsFiniteSet(taken) /\ Cardinality(taken) <= k
<1> DEFINE taken == {i \in S : Cardinality({j \in S : j <= i}) <= k}
           Bounds == {b \in Nat : \A i \in taken : i <= b}
<1> SUFFICES IsFiniteSet(taken) /\ Cardinality(taken) <= k
  OBVIOUS
<1>0. IsFiniteSet(1 .. n)
  BY FS_Interval
<1>1. IsFiniteSet(S)
  BY <1>0, FS_Subset
<1>2. IsFiniteSet(taken)
  BY <1>1, FS_Subset
<1>3. CASE taken = {}
  <2> HIDE DEF taken
  <2>1. Cardinality(taken) = 0
    BY <1>3, FS_EmptySet
  <2> QED
    BY <1>2, <2>1
<1>4. CASE taken # {}
  <2>1. n \in Bounds /\ Bounds \in SUBSET Nat
    OBVIOUS
  <2> HIDE DEF Bounds
  <2>2. PICK b \in Bounds : \A c \in Bounds : b <= c
    BY <2>1, Least
  <2> USE DEF Bounds
  <2>3. b \in taken
    <3> SUFFICES ASSUME b \notin taken PROVE FALSE
      OBVIOUS
    <3>1. \A i \in taken : i \in Nat /\ i >= 1 /\ i <= b /\ i # b
      BY <2>2
    <3>2. b \in Nat /\ b > 0
      <4>1. PICK i \in taken : TRUE
        BY <1>4
      <4>2. b \in Nat
        BY <2>2
      <4> HIDE DEF taken
      <4>3. i \in Nat /\ i >= 1 /\ i <= b
        BY <3>1
      <4> QED
        BY <4>2, <4>3
    <3>3. b - 1 \in Nat /\ \A i \in taken : i <= b - 1
      BY <3>1, <3>2
    <3> HIDE DEF taken
    <3>4. b - 1 \in Bounds /\ ~ (b <= b - 1)
      BY <3>2, <3>3
    <3> HIDE DEF Bounds
    <3> QED
      BY <2>2, <3>4
  <2> DEFINE upTo == {j \in S : j <= b}
  <2>4. taken \in SUBSET upTo
    BY <2>2
  <2>5. Cardinality(upTo) <= k
    BY <2>3
  <2>6. IsFiniteSet(upTo)
    BY <1>1, FS_Subset
  <2>7. Cardinality(upTo) \in Nat /\ Cardinality(taken) \in Nat
    BY <1>2, <2>6, FS_CardinalityType
  <2>8. Cardinality(taken) <= Cardinality(upTo)
    BY <2>4, <2>6, FS_Subset
  <2> HIDE DEF upTo, taken
  <2>9. Cardinality(taken) <= k
    BY <2>5, <2>7, <2>8
  <2> QED
    BY <1>2, <2>9
<1> QED
  BY <1>3, <1>4

-----------------------------------------------------------------------------
(* The loads. *)

Held(l) == IsFiniteSet(l.active) /\ Cardinality(l.active) <= ParallelLimit

Avoids(l) ==  \* what is queued is of the window, and not for the page the foreground owns
  l.window # None =>
    \A w \in Elements(l.queue) : w.page # l.window.foreground /\ w.scope = l.window.scope

Sound(l) == l \in LoadStates /\ Held(l) /\ Avoids(l)

Starts(l, m) ==  \* what the step from l to m starts is admitted
  \A e \in m.active \ l.active :
    /\ ~e.retiring
    /\ ~Covers(l.active, Work(e.page, e.scope))
    /\ Work(e.page, e.scope) \notin l.completed
    /\ e.page # m.window.foreground
    /\ e.page \in Elements(m.pages) /\ e.scope = m.window.scope
    /\ m.window # None

LEMMA LoadsOf ==
  ASSUME NEW l \in LoadStates
  PROVE  /\ l.window \in Windows \cup {None} /\ l.pages \in Seq(Pages) /\ l.queue \in Seq(Works)
         /\ l.completed \in SUBSET Works /\ l.displayed \in SUBSET Pages
         /\ l.active \in SUBSET Decodes
BY DEF LoadStates

LEMMA StartNextIsSound ==
  ASSUME NEW l, Sound(l)
  PROVE  /\ Sound(StartNext(l)) /\ Starts(l, StartNext(l))
         /\ StartNext(l).window = l.window /\ StartNext(l).pages = l.pages
         /\ l.active \subseteq StartNext(l).active
<1> DEFINE startable == {i \in 1 .. Len(l.queue) : Startable(l, l.queue[i])}
           rank(i) == Cardinality({j \in startable : j <= i})
           taken == {i \in startable : rank(i) <= FreeSlots(l)}
           passed == {i \in 1 .. Len(l.queue) : rank(i) < FreeSlots(l)} \cup taken
           Decode(w) == [page |-> w.page, scope |-> w.scope, generation |-> l.window.generation,
                         retiring |-> FALSE]
           new == {Decode(l.queue[i]) : i \in taken}
           m == [l EXCEPT !.queue = SubSeq(@, Cardinality(passed) + 1, Len(@)),
                          !.active = @ \cup new]
<1>0. /\ l \in LoadStates /\ IsFiniteSet(l.active) /\ Cardinality(l.active) <= ParallelLimit
      /\ Cardinality(l.active) \in Nat /\ ParallelLimit \in Nat
  BY FS_CardinalityType, LimitAssumption DEF Sound, Held
<1>t. /\ l.window \in Windows \cup {None} /\ l.pages \in Seq(Pages) /\ l.queue \in Seq(Works)
      /\ l.completed \in SUBSET Works /\ l.displayed \in SUBSET Pages
      /\ l.active \in SUBSET Decodes
  BY <1>0, LoadsOf
<1>1. CASE l.window = None \/ FreeSlots(l) <= 0
  <2>1. StartNext(l) = l
    BY <1>1 DEF StartNext
  <2> QED
    BY <2>1 DEF Starts
<1>2. CASE ~ (l.window = None \/ FreeSlots(l) <= 0)
  <2>1. StartNext(l) = m
    BY <1>2 DEF StartNext
  <2>2. l.window \in Windows /\ l.window.limit \in {0, ParallelLimit} /\ l.window.limit \in Nat
    BY <1>0, <1>t, <1>2 DEF Windows
  <2>3. FreeSlots(l) \in Nat /\ FreeSlots(l) + Cardinality(l.active) <= ParallelLimit
        /\ l.window.limit > 0
    BY <1>0, <1>2, <2>2 DEF FreeSlots
  <2>4. Len(l.queue) \in Nat /\ startable \in SUBSET (1 .. Len(l.queue))
    BY <1>t
  <2>5. IsFiniteSet(taken) /\ Cardinality(taken) <= FreeSlots(l) /\ Cardinality(taken) \in Nat
    <3> HIDE DEF startable
    <3>1. IsFiniteSet(taken) /\ Cardinality(taken) <= FreeSlots(l)
      BY <2>3, <2>4, FirstOnesAreFew
    <3> QED
      BY <3>1, FS_CardinalityType
  <2>6. IsFiniteSet(new) /\ Cardinality(new) <= Cardinality(taken) /\ Cardinality(new) \in Nat
    <3> DEFINE f == [i \in taken |-> Decode(l.queue[i])]
    <3>1. f = [i \in taken |-> f[i]] /\ new = {f[i] : i \in taken}
      OBVIOUS
    <3> HIDE DEF f, new, taken
    <3>2. IsFiniteSet(new) /\ Cardinality(new) <= Cardinality(taken)
      BY <2>5, <3>1, Images
    <3> QED
      BY <3>2, FS_CardinalityType
  <2>7. \A i \in taken : /\ i \in 1 .. Len(l.queue) /\ l.queue[i] \in Works
                         /\ l.queue[i] \in Elements(l.queue)
                         /\ Startable(l, l.queue[i])
    <3>1. \A i \in taken : i \in 1 .. Len(l.queue) /\ Startable(l, l.queue[i])
      OBVIOUS
    <3> HIDE DEF taken
    <3> QED
      BY <1>t, <3>1 DEF Elements
  <2> HIDE DEF taken
  <2>8. \A e \in new : /\ e \in Decodes /\ ~e.retiring /\ Work(e.page, e.scope) \in Elements(l.queue)
                       /\ Startable(l, Work(e.page, e.scope))
    <3> SUFFICES ASSUME NEW i \in taken
                 PROVE  LET e == Decode(l.queue[i]) IN
                        /\ e \in Decodes /\ ~e.retiring
                        /\ Work(e.page, e.scope) \in Elements(l.queue)
                        /\ Startable(l, Work(e.page, e.scope))
      OBVIOUS
    <3>1. l.queue[i] \in Works /\ l.window.generation \in Nat
      BY <2>2, <2>7 DEF Windows
    <3>2. Decode(l.queue[i]) \in Decodes /\ ~Decode(l.queue[i]).retiring
      BY <3>1 DEF Works, Decodes
    <3>3. Work(Decode(l.queue[i]).page, Decode(l.queue[i]).scope) = l.queue[i]
      BY <3>1 DEF Works, Work
    <3> HIDE DEF Decode
    <3> QED
      BY <2>7, <3>2, <3>3
  <2> HIDE DEF new
  <2>9. Cardinality(passed) \in Nat
    <3>1. passed \in SUBSET (1 .. Len(l.queue))
      BY <2>7
    <3>2. IsFiniteSet(1 .. Len(l.queue))
      <4>1. 1 \in Int /\ Len(l.queue) \in Int
        BY <2>4
      <4> HIDE DEF startable, passed, m
      <4> QED
        BY <4>1, FS_Interval
    <3> HIDE DEF passed
    <3>3. IsFiniteSet(passed)
      BY <3>1, <3>2, FS_Subset
    <3> QED
      BY <3>3, FS_CardinalityType
  <2> HIDE DEF passed
  <2> DEFINE rest == SubSeq(l.queue, Cardinality(passed) + 1, Len(l.queue))
  <2>10. rest \in Seq(Works) /\ Elements(rest) \subseteq Elements(l.queue)
    BY <1>t, <2>4, <2>9 DEF Elements
  <2>11. m.queue = rest /\ m.active = l.active \cup new /\ m.window = l.window
         /\ m.displayed = l.displayed /\ m.completed = l.completed /\ m.pages = l.pages
    BY <1>0 DEF LoadStates
  <2> HIDE DEF rest
  <2>12. m \in LoadStates
    BY <1>0, <1>t, <2>8, <2>10, <2>11 DEF LoadStates
  <2> HIDE DEF m
  <2>13. Held(m)
    <3>1. IsFiniteSet(m.active)
          /\ Cardinality(m.active) = Cardinality(l.active) + Cardinality(new)
                                       - Cardinality(l.active \cap new)
      BY <1>0, <2>6, <2>11, FS_Union
    <3>2. Cardinality(l.active \cap new) \in Nat
      BY <1>0, FS_Subset, FS_CardinalityType
    <3>3. Cardinality(new) <= FreeSlots(l)
      BY <2>3, <2>5, <2>6
    <3> QED
      BY <1>0, <2>3, <2>6, <3>1, <3>2, <3>3 DEF Held
  <2>14. Avoids(m)
    BY <2>10, <2>11 DEF Avoids, Sound
  <2>15. Starts(l, m)
    BY <1>2, <2>3, <2>8, <2>11 DEF Starts, Startable, Sound, Avoids, Work
  <2> QED
    BY <2>1, <2>11, <2>12, <2>13, <2>14, <2>15 DEF Sound
<1> QED
  BY <1>1, <1>2

LEMMA EnqueueMissingIsSound ==
  ASSUME NEW l, Sound(l), l.window \in Windows
  PROVE  /\ Sound(EnqueueMissing(l))
         /\ EnqueueMissing(l).window = l.window /\ EnqueueMissing(l).active = l.active
         /\ EnqueueMissing(l).pages = l.pages
         /\ \A w \in l.completed : w.scope = l.window.scope /\ w.page \in Elements(l.pages)
              => w \in EnqueueMissing(l).completed
<1> DEFINE completed == RetainCompleted(l)
           IsMissing(p) ==
             LET work == Work(p, l.window.scope) IN
             /\ p \notin l.displayed \cup {l.window.foreground}
             /\ work \notin completed \cup Elements(l.queue)
             /\ ~Covers(l.active, work)
           wanted == {p \in Elements(l.pages) : IsMissing(p)}
           missing == Kept(l.pages, wanted)
           more == [i \in 1 .. Len(missing) |-> Work(missing[i], l.window.scope)]
           m == [l EXCEPT !.completed = completed, !.queue = @ \o more]
<1>0. l \in LoadStates /\ EnqueueMissing(l) = m
  BY DEF Sound, EnqueueMissing
<1>t. /\ l.pages \in Seq(Pages) /\ l.queue \in Seq(Works)
      /\ l.completed \in SUBSET Works /\ l.displayed \in SUBSET Pages
      /\ l.active \in SUBSET Decodes
  BY <1>0, LoadsOf
<1>1. /\ completed \in SUBSET Works
      /\ \A w \in l.completed : w.scope = l.window.scope /\ w.page \in Elements(l.pages)
           => w \in completed
  BY <1>t DEF RetainCompleted
<1>2. \A p \in wanted : p # l.window.foreground
  OBVIOUS
<1> HIDE DEF completed, IsMissing, wanted
<1>3. missing \in Seq(Pages) /\ Elements(missing) \subseteq wanted
  BY <1>t, KeptIs
<1> HIDE DEF missing
<1>4. more \in Seq(Works) /\ \A w \in Elements(more) : w.page # l.window.foreground
                                                  /\ w.scope = l.window.scope
  <2>1. Len(missing) \in Nat /\ l.window.scope \in Scopes
    BY <1>3 DEF Windows
  <2>2. \A i \in 1 .. Len(missing) : missing[i] \in Pages /\ missing[i] \in wanted
    BY <1>3 DEF Elements
  <2>3. \A i \in 1 .. Len(missing) : more[i] \in Works /\ more[i].page # l.window.foreground
                                    /\ more[i].scope = l.window.scope
    BY <1>2, <2>1, <2>2 DEF Work, Works
  <2>4. Len(more) = Len(missing)
    BY <2>1
  <2> QED
    BY <2>1, <2>3, <2>4 DEF Elements
<1> HIDE DEF more
<1>5. l.queue \o more \in Seq(Works)
      /\ Elements(l.queue \o more) \subseteq Elements(l.queue) \cup Elements(more)
  BY <1>t, <1>4 DEF Elements
<1>6. m.queue = l.queue \o more /\ m.active = l.active /\ m.window = l.window
      /\ m.displayed = l.displayed /\ m.completed = completed /\ m.pages = l.pages
  BY <1>0 DEF LoadStates
<1>7. m \in LoadStates
  BY <1>0, <1>t, <1>1, <1>5, <1>6 DEF LoadStates
<1> HIDE DEF m
<1> QED
  BY <1>0, <1>1, <1>4, <1>5, <1>6, <1>7 DEF Sound, Held, Avoids

NothingStarts(l, m) == \A e \in m.active : e \in l.active \/ e.retiring

Admits(l, m) ==
  \A e \in {x \in m.active \ l.active : ~x.retiring} :
    /\ ~\E old \in l.active \cap m.active : old.page = e.page /\ old.retiring
    /\ e.page # m.window.foreground
    /\ Work(e.page, e.scope) \notin l.completed
    /\ m.window # None

LEMMA NothingToAdmit == ASSUME NEW l, NEW m, NothingStarts(l, m) PROVE Admits(l, m)
BY DEF NothingStarts, Admits

LEMMA AdmitsThrough ==
  ASSUME NEW l, NEW base, NEW m, NothingStarts(l, base), Starts(base, m),
         base.completed = l.completed
  PROVE  Admits(l, m)
<1> SUFFICES ASSUME NEW e \in m.active \ l.active, ~e.retiring
             PROVE  /\ ~\E old \in l.active \cap m.active : old.page = e.page /\ old.retiring
                    /\ e.page # m.window.foreground
                    /\ Work(e.page, e.scope) \notin l.completed
                    /\ m.window # None
  BY Zenon DEF Admits
<1>1. e \in m.active \ base.active
  BY DEF NothingStarts
<1>2. ~Covers(base.active, Work(e.page, e.scope))
  BY <1>1 DEF Starts
<1>3. ASSUME NEW old \in m.active, old.page = e.page, old.retiring PROVE FALSE
  <2>1. old \in base.active
    BY <1>3 DEF Starts
  <2> QED
    BY <1>2, <1>3, <2>1 DEF Covers, Work
<1> QED
  BY <1>1, <1>3 DEF Starts

-----------------------------------------------------------------------------
(* The operations on the loads. *)

LEMMA Retired ==  \* decodes canceled in place: no more of them
  ASSUME NEW A \in SUBSET Decodes, IsFiniteSet(A), Cardinality(A) <= ParallelLimit, NEW P \in [A -> BOOLEAN]
  PROVE  LET B == {IF P[e] THEN [e EXCEPT !.retiring = TRUE] ELSE e : e \in A} IN
         /\ B \in SUBSET Decodes /\ IsFiniteSet(B) /\ Cardinality(B) <= ParallelLimit
         /\ \A e \in B : e.retiring \/ e \in A
<1> DEFINE f == [e \in A |-> IF P[e] THEN [e EXCEPT !.retiring = TRUE] ELSE e]
           B == {IF P[e] THEN [e EXCEPT !.retiring = TRUE] ELSE e : e \in A}
<1> SUFFICES /\ B \in SUBSET Decodes /\ IsFiniteSet(B) /\ Cardinality(B) <= ParallelLimit
             /\ \A e \in B : e.retiring \/ e \in A
  OBVIOUS
<1>1. \A e \in A : [e EXCEPT !.retiring = TRUE] \in Decodes /\ [e EXCEPT !.retiring = TRUE].retiring
  BY DEF Decodes
<1>2. B \in SUBSET Decodes /\ \A e \in B : e.retiring \/ e \in A
  BY <1>1
<1>3. f = [e \in A |-> f[e]] /\ B = {f[e] : e \in A}
  OBVIOUS
<1> HIDE DEF f, B
<1>4. IsFiniteSet(B) /\ Cardinality(B) <= Cardinality(A)
  BY <1>3, Images
<1>5. Cardinality(A) \in Nat /\ Cardinality(B) \in Nat
  BY <1>4, FS_CardinalityType
<1>6. Cardinality(B) <= ParallelLimit
  BY <1>4, <1>5, LimitAssumption
<1> QED
  BY <1>2, <1>4, <1>6

LEMMA CancelBackgroundIsSound ==
  ASSUME NEW l, Sound(l)
  PROVE  /\ Sound(CancelBackground(l)) /\ CancelBackground(l).active = l.active
         /\ CancelBackground(l).window = None /\ CancelBackground(l).completed = l.completed
         /\ Elements(CancelBackground(l).queue) = {}
<1>1. l \in LoadStates
  BY DEF Sound
<1>2. CancelBackground(l) \in LoadStates
  <2>1. <<>> \in Seq(Works) /\ None \in Windows \cup {None}
    OBVIOUS
  <2> HIDE DEF Works
  <2> QED
    BY <1>1, <2>1 DEF CancelBackground, LoadStates
<1>3. CancelBackground(l).active = l.active /\ CancelBackground(l).window = None
      /\ CancelBackground(l).queue = <<>> /\ CancelBackground(l).completed = l.completed
  BY <1>1 DEF CancelBackground, LoadStates
<1> QED
  BY <1>2, <1>3 DEF Sound, Held, Avoids, Elements

LEMMA ClearWindowIsSound ==
  ASSUME NEW l, Sound(l)
  PROVE  /\ Sound(ClearWindow(l)) /\ ClearWindow(l).active = l.active
         /\ ClearWindow(l).window = l.window
<1>1. l \in LoadStates
  BY DEF Sound
<1>2. ClearWindow(l) \in LoadStates
  <2>1. <<>> \in Seq(Works) /\ <<>> \in Seq(Pages)
    OBVIOUS
  <2> QED
    BY <1>1, <2>1 DEF ClearWindow, LoadStates
<1>3. ClearWindow(l).active = l.active /\ ClearWindow(l).window = l.window
      /\ ClearWindow(l).queue = <<>>
  BY <1>1 DEF ClearWindow, LoadStates
<1> QED
  BY <1>2, <1>3 DEF Sound, Held, Avoids, Elements

LEMMA CancelDecodesIsSound ==
  ASSUME NEW l, Sound(l)
  PROVE  /\ Sound(CancelDecodes(l)) /\ NothingStarts(l, CancelDecodes(l))
         /\ \A e \in CancelDecodes(l).active : e.retiring
<1> DEFINE P == [e \in l.active |-> TRUE]
           B == {IF P[e] THEN [e EXCEPT !.retiring = TRUE] ELSE e : e \in l.active}
           m == CancelDecodes(l)
<1>1. l \in LoadStates /\ IsFiniteSet(l.active) /\ Cardinality(l.active) <= ParallelLimit
  BY DEF Sound, Held
<1>2. l.active \in SUBSET Decodes
  BY <1>1, LoadsOf
<1>3. m.active = B /\ m.window = l.window /\ m.queue = l.queue /\ m.pages = l.pages
      /\ m.completed = l.completed /\ m.displayed = l.displayed
  BY <1>1 DEF CancelDecodes, LoadStates
<1>4. P \in [l.active -> BOOLEAN]
  OBVIOUS
<1>5. \A e \in B : e.retiring
  BY <1>2 DEF Decodes
<1> HIDE DEF P
<1>6. /\ B \in SUBSET Decodes /\ IsFiniteSet(B) /\ Cardinality(B) <= ParallelLimit
      /\ \A e \in B : e.retiring \/ e \in l.active
  BY <1>1, <1>2, <1>4, Retired
<1> HIDE DEF B
<1>7. m \in LoadStates
  BY <1>1, <1>3, <1>6 DEF CancelDecodes, LoadStates
<1> HIDE DEF m
<1> QED
  BY <1>3, <1>5, <1>6, <1>7 DEF Sound, Held, Avoids, NothingStarts, m

LEMMA ClearLoadsIsSound ==
  ASSUME NEW l, Sound(l)
  PROVE  /\ Sound(ClearLoads(l)) /\ NothingStarts(l, ClearLoads(l))
         /\ ClearLoads(l).window = None /\ \A e \in ClearLoads(l).active : e.retiring
<1> DEFINE c == CancelDecodes(l)
           m == ClearLoads(l)
<1>1. Sound(c) /\ NothingStarts(l, c) /\ \A e \in c.active : e.retiring
  BY CancelDecodesIsSound
<1> HIDE DEF c
<1>2. m = [NoLoads EXCEPT !.active = c.active]
  BY DEF ClearLoads, c
<1>3. m = [window |-> None, pages |-> <<>>, queue |-> <<>>, completed |-> {}, displayed |-> {},
           active |-> c.active]
  BY <1>2 DEF NoLoads
<1>4. c.active \in SUBSET Decodes
  BY <1>1, LoadsOf DEF Sound
<1>5. m \in LoadStates
  BY <1>3, <1>4 DEF LoadStates
<1>6. m.active = c.active /\ m.window = None
  BY <1>3
<1> HIDE DEF m
<1> QED
  BY <1>1, <1>5, <1>6 DEF Sound, Held, Avoids, NothingStarts, m

LEMMA RetireBackgroundLoadIsSound ==
  ASSUME NEW l, Sound(l), NEW page \in Pages
  PROVE  /\ Sound(RetireBackgroundLoad(l, page))
         /\ NothingStarts(l, RetireBackgroundLoad(l, page))
         /\ RetireBackgroundLoad(l, page).completed = l.completed
         /\ l.window = None => RetireBackgroundLoad(l, page).window = None
         /\ (\A e \in l.active : e.retiring)
              => \A e \in RetireBackgroundLoad(l, page).active : e.retiring
<1> DEFINE P == [e \in l.active |-> e.page = page]
           B == {IF P[e] THEN [e EXCEPT !.retiring = TRUE] ELSE e : e \in l.active}
           m == RetireBackgroundLoad(l, page)
           kept == Kept(l.queue, {r \in Elements(l.queue) : r.page # page})
           window == IF l.window = None THEN l.window ELSE [l.window EXCEPT !.foreground = page]
<1>1. l \in LoadStates /\ IsFiniteSet(l.active) /\ Cardinality(l.active) <= ParallelLimit
  BY DEF Sound, Held
<1>2. /\ l.window \in Windows \cup {None} /\ l.pages \in Seq(Pages) /\ l.queue \in Seq(Works)
      /\ l.active \in SUBSET Decodes
  BY <1>1, LoadsOf
<1>3. m.active = B /\ m.window = window /\ m.queue = kept /\ m.pages = l.pages
      /\ m.completed = l.completed /\ m.displayed = l.displayed
  BY <1>1 DEF RetireBackgroundLoad, LoadStates
<1>4. P \in [l.active -> BOOLEAN]
  OBVIOUS
<1>5. /\ B \in SUBSET Decodes /\ IsFiniteSet(B) /\ Cardinality(B) <= ParallelLimit
      /\ \A e \in B : e.retiring \/ e \in l.active
  <2> HIDE DEF P
  <2> QED
    BY <1>1, <1>2, <1>4, Retired
<1> HIDE DEF B
<1>6. kept \in Seq(Works) /\ \A w \in Elements(kept) : w.page # page /\ w \in Elements(l.queue)
  <2>1. Elements(kept) = Elements(l.queue) \cap {r \in Elements(l.queue) : r.page # page}
        /\ kept \in Seq(Works)
    BY <1>2, KeptIs
  <2> HIDE DEF kept
  <2> QED
    BY <2>1
<1>7. /\ window \in Windows \cup {None}
      /\ window # None => /\ window.foreground = page /\ l.window # None
                          /\ window.scope = l.window.scope
  BY <1>2 DEF Windows
<1> HIDE DEF kept, window
<1>8. m = [l EXCEPT !.queue = kept, !.window = window, !.active = B]
  BY DEF RetireBackgroundLoad, kept, window, B
<1> HIDE DEF m
<1>9. m \in LoadStates
  BY <1>1, <1>5, <1>6, <1>7, <1>8 DEF LoadStates
<1>10. l.window = None => window = None
  BY DEF window
<1> QED
  BY <1>3, <1>5, <1>6, <1>7, <1>9, <1>10 DEF Sound, Held, Avoids, NothingStarts, m

LEMMA CacheDisplayedIsSound ==
  ASSUME NEW l, Sound(l), NEW pages \in SUBSET Pages
  PROVE  /\ Sound(CacheDisplayed(l, pages)) /\ CacheDisplayed(l, pages).active = l.active
         /\ CacheDisplayed(l, pages).window = l.window
         /\ CacheDisplayed(l, pages).completed = l.completed
<1>1. l \in LoadStates
  BY DEF Sound
<1>2. CacheDisplayed(l, pages) =
        [window |-> l.window, pages |-> l.pages, queue |-> l.queue,
         completed |-> l.completed, displayed |-> pages, active |-> l.active]
  BY <1>1 DEF CacheDisplayed, LoadStates
<1>3. CacheDisplayed(l, pages) \in LoadStates
  BY <1>1, <1>2, LoadsOf DEF LoadStates
<1> QED
  BY <1>2, <1>3 DEF Sound, Held, Avoids

LEMMA StartWindowIsSound ==
  ASSUME NEW l, Sound(l), NEW window \in Windows, NEW pages \in Seq(Pages),
         NEW displayed \in SUBSET Pages
  PROVE  /\ Sound(StartWindow(l, window, pages, displayed))
         /\ Starts(l, StartWindow(l, window, pages, displayed))
<1> DEFINE a == CancelBackground(l)
           b == [a EXCEPT !.window = window, !.pages = pages]
           c == CacheDisplayed(b, displayed)
           d == EnqueueMissing(c)
<1>1. Sound(a) /\ a.active = l.active /\ Elements(a.queue) = {} /\ a \in LoadStates
      /\ a.completed = l.completed
  BY CancelBackgroundIsSound DEF Sound
<1> HIDE DEF a
<1>2. b.window = window /\ b.queue = a.queue /\ b.active = a.active
      /\ b.completed = a.completed
  BY <1>1 DEF LoadStates
<1>3. b \in LoadStates
  BY <1>1 DEF LoadStates
<1>4. Sound(b) /\ b.window = window /\ b.active = l.active /\ b.completed = l.completed
  BY <1>1, <1>2, <1>3 DEF Sound, Held, Avoids
<1> HIDE DEF b
<1>5. Sound(c) /\ c.window = window /\ c.active = l.active /\ c.completed = l.completed
  BY <1>4, CacheDisplayedIsSound
<1> HIDE DEF c
<1>6. /\ Sound(d) /\ d.active = l.active
      /\ \A w \in l.completed : w.scope = d.window.scope /\ w.page \in Elements(d.pages)
           => w \in d.completed
  BY <1>5, EnqueueMissingIsSound
<1> HIDE DEF d
<1>7. StartWindow(l, window, pages, displayed) = StartNext(d)
  BY DEF StartWindow, a, b, c, d
<1>8. /\ Sound(StartNext(d)) /\ Starts(d, StartNext(d))
      /\ StartNext(d).window = d.window /\ StartNext(d).pages = d.pages
  BY <1>6, StartNextIsSound
<1>9. Starts(l, StartNext(d))
  <2> SUFFICES ASSUME NEW e \in StartNext(d).active \ l.active
               PROVE  /\ ~e.retiring
                      /\ ~Covers(l.active, Work(e.page, e.scope))
                      /\ Work(e.page, e.scope) \notin l.completed
                      /\ e.page # StartNext(d).window.foreground
                      /\ e.page \in Elements(StartNext(d).pages)
                      /\ e.scope = StartNext(d).window.scope
                      /\ StartNext(d).window # None
    BY Zenon DEF Starts
  <2>1. /\ ~e.retiring
        /\ ~Covers(l.active, Work(e.page, e.scope))
        /\ Work(e.page, e.scope) \notin d.completed
        /\ e.page # StartNext(d).window.foreground
        /\ e.page \in Elements(StartNext(d).pages)
        /\ e.scope = StartNext(d).window.scope
        /\ StartNext(d).window # None
    BY <1>6, <1>8, Zenon DEF Starts
  <2>2. Work(e.page, e.scope).page = e.page /\ Work(e.page, e.scope).scope = e.scope
    BY DEF Work
  <2> QED
    BY <1>6, <1>8, <2>1, <2>2
<1> QED
  BY <1>7, <1>8, <1>9

LEMMA FinishPublishingIsSound ==
  ASSUME NEW l, Sound(l), NEW e \in l.active
  PROVE  /\ Sound(FinishPublishing(l, e)) /\ NothingStarts(l, FinishPublishing(l, e))
         /\ FinishPublishing(l, e).window = l.window
<1> DEFINE new == [e EXCEPT !.retiring = TRUE]
           work == Work(e.page, e.scope)
           A == (l.active \ {e}) \cup {new}
           kept == Kept(l.queue, Elements(l.queue) \ {work})
           m == FinishPublishing(l, e)
<1>1. l \in LoadStates /\ IsFiniteSet(l.active) /\ Cardinality(l.active) <= ParallelLimit
  BY DEF Sound, Held
<1>2. /\ l.queue \in Seq(Works) /\ l.active \in SUBSET Decodes /\ l.completed \in SUBSET Works
  BY <1>1, LoadsOf
<1>3. m.window = l.window /\ m.pages = l.pages /\ m.queue = kept
      /\ m.completed = l.completed \cup {work} /\ m.displayed = l.displayed /\ m.active = A
  BY <1>1 DEF FinishPublishing, CompleteWork, Replace, LoadStates
<1>4. new \in Decodes /\ new.retiring /\ work \in Works
  BY <1>2 DEF Decodes, Work, Works
<1>5. kept \in Seq(Works) /\ Elements(kept) \subseteq Elements(l.queue)
  BY <1>2, KeptIs
<1> HIDE DEF new, work, kept
<1>6. IsFiniteSet(A) /\ Cardinality(A) <= ParallelLimit
  <2> DEFINE rest == l.active \ {e}
  <2>1. IsFiniteSet(rest) /\ Cardinality(rest) = Cardinality(l.active) - 1
    BY <1>1, FS_RemoveElement
  <2>2. Cardinality(rest) \in Nat /\ Cardinality(l.active) \in Nat
    BY <1>1, <2>1, FS_CardinalityType
  <2> HIDE DEF rest
  <2>3. IsFiniteSet(rest \cup {new})
        /\ Cardinality(rest \cup {new}) = IF new \in rest THEN Cardinality(rest)
                                                          ELSE Cardinality(rest) + 1
    BY <2>1, FS_AddElement
  <2>4. A = rest \cup {new}
    BY DEF rest
  <2>5. Cardinality(rest \cup {new}) <= ParallelLimit
    BY <1>1, <2>1, <2>2, <2>3, LimitAssumption
  <2> QED
    BY <2>3, <2>4, <2>5
<1>7. A \in SUBSET Decodes /\ \A x \in A : x \in l.active \/ x.retiring
  BY <1>2, <1>4
<1>8. m \in LoadStates
  <2> DEFINE r == [l EXCEPT !.active = A]
  <2>1. r \in LoadStates /\ r.queue = l.queue /\ r.completed = l.completed
    <3> HIDE DEF A
    <3> QED
      BY <1>1, <1>7 DEF LoadStates
  <2>2. m = [r EXCEPT !.queue = kept, !.completed = @ \cup {work}]
    <3> HIDE DEF r
    <3>1. r = Replace(l, e, {new})
      BY DEF r, Replace, A
    <3>2. m = [r EXCEPT !.queue = Kept(@, Elements(@) \ {work}), !.completed = @ \cup {work}]
      BY <3>1 DEF FinishPublishing, CompleteWork, new, work
    <3> QED
      BY <2>1, <3>2 DEF kept, LoadStates
  <2>3. l.completed \cup {work} \in SUBSET Works
    BY <1>2, <1>4
  <2> HIDE DEF r, m
  <2> QED
    BY <1>5, <2>1, <2>2, <2>3 DEF LoadStates
<1> HIDE DEF A, m
<1> QED
  BY <1>3, <1>5, <1>6, <1>7, <1>8 DEF Sound, Held, Avoids, NothingStarts, m

LEMMA FinishRetirementIsSound ==
  ASSUME NEW l, Sound(l), NEW e \in l.active, e.retiring
  PROVE  /\ Sound(FinishRetirement(l, e)) /\ Admits(l, FinishRetirement(l, e))
         /\ FinishRetirement(l, e).window = l.window
         /\ l.window = None => FinishRetirement(l, e).active = l.active \ {e}
<1> DEFINE rest == Replace(l, e, {})
           full == IF rest.window = None THEN rest ELSE EnqueueMissing(rest)
<1>1. l \in LoadStates /\ IsFiniteSet(l.active) /\ Cardinality(l.active) <= ParallelLimit
  BY DEF Sound, Held
<1>2. rest.window = l.window /\ rest.queue = l.queue /\ rest.active = l.active \ {e}
      /\ rest.completed = l.completed
  BY <1>1 DEF Replace, LoadStates
<1>3. rest \in LoadStates
  BY <1>1, LoadsOf DEF Replace, LoadStates
<1>4. IsFiniteSet(l.active \ {e}) /\ Cardinality(l.active \ {e}) <= ParallelLimit
  <2>1. IsFiniteSet(l.active \ {e}) /\ Cardinality(l.active \ {e}) = Cardinality(l.active) - 1
    BY <1>1, FS_RemoveElement
  <2>2. Cardinality(l.active) \in Nat
    BY <1>1, FS_CardinalityType
  <2> QED
    BY <1>1, <2>1, <2>2, LimitAssumption
<1>5. Sound(rest) /\ rest.window = l.window /\ rest.active = l.active \ {e}
      /\ rest.completed = l.completed
  BY <1>2, <1>3, <1>4 DEF Sound, Held, Avoids
<1> HIDE DEF rest
<1>6. rest.window \in Windows \cup {None}
  BY <1>5, LoadsOf DEF Sound
<1>7. /\ Sound(full) /\ full.window = l.window /\ full.active = l.active \ {e}
      /\ \A w \in rest.completed : w.scope = full.window.scope /\ w.page \in Elements(full.pages)
           => w \in full.completed
  BY <1>5, <1>6, EnqueueMissingIsSound
<1>8. l.window = None => full = rest
  BY <1>5
<1> HIDE DEF full
<1>9. FinishRetirement(l, e) = StartNext(full)
  BY DEF FinishRetirement, full, rest
<1>10. /\ Sound(StartNext(full)) /\ Starts(full, StartNext(full))
       /\ StartNext(full).window = l.window /\ StartNext(full).pages = full.pages
  BY <1>7, StartNextIsSound
<1>11. l.window = None => StartNext(full) = full
  BY <1>7 DEF StartNext
<1>12. NothingStarts(l, rest)
  BY <1>5 DEF NothingStarts
<1>13. Starts(rest, StartNext(full))
  <2> SUFFICES ASSUME NEW d \in StartNext(full).active \ rest.active
               PROVE  /\ ~d.retiring
                      /\ ~Covers(rest.active, Work(d.page, d.scope))
                      /\ Work(d.page, d.scope) \notin rest.completed
                      /\ d.page # StartNext(full).window.foreground
                      /\ d.page \in Elements(StartNext(full).pages)
                      /\ d.scope = StartNext(full).window.scope
                      /\ StartNext(full).window # None
    BY Zenon DEF Starts
  <2>1. full.active = rest.active
    BY <1>5, <1>7
  <2>2. /\ ~d.retiring
        /\ ~Covers(rest.active, Work(d.page, d.scope))
        /\ Work(d.page, d.scope) \notin full.completed
        /\ d.page # StartNext(full).window.foreground
        /\ d.page \in Elements(StartNext(full).pages)
        /\ d.scope = StartNext(full).window.scope
        /\ StartNext(full).window # None
    BY <1>10, <2>1, Zenon DEF Starts
  <2>3. Work(d.page, d.scope).page = d.page /\ Work(d.page, d.scope).scope = d.scope
    BY DEF Work
  <2> QED
    BY <1>7, <1>10, <2>2, <2>3
<1>14. Admits(l, StartNext(full))
  BY <1>5, <1>12, <1>13, AdmitsThrough
<1> QED
  BY <1>7, <1>9, <1>10, <1>11, <1>14

-----------------------------------------------------------------------------
(* The preparation policy. *)

Momenta == [mode : Modes, last : Pages \cup {-1}, direction : {"none", "next", "previous"},
            moves : 0 .. 2]

LEMMA UpdatedMomentumType ==
  ASSUME NEW m \in Momenta, NEW index \in Pages \cup {-1}, NEW elapsed \in Elapsed
  PROVE  UpdatedMomentum(m, index, elapsed) \in Momenta
<1>1. CASE index = -1 \/ index = m.last
  BY <1>1 DEF UpdatedMomentum, Momenta, Modes
<1>2. CASE ~ (index = -1 \/ index = m.last) /\ m.last = -1
  <2>1. UpdatedMomentum(m, index, elapsed) = [m EXCEPT !.mode = "neutral", !.last = index]
    BY <1>2 DEF UpdatedMomentum
  <2> QED
    BY <2>1 DEF Momenta, Modes
<1>3. CASE ~ (index = -1 \/ index = m.last) /\ m.last # -1
  <2>1. UpdatedMomentum(m, index, elapsed) = Moved(m, index, elapsed)
    BY <1>3 DEF UpdatedMomentum
  <2>2. index \in Pages /\ m.moves \in 0 .. 2
    BY <1>3 DEF Momenta
  <2> QED
    BY <2>1, <2>2 DEF Moved, Momenta, Modes
<1> QED
  BY <1>1, <1>2, <1>3

LEMMA WindowPagesType ==
  ASSUME NEW m, NEW page \in Pages
  PROVE  WindowPages(m, page) \in Seq(Pages)
<1> DEFINE next == CASE m.mode = "next" -> Biased [] m.mode = "previous" -> 1
                     [] OTHER -> NeutralNext
           previous == CASE m.mode = "previous" -> Biased [] m.mode = "next" -> 1
                         [] OTHER -> NeutralPrevious
           reach == IF next > previous THEN next ELSE previous
           place(k) == [offset |-> (k + 1) \div 2, forward |-> k % 2 = 1]
           places == [k \in 1 .. 2 * reach |-> place(k)]
           Within(q) == IF q.forward THEN q.offset <= next /\ page + q.offset \in Pages
                                     ELSE q.offset <= previous /\ page - q.offset \in Pages
           near == {q \in Elements(places) : Within(q)}
           within == Kept(places, near)
           around == [i \in 1 .. Len(within) |->
                        IF within[i].forward THEN page + within[i].offset
                                             ELSE page - within[i].offset]
<1>1. next \in Nat /\ previous \in Nat
  BY ProfileAssumption
<1> HIDE DEF next, previous
<1>2. reach \in Nat
  BY <1>1
<1> HIDE DEF reach
<1> DEFINE Places == {place(k) : k \in 1 .. 2 * reach}
<1>3. places \in Seq(Places)
  <2>1. 2 * reach \in Nat
    BY <1>2
  <2> HIDE DEF place
  <2>2. \A k \in 1 .. 2 * reach : place(k) \in Places
    OBVIOUS
  <2> HIDE DEF Places
  <2> QED
    BY <2>1, <2>2
<1> HIDE DEF Places
<1> HIDE DEF places
<1>4. \A q \in near : IF q.forward THEN page + q.offset \in Pages ELSE page - q.offset \in Pages
  OBVIOUS
<1> HIDE DEF near
<1>5. within \in Seq(Places) /\ Elements(within) \subseteq near
  BY <1>3, KeptIs
<1> HIDE DEF within
<1>6. \A i \in 1 .. Len(within) : around[i] \in Pages
  BY <1>4, <1>5 DEF Elements
<1>7. around \in Seq(Pages)
  BY <1>5, <1>6
<1> HIDE DEF around
<1>8. WindowPages(m, page) = <<page>> \o around
  BY DEF WindowPages, around, within, near, places, reach, next, previous
<1> QED
  BY <1>7, <1>8

LEMMA StartAdjacentIsSound ==
  ASSUME NEW l, Sound(l), NEW c \in Contexts, NEW m, NEW gen \in Nat, NEW saving \in BOOLEAN
  PROVE  Sound(StartAdjacent(l, c, m, gen, saving)) /\ Starts(l, StartAdjacent(l, c, m, gen, saving))
<1> DEFINE limit == LimitFor(m, saving)
           usable == limit > 0 /\ c.snapshot > 0
           scope == IF usable THEN SnapshotScope(c.snapshot) ELSE FallbackScope(gen)
           window == [foreground |-> c.page, scope |-> scope, generation |-> gen, limit |-> limit]
           pages == IF usable THEN WindowPages(m, c.page) ELSE <<>>
<1>1. c.page \in Pages /\ c.snapshot \in Nat /\ c.displayed \in SUBSET Pages
  BY DEF Contexts
<1>2. limit \in {0, ParallelLimit}
  BY DEF LimitFor
<1>3. scope \in Scopes
  BY <1>1 DEF Scopes, SnapshotScope, FallbackScope
<1> HIDE DEF scope, limit
<1>4. window \in Windows
  BY <1>1, <1>2, <1>3 DEF Windows
<1>5. pages \in Seq(Pages)
  BY <1>1, WindowPagesType
<1> HIDE DEF window, pages, usable
<1>6. StartAdjacent(l, c, m, gen, saving) = StartWindow(l, window, pages, c.displayed)
  BY DEF StartAdjacent, window, pages, usable, scope, limit
<1> QED
  BY <1>1, <1>4, <1>5, <1>6, StartWindowIsSound

-----------------------------------------------------------------------------
(* The inductive invariant. *)

Remembers ==  \* only an ask of the latest call bears its number, and it is for its page
  \A a \in asked : a.id <= request /\ (a.id = request => a.context.page = selected)

SavesQuietly == powerSaver => pending = 0

IInv ==
  /\ TypeOK
  /\ Sound(loads)
  /\ PowerSaverIsQuiet
  /\ SavesQuietly
  /\ Remembers
  /\ LatestSelectionWins

Good == IInv' /\ Admits(loads, loads')

LEMMA InitHolds == Init => IInv
<1> SUFFICES ASSUME Init PROVE IInv
  OBVIOUS
<1>1. NoLoads \in LoadStates /\ NoLoads.active = {} /\ NoLoads.window = None
  BY DEF NoLoads, LoadStates
<1>2. Sound(loads)
  BY <1>1, FS_EmptySet, LimitAssumption DEF Init, Sound, Held, Avoids
<1>3. TypeOK
  BY <1>1 DEF Init, TypeOK, StillMomentum, Modes
<1> QED
  BY <1>1, <1>2, <1>3
     DEF Init, IInv, PowerSaverIsQuiet, SavesQuietly, Remembers, LatestSelectionWins

LEMMA Typed ==  \* the type invariant, with what the schedule needs by name
  ASSUME TypeOK
  PROVE  /\ request \in Nat /\ asked \subseteq [id : Nat, context : Contexts] /\ listing \in Nat
         /\ shown \in SUBSET Pages /\ selected \in Pages \cup {None} /\ generation \in Nat
         /\ context \in Contexts \cup {None} /\ pending \in 0 .. generation
         /\ (pending > 0 => context \in Contexts) /\ momentum \in Momenta
         /\ powerSaver \in BOOLEAN /\ timers \subseteq {"debounce", "neutral"}
         /\ loads \in LoadStates
BY DEF TypeOK, Momenta

LEMMA ScheduleHolds ==
  ASSUME IInv, NEW l, Sound(l), NothingStarts(loads, l),
         l.completed = loads.completed, NEW c \in Contexts,
         NEW elapsed \in Elapsed, NEW saving \in BOOLEAN, Schedule(l, c, elapsed, saving),
         saving => l.window = None /\ \A e \in l.active : e.retiring
  PROVE  /\ momentum' \in Momenta /\ generation' \in Nat /\ context' = c
         /\ pending' \in 0 .. generation' /\ timers' \subseteq {"debounce", "neutral"}
         /\ Sound(loads') /\ Admits(loads, loads')
         /\ saving => /\ pending' = 0 /\ loads'.window = None
                      /\ \A e \in loads'.active : e.retiring
<1> DEFINE m == UpdatedMomentum(momentum, c.index, elapsed)
           gen == generation + 1
           kept == CacheDisplayed(l, c.displayed)
           now == ~saving /\ c.immediate
<1>1. c.index \in Pages \cup {-1} /\ c.displayed \in SUBSET Pages /\ momentum \in Momenta
      /\ generation \in Nat
  BY Typed DEF IInv, Contexts
<1>2. m \in Momenta /\ gen \in Nat /\ gen > 0
  BY <1>1, UpdatedMomentumType
<1>3. Sound(kept) /\ kept.active = l.active /\ kept.window = l.window
      /\ kept.completed = l.completed
  BY <1>1, CacheDisplayedIsSound
<1> HIDE DEF m, gen, kept
<1>4. /\ momentum' = m /\ generation' = gen /\ context' = c
      /\ pending' = (IF saving THEN 0 ELSE gen)
      /\ timers' \subseteq {"debounce", "neutral"}
      /\ loads' = (CASE saving -> ClearWindow(kept)
                     [] now -> StartAdjacent(kept, c, m, gen, FALSE)
                     [] OTHER -> kept)
  BY Zenon DEF Schedule, m, gen, kept
<1>5. pending' \in 0 .. generation'
  BY <1>2, <1>4
<1>6. NothingStarts(loads, kept)
  BY <1>3 DEF NothingStarts
<1>7. CASE saving
  <2>1. loads' = ClearWindow(kept)
    BY <1>4, <1>7
  <2>2. Sound(loads') /\ loads'.active = l.active /\ loads'.window = None
    BY <1>3, <1>7, <2>1, ClearWindowIsSound
  <2>3. Admits(loads, loads')
    BY <2>2, NothingToAdmit DEF NothingStarts
  <2> QED
    BY <1>2, <1>4, <1>5, <1>7, <2>2, <2>3
<1>8. CASE now
  <2>1. loads' = StartAdjacent(kept, c, m, gen, FALSE)
    BY <1>4, <1>8
  <2>2. Sound(loads') /\ Starts(kept, loads')
    BY <1>2, <1>3, <2>1, StartAdjacentIsSound
  <2>3. Admits(loads, loads')
    BY <1>3, <1>6, <2>2, AdmitsThrough
  <2> QED
    BY <1>2, <1>4, <1>5, <1>8, <2>2, <2>3
<1>9. CASE ~saving /\ ~now
  <2>1. loads' = kept
    BY <1>4, <1>9
  <2>2. Admits(loads, loads')
    BY <1>6, <2>1, NothingToAdmit
  <2> QED
    BY <1>2, <1>3, <1>4, <1>5, <1>9, <2>1, <2>2
<1> QED
  BY <1>7, <1>8, <1>9

-----------------------------------------------------------------------------
(* Every action keeps the invariant and starts only what is admitted. *)

LEMMA AskType ==
  ASSUME TypeOK, NEW page \in Pages, NEW displayed \in SUBSET Pages,
         NEW index \in Pages \cup {-1}, NEW immediate \in BOOLEAN, request' = request + 1,
         Remembers, selected' = page, AskFor(page, displayed, index, immediate)
  PROVE  asked' \subseteq [id : Nat, context : Contexts] /\ Remembers'
         /\ \E a \in asked' : a.id = request'
<1> DEFINE c == [page |-> page, displayed |-> displayed, index |-> index,
                 immediate |-> immediate, snapshot |-> 0]
           new == [id |-> request', context |-> c]
<1>1. c \in Contexts /\ c.page = page
  BY DEF Contexts
<1>2. asked' = asked \cup {new}
  BY DEF AskFor
<1> HIDE DEF c
<1>3. new \in [id : Nat, context : Contexts] /\ new.id = request' /\ new.context.page = page
  BY <1>1, Typed
<1> HIDE DEF new
<1> QED
  BY <1>2, <1>3, Typed DEF Remembers

LEMMA Unloaded == ASSUME IInv, UNCHANGED loads PROVE Sound(loads') /\ Admits(loads, loads')
BY NothingToAdmit DEF IInv, NothingStarts

LEMMA ScheduleAdjacentGood ==
  ASSUME IInv, NEW page \in Pages, NEW displayed \in ShownWith(page),
         NEW index \in PageIndices(page), ScheduleAdjacent(page, displayed, index)
  PROVE  Good
<1>1. displayed \in SUBSET Pages /\ index \in Pages \cup {-1}
  BY DEF ShownWith, PageIndices
<1>2. asked' \subseteq [id : Nat, context : Contexts] /\ Remembers'
      /\ \E a \in asked' : a.id = request'
  BY <1>1, AskType DEF IInv, ScheduleAdjacent
<1>3. TypeOK'
  BY <1>1, <1>2 DEF IInv, ScheduleAdjacent, TypeOK, scheduleVars
<1>4. LatestSelectionWins' /\ PowerSaverIsQuiet' /\ SavesQuietly'
  BY <1>2 DEF IInv, ScheduleAdjacent, LatestSelectionWins, PowerSaverIsQuiet, SavesQuietly,
              scheduleVars
<1>5. Sound(loads') /\ Admits(loads, loads')
  BY Unloaded DEF ScheduleAdjacent
<1> QED
  BY <1>2, <1>3, <1>4, <1>5 DEF Good, IInv

LEMMA TakenOver ==
  ASSUME IInv, NEW page \in Pages
  PROVE  LET taken == RetireBackgroundLoad(CancelBackground(loads), page) IN
         /\ Sound(taken) /\ NothingStarts(loads, taken) /\ taken.window = None
         /\ taken.completed = loads.completed
         /\ powerSaver => \A e \in taken.active : e.retiring
<1> DEFINE l == CancelBackground(loads)
           taken == RetireBackgroundLoad(l, page)
<1> SUFFICES /\ Sound(taken) /\ NothingStarts(loads, taken) /\ taken.window = None
             /\ taken.completed = loads.completed
             /\ powerSaver => \A e \in taken.active : e.retiring
  OBVIOUS
<1>1. Sound(l) /\ l.active = loads.active /\ l.window = None /\ l.completed = loads.completed
  BY CancelBackgroundIsSound DEF IInv
<1> HIDE DEF l
<1>2. /\ Sound(taken) /\ NothingStarts(l, taken) /\ taken.window = None
      /\ taken.completed = l.completed
      /\ (\A e \in l.active : e.retiring) => \A e \in taken.active : e.retiring
  BY <1>1, RetireBackgroundLoadIsSound
<1> HIDE DEF taken
<1> QED
  BY <1>1, <1>2 DEF NothingStarts, IInv, PowerSaverIsQuiet

LEMMA ScheduleTargetGood ==
  ASSUME IInv, NEW page \in Pages, ScheduleTarget(page)
  PROVE  Good
<1> DEFINE taken == RetireBackgroundLoad(CancelBackground(loads), page)
<1>1. request' = request + 1 /\ selected' = page /\ context' = None /\ pending' = 0
      /\ timers' = {} /\ loads' = taken
      /\ UNCHANGED <<listing, shown, generation, momentum, powerSaver>>
  BY DEF ScheduleTarget, DropSchedule
<1>2. /\ Sound(taken) /\ NothingStarts(loads, taken) /\ taken.window = None
      /\ powerSaver => \A e \in taken.active : e.retiring
  BY TakenOver
<1> HIDE DEF taken
<1>3. asked' \subseteq [id : Nat, context : Contexts] /\ Remembers'
  <2>1. CASE AskFor(page, shown, page, TRUE)
    BY <1>1, <2>1, AskType, Typed DEF IInv
  <2>2. CASE asked' = asked
    BY <1>1, <2>2, Typed DEF IInv, Remembers
  <2> QED
    BY <2>1, <2>2 DEF ScheduleTarget
<1>4. TypeOK'
  BY <1>1, <1>2, <1>3 DEF IInv, TypeOK, Sound
<1>5. LatestSelectionWins' /\ PowerSaverIsQuiet' /\ SavesQuietly'
  BY <1>1, <1>2 DEF LatestSelectionWins, PowerSaverIsQuiet, SavesQuietly
<1>6. Admits(loads, loads')
  BY <1>1, <1>2, NothingToAdmit
<1> QED
  BY <1>1, <1>2, <1>3, <1>4, <1>5, <1>6 DEF Good, IInv

LEMMA SnapshotArrivesGood ==
  ASSUME IInv, NEW a \in asked, NEW succeeded \in BOOLEAN, NEW elapsed \in Elapsed,
         SnapshotArrives(a, succeeded, elapsed)
  PROVE  Good
<1>1. asked' = asked \ {a} /\ UNCHANGED <<request, shown, selected, listing, powerSaver>>
  BY DEF SnapshotArrives
<1>2. Remembers'
  BY <1>1 DEF IInv, Remembers
<1>3. CASE Accepts(a)
  <2> DEFINE c == [a.context EXCEPT !.snapshot = IF succeeded THEN listing ELSE 0]
             taken == IF c.immediate THEN RetireBackgroundLoad(CancelBackground(loads), c.page)
                                     ELSE loads
  <2>1. Schedule(taken, c, elapsed, powerSaver)
    BY <1>3 DEF SnapshotArrives
  <2>2. a.context \in Contexts /\ listing \in Nat /\ powerSaver \in BOOLEAN
    BY Typed DEF IInv
  <2>3. c \in Contexts /\ c.page \in Pages /\ c.page = a.context.page
    BY <2>2 DEF Contexts
  <2>4. c.page = selected
    BY <1>3, <2>3 DEF IInv, Remembers, Accepts
  <2> HIDE DEF c
  <2>5. /\ Sound(taken) /\ NothingStarts(loads, taken) /\ taken.completed = loads.completed
        /\ powerSaver => taken.window = None /\ \A e \in taken.active : e.retiring
    <3>1. CASE c.immediate
      BY <2>3, <3>1, TakenOver
    <3>2. CASE ~c.immediate
      BY <3>2 DEF IInv, NothingStarts, PowerSaverIsQuiet
    <3> QED
      BY <3>1, <3>2
  <2> HIDE DEF taken
  <2>6. /\ momentum' \in Momenta /\ generation' \in Nat /\ context' = c
        /\ pending' \in 0 .. generation' /\ timers' \subseteq {"debounce", "neutral"}
        /\ Sound(loads') /\ Admits(loads, loads')
        /\ powerSaver => /\ pending' = 0 /\ loads'.window = None
                         /\ \A e \in loads'.active : e.retiring
    BY <2>1, <2>2, <2>3, <2>5, ScheduleHolds
  <2>7. context' # None
    BY <2>3, <2>6, NoneAssumption
  <2>8. TypeOK'
    BY <1>1, <2>3, <2>6, <2>7 DEF IInv, TypeOK, Sound, Momenta
  <2>9. LatestSelectionWins' /\ PowerSaverIsQuiet' /\ SavesQuietly'
    BY <1>1, <2>4, <2>6 DEF LatestSelectionWins, PowerSaverIsQuiet, SavesQuietly
  <2> QED
    BY <1>2, <2>6, <2>8, <2>9 DEF Good, IInv
<1>4. CASE ~Accepts(a)
  <2>1. UNCHANGED <<scheduleVars, loads>>
    BY <1>4 DEF SnapshotArrives
  <2>2. TypeOK'
    BY <1>1, <2>1 DEF IInv, TypeOK, scheduleVars
  <2>3. LatestSelectionWins' /\ PowerSaverIsQuiet' /\ SavesQuietly'
    BY <1>1, <1>4, <2>1 DEF IInv, Accepts, LatestSelectionWins, PowerSaverIsQuiet, SavesQuietly,
                            scheduleVars
  <2> QED
    BY <1>2, <2>1, <2>2, <2>3, Unloaded DEF Good, IInv
<1> QED
  BY <1>3, <1>4

LEMMA StopScheduleGood ==
  ASSUME IInv, StopSchedule, Sound(loads'), NothingStarts(loads, loads'), loads'.window = None,
         \A e \in loads'.active : e.retiring
  PROVE  Good
<1>1. TypeOK'
  BY Typed DEF IInv, TypeOK, StopSchedule, DropSchedule, StillMomentum, Modes, Sound
<1>2. LatestSelectionWins' /\ PowerSaverIsQuiet' /\ SavesQuietly'
  BY DEF LatestSelectionWins, PowerSaverIsQuiet, SavesQuietly, StopSchedule, DropSchedule
<1>3. Remembers'
  BY Typed DEF IInv, Remembers, StopSchedule
<1> QED
  BY <1>1, <1>2, <1>3, NothingToAdmit DEF Good, IInv

LEMMA CancelGood == ASSUME IInv, Cancel PROVE Good
<1> DEFINE l == CancelDecodes(loads)
<1>1. Sound(l) /\ NothingStarts(loads, l) /\ \A e \in l.active : e.retiring
  BY CancelDecodesIsSound DEF IInv
<1>2. loads' = CancelBackground(l) /\ StopSchedule
  BY DEF Cancel
<1> HIDE DEF l
<1>3. Sound(loads') /\ loads'.active = l.active /\ loads'.window = None
  BY <1>1, <1>2, CancelBackgroundIsSound
<1> QED
  BY <1>1, <1>2, <1>3, StopScheduleGood DEF NothingStarts

LEMMA ClearGood == ASSUME IInv, Clear PROVE Good
<1>1. loads' = ClearLoads(loads) /\ StopSchedule
  BY DEF Clear
<1>2. /\ Sound(loads') /\ NothingStarts(loads, loads')
      /\ loads'.window = None /\ \A e \in loads'.active : e.retiring
  BY <1>1, ClearLoadsIsSound DEF IInv
<1> QED
  BY <1>1, <1>2, StopScheduleGood

LEMMA ListingChangesGood == ASSUME IInv, ListingChanges PROVE Good
<1>1. TypeOK'
  BY DEF IInv, TypeOK, ListingChanges, documentVars, scheduleVars
<1>2. Remembers' /\ LatestSelectionWins' /\ PowerSaverIsQuiet' /\ SavesQuietly'
  BY DEF IInv, ListingChanges, documentVars, scheduleVars, Remembers, LatestSelectionWins,
         PowerSaverIsQuiet, SavesQuietly
<1> QED
  BY <1>1, <1>2, Unloaded DEF Good, IInv, ListingChanges

LEMMA EnablePowerSaverGood == ASSUME IInv, EnablePowerSaver PROVE Good
<1> DEFINE l == CancelDecodes(loads)
           m == CancelBackground(l)
<1>1. Sound(l) /\ NothingStarts(loads, l) /\ \A e \in l.active : e.retiring
  BY CancelDecodesIsSound DEF IInv
<1>2. loads' = ClearWindow(m)
  BY DEF EnablePowerSaver, SuspendLoads
<1> HIDE DEF l
<1>3. Sound(m) /\ m.active = l.active /\ m.window = None
  BY <1>1, CancelBackgroundIsSound
<1> HIDE DEF m
<1>4. Sound(loads') /\ loads'.active = l.active /\ loads'.window = None
  BY <1>2, <1>3, ClearWindowIsSound
<1>5. TypeOK'
  BY <1>4, Typed DEF IInv, TypeOK, EnablePowerSaver, documentVars, Sound
<1>6. Remembers' /\ LatestSelectionWins'
  BY DEF IInv, EnablePowerSaver, documentVars, Remembers, LatestSelectionWins
<1>7. PowerSaverIsQuiet' /\ SavesQuietly'
  BY <1>1, <1>4 DEF EnablePowerSaver, PowerSaverIsQuiet, SavesQuietly
<1>8. Admits(loads, loads')
  BY <1>1, <1>4, NothingToAdmit DEF NothingStarts
<1> QED
  BY <1>4, <1>5, <1>6, <1>7, <1>8 DEF Good, IInv

LEMMA DisablePowerSaverGood ==
  ASSUME IInv, NEW elapsed \in Elapsed, DisablePowerSaver(elapsed)
  PROVE  Good
<1>1. powerSaver' = FALSE /\ UNCHANGED <<documentVars, listing>>
  BY DEF DisablePowerSaver
<1>2. Remembers' /\ PowerSaverIsQuiet' /\ SavesQuietly'
  BY <1>1 DEF IInv, Remembers, documentVars, PowerSaverIsQuiet, SavesQuietly
<1>3. CASE context = None
  <2>1. UNCHANGED <<scheduleVars, loads>>
    BY <1>3 DEF DisablePowerSaver
  <2>2. TypeOK' /\ LatestSelectionWins'
    BY <1>1, <2>1 DEF IInv, TypeOK, documentVars, scheduleVars, LatestSelectionWins
  <2> QED
    BY <1>2, <2>1, <2>2, Unloaded DEF Good, IInv
<1>4. CASE context # None
  <2>1. Schedule(loads, context, elapsed, FALSE)
    BY <1>4 DEF DisablePowerSaver
  <2>2. context \in Contexts /\ Sound(loads) /\ NothingStarts(loads, loads)
    BY <1>4, Typed DEF IInv, NothingStarts
  <2>3. /\ momentum' \in Momenta /\ generation' \in Nat /\ context' = context
        /\ pending' \in 0 .. generation' /\ timers' \subseteq {"debounce", "neutral"}
        /\ Sound(loads') /\ Admits(loads, loads')
    BY <2>1, <2>2, ScheduleHolds
  <2>4. TypeOK' /\ LatestSelectionWins'
    BY <1>1, <1>4, <2>3 DEF IInv, TypeOK, documentVars, LatestSelectionWins, Momenta, Sound
  <2> QED
    BY <1>2, <2>3, <2>4 DEF Good, IInv
<1> QED
  BY <1>3, <1>4

LEMMA DebounceFiresGood == ASSUME IInv, DebounceFires PROVE Good
<1>1. timers' \subseteq timers
      /\ UNCHANGED <<documentVars, listing, generation, context, pending, momentum, powerSaver>>
  BY DEF DebounceFires
<1>2. Remembers' /\ LatestSelectionWins' /\ SavesQuietly'
  BY <1>1 DEF IInv, documentVars, Remembers, LatestSelectionWins, SavesQuietly
<1>3. CASE pending = 0
  <2>1. UNCHANGED loads
    BY <1>3 DEF DebounceFires
  <2>2. TypeOK' /\ PowerSaverIsQuiet'
    BY <1>1, <2>1 DEF IInv, TypeOK, documentVars, PowerSaverIsQuiet
  <2> QED
    BY <1>2, <2>1, <2>2, Unloaded DEF Good, IInv
<1>4. CASE pending # 0
  <2>1. loads' = StartAdjacent(loads, context, momentum, pending, powerSaver)
    BY <1>4 DEF DebounceFires
  <2>2. pending \in Nat /\ context \in Contexts /\ powerSaver \in BOOLEAN /\ Sound(loads)
    BY <1>4, Typed DEF IInv
  <2>3. Sound(loads') /\ Starts(loads, loads')
    BY <2>1, <2>2, StartAdjacentIsSound
  <2>4. Admits(loads, loads')
    BY <2>3, AdmitsThrough DEF NothingStarts
  <2>5. ~powerSaver'
    BY <1>1, <1>4 DEF IInv, SavesQuietly
  <2>6. TypeOK' /\ PowerSaverIsQuiet'
    BY <1>1, <2>3, <2>5 DEF IInv, TypeOK, documentVars, PowerSaverIsQuiet, Sound
  <2> QED
    BY <1>2, <2>3, <2>4, <2>6 DEF Good, IInv
<1> QED
  BY <1>3, <1>4

LEMMA NeutralFiresGood == ASSUME IInv, NeutralFires PROVE Good
<1>1. UNCHANGED <<documentVars, listing, context, powerSaver>>
  BY DEF NeutralFires
<1>2. Remembers' /\ LatestSelectionWins'
  BY <1>1 DEF IInv, documentVars, Remembers, LatestSelectionWins
<1>3. CASE Settles
  <2>1. /\ momentum' = [momentum EXCEPT !.mode = "neutral"] /\ generation' = generation + 1
        /\ pending' = generation' /\ timers' = {}
        /\ loads' = StartAdjacent(loads, context, momentum', generation', powerSaver)
    BY <1>3 DEF NeutralFires
  <2>2. generation \in Nat /\ context \in Contexts /\ powerSaver \in BOOLEAN /\ Sound(loads)
        /\ momentum \in Momenta
    BY <1>3, Typed DEF IInv, Settles
  <2>3. momentum' \in Momenta /\ generation' \in Nat /\ pending' \in 0 .. generation'
    BY <2>1, <2>2 DEF Momenta, Modes
  <2>4. Sound(loads') /\ Starts(loads, loads')
    BY <2>1, <2>2, <2>3, StartAdjacentIsSound
  <2>5. Admits(loads, loads')
    BY <2>4, AdmitsThrough DEF NothingStarts
  <2>6. ~powerSaver'
    BY <1>1, <1>3 DEF IInv, SavesQuietly, Settles
  <2>7. context' # None
    BY <1>1, <2>2, NoneAssumption
  <2>8. TypeOK' /\ PowerSaverIsQuiet' /\ SavesQuietly'
    BY <1>1, <2>1, <2>3, <2>4, <2>6, <2>7
       DEF IInv, TypeOK, documentVars, PowerSaverIsQuiet, SavesQuietly, Sound, Momenta
  <2> QED
    BY <1>2, <2>4, <2>5, <2>8 DEF Good, IInv
<1>4. CASE ~Settles
  <2>1. timers' \subseteq timers /\ UNCHANGED <<generation, pending, momentum, loads>>
    BY <1>4 DEF NeutralFires
  <2>2. TypeOK' /\ PowerSaverIsQuiet' /\ SavesQuietly'
    BY <1>1, <2>1 DEF IInv, TypeOK, documentVars, PowerSaverIsQuiet, SavesQuietly
  <2> QED
    BY <1>2, <2>1, <2>2, Unloaded DEF Good, IInv
<1> QED
  BY <1>3, <1>4

LEMMA LoadsOnly ==  \* what a report of a job leaves alone
  ASSUME IInv, UNCHANGED <<documentVars, listing, scheduleVars, powerSaver>>, Sound(loads'),
         Admits(loads, loads'), PowerSaverIsQuiet'
  PROVE  Good
<1>1. TypeOK'
  BY DEF IInv, TypeOK, documentVars, scheduleVars, Sound
<1>2. Remembers' /\ LatestSelectionWins' /\ SavesQuietly'
  BY DEF IInv, documentVars, scheduleVars, Remembers, LatestSelectionWins, SavesQuietly
<1> QED
  BY <1>1, <1>2 DEF Good, IInv

LEMMA FinishDecodeGood == ASSUME IInv, NEW e \in loads.active, FinishDecode(e) PROVE Good
<1>1. loads' = FinishPublishing(loads, e)
      /\ UNCHANGED <<documentVars, listing, scheduleVars, powerSaver>>
  BY DEF FinishDecode
<1>2. Sound(loads') /\ NothingStarts(loads, loads') /\ loads'.window = loads.window
  BY <1>1, FinishPublishingIsSound DEF IInv
<1>3. PowerSaverIsQuiet'
  BY <1>1, <1>2 DEF IInv, PowerSaverIsQuiet, NothingStarts
<1> QED
  BY <1>1, <1>2, <1>3, NothingToAdmit, LoadsOnly

LEMMA JobRetiresGood == ASSUME IInv, NEW e \in loads.active, JobRetires(e) PROVE Good
<1>1. loads' = FinishRetirement(loads, e) /\ e.retiring
      /\ UNCHANGED <<documentVars, listing, scheduleVars, powerSaver>>
  BY DEF JobRetires
<1>2. /\ Sound(loads') /\ Admits(loads, loads') /\ loads'.window = loads.window
      /\ loads.window = None => loads'.active = loads.active \ {e}
  BY <1>1, FinishRetirementIsSound DEF IInv
<1>3. PowerSaverIsQuiet'
  BY <1>1, <1>2 DEF IInv, PowerSaverIsQuiet
<1> QED
  BY <1>1, <1>2, <1>3, LoadsOnly

LEMMA NextIsGood == IInv /\ [Next]_vars => Good
<1> SUFFICES ASSUME IInv, [Next]_vars PROVE Good
  OBVIOUS
<1>1. CASE DocumentCall
  <2>1. ASSUME NEW page \in Pages, NEW displayed \in ShownWith(page),
               NEW index \in PageIndices(page), ScheduleAdjacent(page, displayed, index)
        PROVE  Good
    BY <2>1, ScheduleAdjacentGood
  <2>2. ASSUME NEW page \in Pages, ScheduleTarget(page) PROVE Good
    BY <2>2, ScheduleTargetGood
  <2> QED
    BY <1>1, <2>1, <2>2, CancelGood, ClearGood DEF DocumentCall
<1>2. CASE Answer
  BY <1>2, SnapshotArrivesGood DEF Answer
<1>3. CASE ListingChanges
  BY <1>3, ListingChangesGood
<1>4. CASE EnablePowerSaver
  BY <1>4, EnablePowerSaverGood
<1>5. CASE \E elapsed \in Elapsed : DisablePowerSaver(elapsed)
  BY <1>5, DisablePowerSaverGood
<1>6. CASE DebounceFires \/ NeutralFires
  BY <1>6, DebounceFiresGood, NeutralFiresGood
<1>7. CASE JobStep
  BY <1>7, FinishDecodeGood, JobRetiresGood DEF JobStep
<1>8. CASE UNCHANGED vars
  <2>1. UNCHANGED <<documentVars, listing, scheduleVars, powerSaver>> /\ UNCHANGED loads
    BY <1>8 DEF vars
  <2>2. PowerSaverIsQuiet'
    BY <2>1 DEF IInv, PowerSaverIsQuiet
  <2> QED
    BY <2>1, <2>2, Unloaded, LoadsOnly
<1> QED
  BY <1>1, <1>2, <1>3, <1>4, <1>5, <1>6, <1>7, <1>8 DEF Next

-----------------------------------------------------------------------------

\* The invariant the other theorems follow from: the loads are typed and bounded, nothing is
\* queued for the page of the foreground, power saver leaves no schedule pending, and of the
\* snapshot requests not yet answered only that of the latest call bears its number.
THEOREM Inductive == Spec => []IInv
<1>1. Init => IInv
  BY InitHolds
<1>2. IInv /\ [Next]_vars => IInv'
  BY NextIsGood DEF Good
<1> QED
  BY <1>1, <1>2, PTL DEF Spec

\* The state of the schedule and of the loads keeps its types, for any number of pages.
THEOREM TypeCorrect == Spec => []TypeOK
<1>1. IInv => TypeOK
  BY DEF IInv
<1> QED
  BY <1>1, Inductive, PTL

\* For any limit and any windows the decodes that hold memory and a thread, canceled ones
\* included, never exceed the limit (PredecodeLoadController::startNextLoads).
THEOREM DecodesAreBounded == Spec => []ParallelBound
<1>1. IInv => ParallelBound
  BY DEF IInv, Sound, Held, ParallelBound
<1> QED
  BY <1>1, Inductive, PTL

\* Under power saver no window is open and every decode still present was canceled, whatever
\* calls, answers, timers and completions came before.
THEOREM PowerSaverQuiet == Spec => []PowerSaverIsQuiet
<1>1. IInv => PowerSaverIsQuiet
  BY DEF IInv
<1> QED
  BY <1>1, Inductive, PTL

\* Once the latest call was answered the schedule is for the page it named: no late snapshot
\* brings back an earlier page (ImageDocumentPredecodeController).
THEOREM LatestSelection == Spec => []LatestSelectionWins
<1>1. IInv => LatestSelectionWins
  BY DEF IInv
<1> QED
  BY <1>1, Inductive, PTL

\* A decode starts only for a page that no canceled decode still occupies, that the foreground
\* does not own and whose work is not completed, and never under power saver.
THEOREM StartsAdmitted == Spec => StartsAreAdmitted
<1>1. IInv /\ [Next]_vars =>
        [\A e \in Started :
           /\ ~\E old \in loads.active \cap loads'.active : old.page = e.page /\ old.retiring
           /\ e.page # loads'.window.foreground
           /\ Work(e.page, e.scope) \notin loads.completed
           /\ ~powerSaver']_vars
  <2> SUFFICES ASSUME IInv, [Next]_vars, NEW e \in Started
               PROVE  /\ ~\E old \in loads.active \cap loads'.active :
                            old.page = e.page /\ old.retiring
                      /\ e.page # loads'.window.foreground
                      /\ Work(e.page, e.scope) \notin loads.completed
                      /\ ~powerSaver'
    OBVIOUS
  <2>1. IInv' /\ Admits(loads, loads')
    BY NextIsGood DEF Good
  <2> QED
    BY <2>1 DEF Admits, Started, IInv, PowerSaverIsQuiet
<1> QED
  BY <1>1, Inductive, PTL DEF Spec, StartsAreAdmitted
=============================================================================
