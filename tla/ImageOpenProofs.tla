--------------------------- MODULE ImageOpenProofs ---------------------------
(***************************************************************************)
(* Proofs about ImageOpen: types, that no part of an open ends in a state  *)
(* the code aborts on, and that a document at rest that loads is served,   *)
(* for any number of loads, however deep they are made inside each other.  *)
(***************************************************************************)
EXTENDS ImageOpen, SequenceTheorems, TLAPS

\* What is left of a plan that opens a source: all of it, and after the cancellation.
WholeOpen ==
  {<<"cancelOpen", "callOut", "clearLoadingContainer", "prepare", "select", "beginOpen">>,
   <<"cancelOpen", "callOut", "setLoadingContainer", "prepare", "select", "beginOpen">>}
Unprepared ==
  {<<"callOut", "clearLoadingContainer", "prepare", "select", "beginOpen">>,
   <<"callOut", "setLoadingContainer", "prepare", "select", "beginOpen">>,
   <<"clearLoadingContainer", "prepare", "select", "beginOpen">>,
   <<"setLoadingContainer", "prepare", "select", "beginOpen">>,
   <<"prepare", "select", "beginOpen">>}
Prepared == {<<"select", "beginOpen">>, <<"beginOpen">>}
Opens == WholeOpen \cup Unprepared \cup Prepared

\* Of one that keeps the open in progress, of one that clears a deleted image, and of one that
\* reports a change of the open.
Keeps ==
  {<<"callOut", "clearLoadingContainer", "select">>,
   <<"clearLoadingContainer", "select">>, <<"select">>,
   <<"callOut", "clearLoadingContainer", "select", "setContainer">>,
   <<"clearLoadingContainer", "select", "setContainer">>,
   <<"select", "setContainer">>, <<"setContainer">>}
Clears ==
  {<<"callOut", "cancelOpen", "callOut", "select", "clearError", "finishEmpty">>,
   <<"cancelOpen", "callOut", "select", "clearError", "finishEmpty">>,
   <<"callOut", "select", "clearError", "finishEmpty">>,
   <<"select", "clearError", "finishEmpty">>, <<"clearError", "finishEmpty">>,
   <<"finishEmpty">>}
WholeReport == {<<"callOut", "clearImage", "callOut">>, <<"callOut">>}
Reports == WholeReport \cup {<<"clearImage", "callOut">>}

AtWork(f) == f.at = "plan" /\ f.current /\ f.ops # <<>>
Awaits(f) == f.at \in {"applied", "reported"} /\ f.current
OfSession(f) == f.at \in {"started", "asking", "prepared", "probing"}

\* What is left of a plan, the report of a change, and the session of a call of the loader.
Shape(f) ==
  /\ f.at = "plan" => f.ops \in Opens \cup Keeps \cup Clears \cup Reports \cup {<<>>}
  /\ f.at \in {"applied", "reported"} => f.ops \in WholeReport
  /\ OfSession(f) => f.id # 0
Shapes == \A i \in DOMAIN stack : Shape(stack[i])

\* Above a plan that goes on there are only the calls of subscribers and the clearing of the
\* target; so what its operations established is still so.
PlanInOrder ==
  \A i \in DOMAIN stack : AtWork(stack[i]) =>
    /\ \A j \in DOMAIN stack : j > i => stack[j].at \in {"told", "clearTarget"}
    /\ stack[i].ops \in Unprepared \cup Prepared \cup Reports => session = NoSession
    /\ stack[i].ops \in Unprepared \cup Prepared => \A j \in DOMAIN stack : ~Awaits(stack[j])
    /\ stack[i].ops \in Prepared => prepared = stack[i].of
    /\ stack[i].ops = <<"beginOpen">> => image.source = stack[i].of
    /\ stack[i].ops \in Keeps => stack[i].of # None /\ image.source = stack[i].of
    /\ stack[i].ops \in Clears => i = 1 /\ image.status # "loading"

\* The operation whose change is being reported is the only current one, and has no session yet.
OpenIsReported ==
  \A i \in DOMAIN stack : Awaits(stack[i]) =>
    /\ session = NoSession
    /\ stack[i].of # None => image.status = "loading" /\ image.source = stack[i].of
    /\ \A j \in DOMAIN stack : Awaits(stack[j]) => j = i

StatusAgrees ==
  /\ image.loading <=> image.status = "loading"
  /\ image.status = "loading" => ~image.error

\* A session is that of the load in progress.
SessionLoads ==
  session # NoSession =>
    /\ session.id # 0 /\ session.source # None /\ session.page # None
    /\ image.status = "loading" /\ image.source \in {session.source, session.page}

WillBegin == \E i \in DOMAIN stack : AtWork(stack[i]) /\ stack[i].ops \in Opens
WillStart == \E i \in DOMAIN stack : Awaits(stack[i]) /\ stack[i].of # None

\* A load that was not cut off has a session or is about to get one; a session has an answer to
\* wait for or a call of the loader.
SomebodyLoads ==
  ~lost =>
    /\ image.status = "loading" /\ session = NoSession => WillBegin \/ WillStart
    /\ session # NoSession =>
         \/ session.id \in snapshots
         \/ unshown = session.id /\ target = session.id
         \/ \E i \in DOMAIN stack : /\ stack[i].at \in {"started", "prepared", "probing"}
                                    /\ stack[i].id = session.id

\* Every load starts one session at most.
Budget == opened <= loads /\ (WillBegin \/ WillStart => opened < loads)

IInv ==
  /\ TypeOK /\ Shapes /\ PlanInOrder /\ OpenIsReported /\ StatusAgrees /\ SessionLoads
  /\ SomebodyLoads /\ Budget /\ NeverFatal

-----------------------------------------------------------------------------
(* What is left of a plan after its next operation. *)

LEMMA OpensGoOn ==
  ASSUME NEW o \in Opens
  PROVE  /\ o # <<>>
         /\ Head(o) \in {"cancelOpen", "callOut", "clearLoadingContainer", "setLoadingContainer",
                         "prepare", "select", "beginOpen"}
         /\ Head(o) = "cancelOpen" => Tail(o) \in Unprepared
         /\ Head(o) \in {"callOut", "clearLoadingContainer", "setLoadingContainer"} =>
              o \in Unprepared /\ Tail(o) \in Unprepared
         /\ Head(o) = "prepare" => o \in Unprepared /\ Tail(o) = <<"select", "beginOpen">>
         /\ Head(o) = "select" => o = <<"select", "beginOpen">> /\ Tail(o) = <<"beginOpen">>
         /\ Head(o) = "beginOpen" => o = <<"beginOpen">> /\ Tail(o) = <<>>
         /\ \E j \in DOMAIN o : o[j] = "beginOpen"
<1>1. CASE o = <<"cancelOpen", "callOut", "clearLoadingContainer", "prepare", "select", "beginOpen">>
  BY <1>1 DEF Unprepared, Prepared
<1>2. CASE o = <<"cancelOpen", "callOut", "setLoadingContainer", "prepare", "select", "beginOpen">>
  BY <1>2 DEF Unprepared, Prepared
<1>3. CASE o = <<"callOut", "clearLoadingContainer", "prepare", "select", "beginOpen">>
  BY <1>3 DEF Unprepared, Prepared
<1>4. CASE o = <<"callOut", "setLoadingContainer", "prepare", "select", "beginOpen">>
  BY <1>4 DEF Unprepared, Prepared
<1>5. CASE o = <<"clearLoadingContainer", "prepare", "select", "beginOpen">>
  BY <1>5 DEF Unprepared, Prepared
<1>6. CASE o = <<"setLoadingContainer", "prepare", "select", "beginOpen">>
  BY <1>6 DEF Unprepared, Prepared
<1>7. CASE o = <<"prepare", "select", "beginOpen">>
  BY <1>7 DEF Unprepared, Prepared
<1>8. CASE o = <<"select", "beginOpen">>
  BY <1>8 DEF Unprepared, Prepared
<1>9. CASE o = <<"beginOpen">>
  BY <1>9 DEF Unprepared, Prepared
<1> QED
  BY <1>1, <1>2, <1>3, <1>4, <1>5, <1>6, <1>7, <1>8, <1>9
     DEF Opens, WholeOpen, Unprepared, Prepared

LEMMA KeepsGoOn ==
  ASSUME NEW o \in Keeps
  PROVE  /\ o # <<>>
         /\ Head(o) \in {"callOut", "clearLoadingContainer", "select", "setContainer"}
         /\ Tail(o) \in Keeps \cup {<<>>}
<1>1. CASE o = <<"callOut", "clearLoadingContainer", "select">>
  BY <1>1 DEF Keeps
<1>2. CASE o = <<"clearLoadingContainer", "select">>
  BY <1>2 DEF Keeps
<1>3. CASE o = <<"select">>
  BY <1>3 DEF Keeps
<1>4. CASE o = <<"callOut", "clearLoadingContainer", "select", "setContainer">>
  BY <1>4 DEF Keeps
<1>5. CASE o = <<"clearLoadingContainer", "select", "setContainer">>
  BY <1>5 DEF Keeps
<1>6. CASE o = <<"select", "setContainer">>
  BY <1>6 DEF Keeps
<1>7. CASE o = <<"setContainer">>
  BY <1>7 DEF Keeps
<1> QED
  BY <1>1, <1>2, <1>3, <1>4, <1>5, <1>6, <1>7 DEF Keeps

LEMMA ClearsGoOn ==
  ASSUME NEW o \in Clears
  PROVE  /\ o # <<>>
         /\ Head(o) \in {"callOut", "cancelOpen", "select", "clearError", "finishEmpty"}
         /\ Tail(o) \in Clears \cup {<<>>}
<1>1. CASE o = <<"callOut", "cancelOpen", "callOut", "select", "clearError", "finishEmpty">>
  BY <1>1 DEF Clears
<1>2. CASE o = <<"cancelOpen", "callOut", "select", "clearError", "finishEmpty">>
  BY <1>2 DEF Clears
<1>3. CASE o = <<"callOut", "select", "clearError", "finishEmpty">>
  BY <1>3 DEF Clears
<1>4. CASE o = <<"select", "clearError", "finishEmpty">>
  BY <1>4 DEF Clears
<1>5. CASE o = <<"clearError", "finishEmpty">>
  BY <1>5 DEF Clears
<1>6. CASE o = <<"finishEmpty">>
  BY <1>6 DEF Clears
<1> QED
  BY <1>1, <1>2, <1>3, <1>4, <1>5, <1>6 DEF Clears

LEMMA ReportsGoOn ==
  ASSUME NEW o \in Reports
  PROVE  /\ o # <<>>
         /\ Head(o) \in {"callOut", "clearImage"}
         /\ Tail(o) \in Reports \cup {<<>>}
<1>1. CASE o = <<"callOut", "clearImage", "callOut">>
  BY <1>1 DEF Reports, WholeReport
<1>2. CASE o = <<"clearImage", "callOut">>
  BY <1>2 DEF Reports, WholeReport
<1>3. CASE o = <<"callOut">>
  BY <1>3 DEF Reports, WholeReport
<1> QED
  BY <1>1, <1>2, <1>3 DEF Reports, WholeReport

\* The last operation tells the plans apart, and the next one how far an open is.
LEMMA PlansDiffer ==
  /\ Opens \cap (Keeps \cup Clears \cup Reports) = {}
  /\ Keeps \cap (Clears \cup Reports) = {} /\ Clears \cap Reports = {}
  /\ WholeOpen \cap (Unprepared \cup Prepared) = {} /\ Unprepared \cap Prepared = {}
  /\ <<>> \notin Opens \cup Keeps \cup Clears \cup Reports
<1> DEFINE last(o) == o[Len(o)]
<1>1. ASSUME NEW o \in Opens PROVE last(o) = "beginOpen"
  <2>1. CASE o = <<"cancelOpen", "callOut", "clearLoadingContainer", "prepare", "select", "beginOpen">>
    BY <2>1
  <2>2. CASE o = <<"cancelOpen", "callOut", "setLoadingContainer", "prepare", "select", "beginOpen">>
    BY <2>2
  <2>3. CASE o = <<"callOut", "clearLoadingContainer", "prepare", "select", "beginOpen">>
    BY <2>3
  <2>4. CASE o = <<"callOut", "setLoadingContainer", "prepare", "select", "beginOpen">>
    BY <2>4
  <2>5. CASE o = <<"clearLoadingContainer", "prepare", "select", "beginOpen">>
    BY <2>5
  <2>6. CASE o = <<"setLoadingContainer", "prepare", "select", "beginOpen">>
    BY <2>6
  <2>7. CASE o = <<"prepare", "select", "beginOpen">>
    BY <2>7
  <2>8. CASE o = <<"select", "beginOpen">>
    BY <2>8
  <2>9. CASE o = <<"beginOpen">>
    BY <2>9
  <2> QED
    BY <2>1, <2>2, <2>3, <2>4, <2>5, <2>6, <2>7, <2>8, <2>9 DEF Opens, WholeOpen, Unprepared, Prepared
<1>2. ASSUME NEW o \in Keeps PROVE last(o) \in {"select", "setContainer"}
  <2>1. CASE o = <<"callOut", "clearLoadingContainer", "select">>
    BY <2>1
  <2>2. CASE o = <<"clearLoadingContainer", "select">>
    BY <2>2
  <2>3. CASE o = <<"select">>
    BY <2>3
  <2>4. CASE o = <<"callOut", "clearLoadingContainer", "select", "setContainer">>
    BY <2>4
  <2>5. CASE o = <<"clearLoadingContainer", "select", "setContainer">>
    BY <2>5
  <2>6. CASE o = <<"select", "setContainer">>
    BY <2>6
  <2>7. CASE o = <<"setContainer">>
    BY <2>7
  <2> QED
    BY <2>1, <2>2, <2>3, <2>4, <2>5, <2>6, <2>7 DEF Keeps
<1>3. ASSUME NEW o \in Clears PROVE last(o) = "finishEmpty"
  <2>1. CASE o = <<"callOut", "cancelOpen", "callOut", "select", "clearError", "finishEmpty">>
    BY <2>1
  <2>2. CASE o = <<"cancelOpen", "callOut", "select", "clearError", "finishEmpty">>
    BY <2>2
  <2>3. CASE o = <<"callOut", "select", "clearError", "finishEmpty">>
    BY <2>3
  <2>4. CASE o = <<"select", "clearError", "finishEmpty">>
    BY <2>4
  <2>5. CASE o = <<"clearError", "finishEmpty">>
    BY <2>5
  <2>6. CASE o = <<"finishEmpty">>
    BY <2>6
  <2> QED
    BY <2>1, <2>2, <2>3, <2>4, <2>5, <2>6 DEF Clears
<1>4. \A o \in Reports : last(o) = "callOut"
  BY DEF Reports, WholeReport
<1>5. <<>> \notin Opens \cup Keeps \cup Clears \cup Reports
  BY OpensGoOn, KeepsGoOn, ClearsGoOn, ReportsGoOn
<1>6. \A o \in WholeOpen : Head(o) = "cancelOpen"
  BY DEF WholeOpen
<1>7. \A o \in Unprepared : Head(o) \in {"callOut", "clearLoadingContainer", "setLoadingContainer", "prepare"}
  BY DEF Unprepared
<1>8. \A o \in Prepared : Head(o) \in {"select", "beginOpen"}
  BY DEF Prepared
<1> HIDE DEF last
<1>9. /\ Opens \cap (Keeps \cup Clears \cup Reports) = {}
      /\ Keeps \cap (Clears \cup Reports) = {} /\ Clears \cap Reports = {}
  BY <1>1, <1>2, <1>3, <1>4
<1>10. WholeOpen \cap (Unprepared \cup Prepared) = {} /\ Unprepared \cap Prepared = {}
  BY <1>6, <1>7, <1>8
<1> QED
  BY <1>5, <1>9, <1>10

LEMMA PlansAreTyped ==
  /\ Opens \cup Keeps \cup Clears \cup Reports \subseteq Seq(Ops)
  /\ <<>> \in Seq(Ops)
<1>1. Opens \subseteq Seq(Ops)
  BY DEF Opens, WholeOpen, Unprepared, Prepared, Ops
<1>2. Keeps \subseteq Seq(Ops)
  BY DEF Keeps, Ops
<1>3. Clears \subseteq Seq(Ops)
  BY DEF Clears, Ops
<1>4. Reports \subseteq Seq(Ops)
  BY DEF Reports, WholeReport, Ops
<1> QED
  BY <1>1, <1>2, <1>3, <1>4

\* Where each plan begins.
LEMMA PlansBegin ==
  /\ \A s : IF CurrentSource(s) THEN s # None /\ SourceLoadPlan(s) \in Keeps
                                ELSE SourceLoadPlan(s) \in WholeOpen
  /\ ClearDeletedImagePlan \in Clears
  /\ ClearImagePlan \in WholeReport /\ <<"callOut">> \in WholeReport
<1>1. ASSUME NEW s, CurrentSource(s) PROVE s # None /\ SourceLoadPlan(s) \in Keeps
  <2>1. s # None
    BY <1>1 DEF CurrentSource
  <2>2. SourceLoadPlan(s) = <<"callOut", "clearLoadingContainer", "select">>
                              \o (IF s = "sibling" THEN <<"setContainer">> ELSE <<>>)
    BY <1>1 DEF SourceLoadPlan
  <2>3. CASE s = "sibling"
    <3> DEFINE o == <<"callOut", "clearLoadingContainer", "select">> \o <<"setContainer">>
    <3>1. o \in Seq(Ops) /\ Len(o) = 4
      BY DEF Ops
    <3>2. o[1] = "callOut" /\ o[2] = "clearLoadingContainer" /\ o[3] = "select"
          /\ o[4] = "setContainer"
      OBVIOUS
    <3>3. o = SourceLoadPlan(s)
      BY <2>2, <2>3
    <3> HIDE DEF o
    <3>4. o = <<"callOut", "clearLoadingContainer", "select", "setContainer">>
      BY <3>1, <3>2
    <3> QED
      BY <2>1, <3>3, <3>4 DEF Keeps
  <2>4. CASE s # "sibling"
    <3> DEFINE o == <<"callOut", "clearLoadingContainer", "select">> \o <<>>
    <3>1. o \in Seq(Ops) /\ Len(o) = 3
      BY DEF Ops
    <3>2. o[1] = "callOut" /\ o[2] = "clearLoadingContainer" /\ o[3] = "select"
      OBVIOUS
    <3>3. o = SourceLoadPlan(s)
      BY <2>2, <2>4
    <3> HIDE DEF o
    <3>4. o = <<"callOut", "clearLoadingContainer", "select">>
      BY <3>1, <3>2
    <3> QED
      BY <2>1, <3>3, <3>4 DEF Keeps
  <2> QED
    BY <2>3, <2>4
<1>2. ASSUME NEW s, ~CurrentSource(s) PROVE SourceLoadPlan(s) \in WholeOpen
  <2> DEFINE x == IF SameScopePage(s) THEN "clearLoadingContainer" ELSE "setLoadingContainer"
             o == <<"cancelOpen", "callOut">> \o <<x>> \o <<"prepare", "select", "beginOpen">>
  <2>1. o = SourceLoadPlan(s)
    BY <1>2 DEF SourceLoadPlan
  <2>2. x \in {"clearLoadingContainer", "setLoadingContainer"}
    OBVIOUS
  <2> HIDE DEF x
  <2>3. o \in Seq(Ops) /\ Len(o) = 6
    BY <2>2 DEF Ops
  <2>4. /\ o[1] = "cancelOpen" /\ o[2] = "callOut" /\ o[3] = x
        /\ o[4] = "prepare" /\ o[5] = "select" /\ o[6] = "beginOpen"
    BY <2>2 DEF Ops
  <2> HIDE DEF o
  <2>5. o = <<"cancelOpen", "callOut", x, "prepare", "select", "beginOpen">>
    BY <2>3, <2>4
  <2> QED
    BY <2>1, <2>2, <2>5 DEF WholeOpen
<1>3. ClearDeletedImagePlan \in Clears
  BY DEF ClearDeletedImagePlan, Clears
<1>4. ClearImagePlan \in WholeReport /\ <<"callOut">> \in WholeReport
  BY DEF ClearImagePlan, WholeReport
<1> QED
  BY <1>1, <1>2, <1>3, <1>4

-----------------------------------------------------------------------------
(* The calls in progress. *)

LEMMA StackFacts ==
  ASSUME TypeOK
  PROVE  /\ stack \in Seq(Frames) /\ Len(stack) \in Nat /\ DOMAIN stack = 1..Len(stack)
         /\ stack = <<>> => Top = Told
         /\ stack # <<>> => Len(stack) \in DOMAIN stack /\ Top = stack[Len(stack)] /\ Top \in Frames
         /\ Top.at # "told" => stack # <<>>
<1>1. stack \in Seq(Frames)
  BY DEF TypeOK
<1>2. Len(stack) \in Nat /\ DOMAIN stack = 1..Len(stack) /\ (stack # <<>> => Len(stack) # 0)
  BY <1>1
<1>3. stack = <<>> => Top = Told
  BY DEF Top
<1>4. stack # <<>> => Len(stack) \in DOMAIN stack /\ Top = stack[Len(stack)] /\ Top \in Frames
  BY <1>1, <1>2 DEF Top
<1>5. Told.at = "told"
  BY DEF Told, Frame
<1> QED
  BY <1>1, <1>2, <1>3, <1>4, <1>5

LEMMA Front ==
  ASSUME NEW S, NEW s \in Seq(S), s # <<>>
  PROVE  /\ SubSeq(s, 1, Len(s) - 1) \in Seq(S) /\ Len(SubSeq(s, 1, Len(s) - 1)) = Len(s) - 1
         /\ Len(s) \in Nat \ {0} /\ DOMAIN s = 1..Len(s)
         /\ \A i \in 1..(Len(s) - 1) : SubSeq(s, 1, Len(s) - 1)[i] = s[i]
<1>1. Len(s) \in Nat \ {0} /\ DOMAIN s = 1..Len(s)
  OBVIOUS
<1>2. /\ SubSeq(s, 1, Len(s) - 1) \in Seq(S) /\ Len(SubSeq(s, 1, Len(s) - 1)) = Len(s) - 1
      /\ \A i \in 1..(Len(s) - 1) : SubSeq(s, 1, Len(s) - 1)[i] = s[i]
  BY <1>1
<1> QED
  BY <1>1, <1>2

LEMMA BelowFacts ==
  ASSUME NEW S, stack \in Seq(S), stack # <<>>
  PROVE  /\ Below \in Seq(S) /\ Len(Below) = Len(stack) - 1 /\ Len(stack) \in Nat \ {0}
         /\ DOMAIN Below = 1..(Len(stack) - 1)
         /\ \A i \in 1..(Len(stack) - 1) : Below[i] = stack[i]
<1>1. Below \in Seq(S) /\ Len(Below) = Len(stack) - 1 /\ Len(stack) \in Nat \ {0}
      /\ \A i \in 1..(Len(stack) - 1) : Below[i] = stack[i]
  BY Front DEF Below
<1>2. DOMAIN Below = 1..Len(Below)
  BY <1>1
<1> QED
  BY <1>1, <1>2

LEMMA PushFacts ==
  ASSUME NEW S, NEW s \in Seq(S), NEW f \in S
  PROVE  /\ Append(s, f) \in Seq(S) /\ Len(Append(s, f)) = Len(s) + 1
         /\ DOMAIN Append(s, f) = 1..(Len(s) + 1)
         /\ \A i \in 1..Len(s) : Append(s, f)[i] = s[i]
         /\ Append(s, f)[Len(s) + 1] = f
  OBVIOUS

LEMMA PushTwo ==
  ASSUME NEW S, NEW s \in Seq(S), NEW f \in S, NEW g \in S
  PROVE  s \o <<f, g>> = Append(Append(s, f), g)
<1> DEFINE t == s \o <<f, g>>
           u == Append(Append(s, f), g)
<1>1. <<f, g>> \in Seq(S) /\ Len(<<f, g>>) = 2 /\ <<f, g>>[1] = f /\ <<f, g>>[2] = g
  OBVIOUS
<1>2. /\ t \in Seq(S) /\ Len(t) = Len(s) + 2
      /\ \A i \in 1..(Len(s) + 2) : t[i] = IF i <= Len(s) THEN s[i] ELSE <<f, g>>[i - Len(s)]
  BY <1>1, ConcatProperties
<1>3. u \in Seq(S) /\ Len(u) = Len(s) + 2
  OBVIOUS
<1>4. \A i \in 1..Len(s) : u[i] = s[i]
  OBVIOUS
<1>5. u[Len(s) + 1] = f /\ u[Len(s) + 2] = g
  OBVIOUS
<1>6. \A i \in 1..Len(s) : t[i] = s[i]
  BY <1>2
<1>7. t[Len(s) + 1] = f /\ t[Len(s) + 2] = g
  BY <1>1, <1>2
<1>8. Len(s) \in Nat
  OBVIOUS
<1> HIDE DEF t, u
<1>9. \A i \in 1..Len(t) : t[i] = u[i]
  BY <1>2, <1>4, <1>5, <1>6, <1>7, <1>8
<1>10. t = u
  BY <1>2, <1>3, <1>9, SeqEqual
<1> QED
  BY <1>10 DEF t, u

\* A newer revision changes nothing but what compares the old one.
Same(f, g) == f.at = g.at /\ f.ops = g.ops /\ f.of = g.of /\ f.id = g.id

LEMMA SupersededFacts ==
  ASSUME NEW s \in Seq(Frames), NEW K
  PROVE  /\ Superseded(s, K) \in Seq(Frames) /\ Len(Superseded(s, K)) = Len(s)
         /\ DOMAIN Superseded(s, K) = 1..Len(s)
         /\ \A i \in 1..Len(s) :
              /\ s[i].at \notin K => Superseded(s, K)[i] = s[i]
              /\ Same(Superseded(s, K)[i], s[i])
              /\ Superseded(s, K)[i].current => s[i].current /\ s[i].at \notin K
<1> DEFINE t == Superseded(s, K)
<1>1. DOMAIN s = 1..Len(s) /\ Len(s) \in Nat
  OBVIOUS
<1>2. t = [i \in 1..Len(s) |-> IF s[i].at \in K THEN [s[i] EXCEPT !.current = FALSE] ELSE s[i]]
  BY <1>1 DEF Superseded
<1>3. \A i \in 1..Len(s) : s[i] \in Frames
  BY <1>1
<1>4. \A f \in Frames : /\ [f EXCEPT !.current = FALSE] \in Frames
                        /\ [f EXCEPT !.current = FALSE].at = f.at
                        /\ [f EXCEPT !.current = FALSE].ops = f.ops
                        /\ [f EXCEPT !.current = FALSE].of = f.of
                        /\ [f EXCEPT !.current = FALSE].id = f.id
                        /\ [f EXCEPT !.current = FALSE].current = FALSE
  BY DEF Frames
<1>5. \A i \in 1..Len(s) :
        t[i] = IF s[i].at \in K THEN [s[i] EXCEPT !.current = FALSE] ELSE s[i]
  BY <1>2
<1>6. t \in [1..Len(s) -> Frames]
  BY <1>2, <1>3, <1>4
<1>7. t \in Seq(Frames) /\ Len(t) = Len(s) /\ DOMAIN t = 1..Len(s)
  BY <1>1, <1>6
<1> HIDE DEF t
<1>8. \A i \in 1..Len(s) :
        /\ s[i].at \notin K => t[i] = s[i]
        /\ Same(t[i], s[i])
        /\ t[i].current => s[i].current /\ s[i].at \notin K
  BY <1>3, <1>4, <1>5 DEF Same
<1> QED
  BY <1>7, <1>8 DEF t

LEMMA FramesGrow ==
  ASSUME opened \in Nat, opened' \in Nat, opened' >= opened
  PROVE  Frames \subseteq Frames' /\ Seq(Frames) \subseteq Seq(Frames')
<1>1. 0..opened \subseteq 0..opened'
  OBVIOUS
<1>2. Frames \subseteq Frames'
  BY <1>1 DEF Frames
<1> QED
  BY <1>2

\* The plan's next operation is taken.
LEMMA RestFacts ==
  ASSUME TypeOK, Shapes, Top.at = "plan", Top.ops # <<>>
  PROVE  /\ Rest \in Seq(Frames) /\ Len(Rest) = Len(stack) /\ Len(stack) \in Nat \ {0}
         /\ DOMAIN Rest = DOMAIN stack /\ DOMAIN stack = 1..Len(stack)
         /\ \A i \in 1..(Len(stack) - 1) : Rest[i] = stack[i]
         /\ Rest[Len(stack)] \in Frames /\ Rest[Len(stack)].at = "plan"
         /\ Rest[Len(stack)].ops = Tail(Top.ops) /\ Tail(Top.ops) \in Seq(Ops)
         /\ Rest[Len(stack)].of = Top.of /\ Rest[Len(stack)].id = Top.id
         /\ Rest[Len(stack)].current = Top.current
<1> DEFINE w == [Top EXCEPT !.ops = Tail(@)]
<1>1. stack # <<>> /\ Top = stack[Len(stack)] /\ Top \in Frames /\ Len(stack) \in DOMAIN stack
      /\ stack \in Seq(Frames) /\ Len(stack) \in Nat /\ DOMAIN stack = 1..Len(stack)
  BY StackFacts
<1>2. Top.ops \in Seq(Ops)
  BY <1>1 DEF Frames
<1>3. Tail(Top.ops) \in Seq(Ops)
  BY <1>2
<1>4. w \in Frames /\ w.at = "plan" /\ w.ops = Tail(Top.ops) /\ w.of = Top.of /\ w.id = Top.id
      /\ w.current = Top.current
  BY <1>1, <1>3 DEF Frames
<1>5. Rest = Append(Below, w)
  BY DEF Rest
<1> HIDE DEF w
<1>6. Below \in Seq(Frames) /\ Len(Below) = Len(stack) - 1
      /\ \A i \in 1..(Len(stack) - 1) : Below[i] = stack[i]
  BY <1>1, BelowFacts
<1>7. /\ Append(Below, w) \in Seq(Frames) /\ Len(Append(Below, w)) = Len(Below) + 1
      /\ DOMAIN Append(Below, w) = 1..(Len(Below) + 1)
      /\ \A i \in 1..Len(Below) : Append(Below, w)[i] = Below[i]
      /\ Append(Below, w)[Len(Below) + 1] = w
  BY <1>4, <1>6, PushFacts
<1>8. Len(stack) \in Nat \ {0} /\ (Len(stack) - 1) + 1 = Len(stack)
  BY <1>1
<1>9. /\ Rest \in Seq(Frames) /\ Len(Rest) = Len(stack) /\ DOMAIN Rest = 1..Len(stack)
      /\ Rest[Len(stack)] = w
  BY <1>5, <1>6, <1>7, <1>8
<1>10. \A i \in 1..(Len(stack) - 1) : Rest[i] = stack[i]
  BY <1>5, <1>6, <1>7
<1> QED
  BY <1>1, <1>3, <1>4, <1>8, <1>9, <1>10

LEMMA ToldIsFrame ==
  ASSUME ConstantsAreSound, TypeOK
  PROVE  /\ Told \in Frames /\ Told.at = "told"
         /\ Shape(Told) /\ ~AtWork(Told) /\ ~Awaits(Told) /\ ~OfSession(Told)
<1>1. opened \in Nat /\ 0 \in 0..opened
  BY DEF TypeOK, ConstantsAreSound
<1> QED
  BY <1>1, PlansAreTyped DEF Told, Frame, Frames, Shape, AtWork, Awaits, OfSession

-----------------------------------------------------------------------------
(* Calls of the loader: nothing else is in progress. *)

ImageStates ==
  [source : Sources \cup {None}, status : {"null", "loading", "ready", "error"},
   loading : BOOLEAN, error : BOOLEAN, displayed : Sources \cup {None},
   container : Sources \cup {None}, loadingContainer : Sources \cup {None}]

\* No plan goes on and no change of an open is reported.
Calm(s) == \A i \in DOMAIN s : Shape(s[i]) /\ ~AtWork(s[i]) /\ ~Awaits(s[i])

LEMMA Bounds ==
  ASSUME ConstantsAreSound, TypeOK
  PROVE  opened \in Nat /\ loads \in Nat /\ MaxLoads \in Nat /\ loads <= MaxLoads
         /\ image \in ImageStates
  BY DEF TypeOK, ConstantsAreSound, ImageStates

LEMMA Owed ==
  ASSUME ConstantsAreSound, IInv
  PROVE  opened <= loads /\ (WillBegin \/ WillStart => opened + 1 <= loads)
<1>1. opened \in Nat /\ loads \in Nat
  BY Bounds DEF IInv
<1> QED
  BY <1>1 DEF IInv, Budget

LEMMA CalmKeeps ==
  ASSUME Calm(stack'), opened' \in Nat, loads' \in Nat, opened' <= loads'
  PROVE  Shapes' /\ PlanInOrder' /\ OpenIsReported' /\ Budget'
<1>1. ~WillBegin' /\ ~WillStart'
  BY DEF WillBegin, WillStart, Calm
<1>2. Shapes'
  BY DEF Calm, Shapes
<1>3. PlanInOrder'
  BY DEF Calm, PlanInOrder
<1>4. OpenIsReported'
  BY DEF Calm, OpenIsReported
<1>5. Budget'
  BY <1>1 DEF Budget
<1> QED
  BY <1>2, <1>3, <1>4, <1>5

LEMMA LoaderIsAlone ==
  ASSUME ConstantsAreSound, IInv, session # NoSession, stack = <<>> \/ OfSession(Top)
  PROVE  Calm(stack)
<1>1. DOMAIN stack = 1..Len(stack) /\ Len(stack) \in Nat
      /\ (stack # <<>> => Len(stack) \in DOMAIN stack /\ Top = stack[Len(stack)])
      /\ (stack = <<>> => Len(stack) = 0)
  BY StackFacts DEF IInv
<1>2. ASSUME NEW i \in DOMAIN stack PROVE ~AtWork(stack[i])
  <2> SUFFICES ASSUME AtWork(stack[i]) PROVE FALSE
    OBVIOUS
  <2>1. stack # <<>> /\ OfSession(Top)
    BY <1>1
  <2>2. CASE i = Len(stack)
    BY <1>1, <2>1, <2>2 DEF AtWork, OfSession
  <2>3. CASE i # Len(stack)
    <3>1. Len(stack) > i
      BY <1>1, <2>3
    <3>2. stack[Len(stack)].at \in {"told", "clearTarget"}
      BY <1>1, <2>1, <3>1 DEF IInv, PlanInOrder
    <3> QED
      BY <1>1, <2>1, <3>2 DEF OfSession
  <2> QED
    BY <2>2, <2>3
<1>3. ASSUME NEW i \in DOMAIN stack PROVE ~Awaits(stack[i])
  BY DEF IInv, OpenIsReported
<1> QED
  BY <1>2, <1>3 DEF Calm, IInv, Shapes

LEMMA CalmBelow ==
  ASSUME NEW S, stack \in Seq(S), stack # <<>>, Calm(stack)
  PROVE  Below \in Seq(S) /\ Calm(Below)
<1>1. Below \in Seq(S) /\ DOMAIN Below = 1..(Len(stack) - 1) /\ Len(stack) \in Nat \ {0}
      /\ \A i \in 1..(Len(stack) - 1) : Below[i] = stack[i]
  BY BelowFacts
<1>2. DOMAIN stack = 1..Len(stack)
  OBVIOUS
<1> QED
  BY <1>1, <1>2 DEF Calm

LEMMA StartIsAlone ==
  ASSUME ConstantsAreSound, IInv, Top.at = "reported", Top.current, Top.of # None
  PROVE  /\ Below \in Seq(Frames) /\ Calm(Below) /\ opened + 1 <= loads
         /\ session = NoSession /\ image.status = "loading" /\ image.source = Top.of
<1>1. /\ stack # <<>> /\ stack \in Seq(Frames) /\ DOMAIN stack = 1..Len(stack)
      /\ Len(stack) \in DOMAIN stack /\ Top = stack[Len(stack)]
  BY StackFacts DEF IInv
<1>2. Below \in Seq(Frames) /\ DOMAIN Below = 1..(Len(stack) - 1) /\ Len(stack) \in Nat \ {0}
      /\ \A i \in 1..(Len(stack) - 1) : Below[i] = stack[i]
  BY <1>1, BelowFacts
<1>3. Awaits(stack[Len(stack)])
  BY <1>1 DEF Awaits
<1>4. WillStart
  BY <1>1, <1>3 DEF WillStart
<1>5. /\ session = NoSession /\ image.status = "loading" /\ image.source = Top.of
      /\ \A j \in DOMAIN stack : Awaits(stack[j]) => j = Len(stack)
  BY <1>1, <1>3 DEF IInv, OpenIsReported
<1>6. ASSUME NEW i \in 1..(Len(stack) - 1) PROVE ~AtWork(stack[i]) /\ ~Awaits(stack[i])
  <2>1. i \in DOMAIN stack /\ i < Len(stack)
    BY <1>1, <1>2
  <2>2. ~Awaits(stack[i])
    BY <1>5, <2>1, <1>2
  <2>3. AtWork(stack[i]) => stack[Len(stack)].at \in {"told", "clearTarget"}
    BY <1>1, <2>1 DEF IInv, PlanInOrder
  <2> QED
    BY <1>1, <2>2, <2>3
<1>7. Calm(Below)
  BY <1>1, <1>2, <1>6 DEF Calm, IInv, Shapes
<1>8. opened + 1 <= loads
  BY <1>4, Owed
<1> QED
  BY <1>2, <1>5, <1>7, <1>8

\* One more call on a calm stack.
LEMMA CalmPush ==
  ASSUME NEW S, NEW s \in Seq(S), NEW f \in S, Calm(s), Shape(f), ~AtWork(f), ~Awaits(f)
  PROVE  Append(s, f) \in Seq(S) /\ Calm(Append(s, f))
         /\ Len(s) + 1 \in DOMAIN Append(s, f) /\ Append(s, f)[Len(s) + 1] = f
         /\ \A i \in DOMAIN s : i \in DOMAIN Append(s, f) /\ Append(s, f)[i] = s[i]
<1>1. /\ Append(s, f) \in Seq(S) /\ DOMAIN Append(s, f) = 1..(Len(s) + 1)
      /\ \A i \in 1..Len(s) : Append(s, f)[i] = s[i]
      /\ Append(s, f)[Len(s) + 1] = f
  BY PushFacts
<1>2. DOMAIN s = 1..Len(s) /\ Len(s) \in Nat
  OBVIOUS
<1> DEFINE t == Append(s, f)
<1> HIDE DEF t
<1>3. ASSUME NEW i \in 1..(Len(s) + 1) PROVE Shape(t[i]) /\ ~AtWork(t[i]) /\ ~Awaits(t[i])
  <2>1. CASE i \in 1..Len(s)
    BY <1>1, <1>2, <2>1 DEF Calm, t
  <2>2. CASE i = Len(s) + 1
    BY <1>1, <2>2 DEF t
  <2> QED
    BY <1>2, <2>1, <2>2
<1>4. Calm(t)
  BY <1>1, <1>3 DEF Calm, t
<1> QED
  BY <1>1, <1>2, <1>4 DEF t

LEMMA CalmPushTwo ==
  ASSUME NEW S, NEW s \in Seq(S), NEW f \in S, NEW g \in S, Calm(s),
         Shape(f), ~AtWork(f), ~Awaits(f), Shape(g), ~AtWork(g), ~Awaits(g)
  PROVE  /\ s \o <<f, g>> \in Seq(S) /\ Calm(s \o <<f, g>>)
         /\ \E i \in DOMAIN (s \o <<f, g>>) : (s \o <<f, g>>)[i] = f
<1> DEFINE t == Append(s, f)
<1>1. /\ t \in Seq(S) /\ Calm(t) /\ Len(s) + 1 \in DOMAIN t /\ t[Len(s) + 1] = f
  BY CalmPush
<1>2. s \o <<f, g>> = Append(t, g)
  BY PushTwo
<1> HIDE DEF t
<1>3. /\ Append(t, g) \in Seq(S) /\ Calm(Append(t, g))
      /\ \A i \in DOMAIN t : i \in DOMAIN Append(t, g) /\ Append(t, g)[i] = t[i]
  BY <1>1, CalmPush
<1> QED
  BY <1>1, <1>2, <1>3

\* The load in progress ends: the document is shown or failed, and has no session any more.
LEMMA EndPreserves ==
  ASSUME ConstantsAreSound, IInv,
         opened' \in Nat, opened' >= opened, opened' <= loads, loads' = loads,
         NEW frames \in Seq(Frames), Calm(frames), stack' = Append(frames, Told),
         image' \in ImageStates, image'.status \in {"ready", "error"}, image'.loading = FALSE,
         session' = NoSession, {target', unshown'} \subseteq 0..opened',
         UNCHANGED <<prepared, lost>>, snapshots' \subseteq snapshots, fatal' = fatal
  PROVE  IInv'
<1>1. opened \in Nat /\ loads \in Nat /\ MaxLoads \in Nat /\ loads <= MaxLoads
  BY Bounds DEF IInv
<1>2. Seq(Frames) \subseteq Seq(Frames')
  BY <1>1, FramesGrow
<1>3. Told \in Frames /\ Shape(Told) /\ ~AtWork(Told) /\ ~Awaits(Told)
  BY ToldIsFrame DEF IInv
<1>4. stack' \in Seq(Frames) /\ Calm(stack')
  BY <1>3, CalmPush
<1>5. Shapes' /\ PlanInOrder' /\ OpenIsReported' /\ Budget'
  BY <1>1, <1>4, CalmKeeps
<1>6. snapshots' \subseteq 1..opened'
  BY <1>1 DEF IInv, TypeOK
<1>7. session' \in [id : 0..opened', source : Sources \cup {None}, page : Sources \cup {None}]
  BY <1>1 DEF NoSession
<1>8. TypeOK'
  <2>1. stack' \in Seq(Frames')
    BY <1>2, <1>4
  <2>2. loads' \in 0..MaxLoads /\ opened' \in 0..MaxLoads
    BY <1>1
  <2>3. prepared' \in Sources \cup {None} /\ fatal' \in BOOLEAN /\ lost' \in BOOLEAN
    BY DEF IInv, TypeOK
  <2> QED
    BY <1>6, <1>7, <2>1, <2>2, <2>3 DEF TypeOK, ImageStates
<1>9. StatusAgrees' /\ SessionLoads' /\ SomebodyLoads'
  BY DEF StatusAgrees, SessionLoads, SomebodyLoads
<1>10. NeverFatal'
  BY DEF IInv, NeverFatal
<1> QED
  BY <1>5, <1>8, <1>9, <1>10 DEF IInv

\* The load in progress goes on in the loader.
LEMMA LoadPreserves ==
  ASSUME ConstantsAreSound, IInv,
         opened' \in Nat, opened' >= opened, opened' <= loads, loads' = loads,
         stack' \in Seq(Frames'), Calm(stack'),
         image' \in ImageStates, image'.status = "loading", image'.loading = TRUE,
         image'.error = FALSE,
         session' \in [id : 0..opened', source : Sources, page : Sources], session'.id # 0,
         image'.source \in {session'.source, session'.page},
         {target', unshown'} \subseteq 0..opened', snapshots' \subseteq 1..opened',
         UNCHANGED <<prepared, lost, fatal>>,
         \/ session'.id \in snapshots'
         \/ unshown' = session'.id /\ target' = session'.id
         \/ \E i \in DOMAIN stack' : /\ stack'[i].at \in {"started", "prepared", "probing"}
                                     /\ stack'[i].id = session'.id
  PROVE  IInv'
<1>1. opened \in Nat /\ loads \in Nat /\ MaxLoads \in Nat /\ loads <= MaxLoads
  BY Bounds DEF IInv
<1>2. Shapes' /\ PlanInOrder' /\ OpenIsReported' /\ Budget'
  BY <1>1, CalmKeeps
<1>3. session' # NoSession /\ session'.source # None /\ session'.page # None
  BY DEF NoSession, Sources, None
<1>4. session' \in [id : 0..opened', source : Sources \cup {None}, page : Sources \cup {None}]
  OBVIOUS
<1>5. TypeOK'
  BY <1>1, <1>4 DEF IInv, TypeOK, ImageStates
<1>6. StatusAgrees' /\ SessionLoads'
  BY <1>3 DEF StatusAgrees, SessionLoads
<1>7. SomebodyLoads'
  BY <1>3 DEF SomebodyLoads
<1>8. NeverFatal'
  BY DEF IInv, NeverFatal
<1> QED
  BY <1>2, <1>5, <1>6, <1>7, <1>8 DEF IInv

LEMMA SessionFacts ==
  ASSUME ConstantsAreSound, IInv, session # NoSession
  PROVE  /\ session \in [id : 0..opened, source : Sources, page : Sources] /\ session.id # 0
         /\ image.status = "loading" /\ image.loading = TRUE /\ image.error = FALSE
         /\ image.source \in {session.source, session.page}
<1>1. session \in [id : 0..opened, source : Sources \cup {None}, page : Sources \cup {None}]
      /\ image.loading \in BOOLEAN /\ image.error \in BOOLEAN
  BY DEF IInv, TypeOK
<1>2. /\ session.id # 0 /\ session.source # None /\ session.page # None
      /\ image.status = "loading" /\ image.source \in {session.source, session.page}
  BY DEF IInv, SessionLoads
<1>3. image.loading = TRUE /\ image.error = FALSE
  BY <1>1, <1>2 DEF IInv, StatusAgrees
<1>4. session \in [id : 0..opened, source : Sources, page : Sources]
  BY <1>1, <1>2
<1> QED
  BY <1>2, <1>3, <1>4

LEMMA LoaderFrame ==
  ASSUME opened' \in Nat, NEW a \in {"started", "asking", "prepared", "probing"},
         NEW s \in Sources \cup {None}, NEW id \in 1..opened'
  PROVE  /\ Frame(a, <<>>, s, id) \in Frames' /\ Shape(Frame(a, <<>>, s, id))
         /\ ~AtWork(Frame(a, <<>>, s, id)) /\ ~Awaits(Frame(a, <<>>, s, id))
         /\ Frame(a, <<>>, s, id).at = a /\ Frame(a, <<>>, s, id).id = id
<1>1. Frame(a, <<>>, s, id) = [at |-> a, ops |-> <<>>, of |-> s, id |-> id, current |-> TRUE]
  BY DEF Frame
<1>2. id \in 0..opened' /\ id # 0
  OBVIOUS
<1> DEFINE f == Frame(a, <<>>, s, id)
<1>3. f.at = a /\ f.ops = <<>> /\ f.of = s /\ f.id = id /\ f.current = TRUE
  BY <1>1
<1>4. f \in Frames'
  <2>1. <<>> \in Seq(Ops)
    BY PlansAreTyped
  <2>2. a \in {"told", "plan", "clearTarget", "applied", "reported", "started", "asking",
              "prepared", "probing"}
    OBVIOUS
  <2>3. [at |-> a, ops |-> <<>>, of |-> s, id |-> id, current |-> TRUE]
          \in [at : {"told", "plan", "clearTarget", "applied", "reported", "started", "asking",
                     "prepared", "probing"},
               ops : Seq(Ops), of : Sources \cup {None}, id : 0..opened', current : BOOLEAN]
    BY <1>2, <2>1, <2>2
  <2>4. [at |-> a, ops |-> <<>>, of |-> s, id |-> id, current |-> TRUE] \in Frames'
    BY <2>3 DEF Frames
  <2> QED
    BY <1>1, <2>4
<1> HIDE DEF f
<1>5. Shape(f) /\ ~AtWork(f) /\ ~Awaits(f)
  BY <1>2, <1>3 DEF Shape, AtWork, Awaits, OfSession
<1> QED
  BY <1>3, <1>4, <1>5 DEF f

LEMMA ErrorIsValid ==
  ASSUME ConstantsAreSound, IInv, NEW s \in Sources
  PROVE  LET d == [Failed(s) EXCEPT !.displayed = None]
         IN  /\ d \in ImageStates /\ d.status = "error" /\ d.loading = FALSE
             /\ FinalStateIsValid(d)
<1> DEFINE f == Finished("error")
           c == IF s = "sibling" THEN Container[s] ELSE None
           g == [f EXCEPT !.container = c, !.source = IF s = "sibling" THEN Container[s] ELSE @]
           d == [Failed(s) EXCEPT !.displayed = None]
<1>1. image \in ImageStates
  BY Bounds DEF IInv
<1>2. f \in ImageStates /\ f.status = "error" /\ f.loading = FALSE /\ f.error = TRUE
  BY <1>1 DEF Finished, ImageStates
<1>3. c \in Sources \cup {None} /\ (s = "sibling" => Container[s] \in Sources)
  BY DEF Container, Sources, None
<1>4. Failed(s) = g
  BY DEF Failed
<1> HIDE DEF f, c
<1>5. g \in ImageStates /\ g.status = "error" /\ g.loading = FALSE /\ g.error = TRUE
  BY <1>2, <1>3 DEF ImageStates
<1> HIDE DEF g
<1>6. d \in ImageStates /\ d.status = "error" /\ d.loading = FALSE /\ d.error = TRUE
  BY <1>4, <1>5 DEF ImageStates
<1> HIDE DEF d
<1>7. FinalStateIsValid(d)
  BY <1>6 DEF FinalStateIsValid
<1> QED
  BY <1>6, <1>7 DEF d

LEMMA ErrorPreserves ==
  ASSUME ConstantsAreSound, IInv, NEW s \in Sources, NEW frames \in Seq(Frames), Calm(frames),
         FinishLoadWithError(s, frames),
         opened' \in Nat, opened' >= opened, opened' <= loads,
         UNCHANGED <<prepared, loads, lost>>, snapshots' \subseteq snapshots
  PROVE  IInv'
<1>1. /\ image' = [Failed(s) EXCEPT !.displayed = None]
      /\ fatal' = (fatal \/ ~FinalStateIsValid(image'))
      /\ session' = NoSession /\ target' = 0 /\ unshown' = 0 /\ stack' = Append(frames, Told)
  BY DEF FinishLoadWithError, Apply
<1>2. /\ image' \in ImageStates /\ image'.status = "error" /\ image'.loading = FALSE
      /\ FinalStateIsValid(image')
  BY <1>1, ErrorIsValid
<1>3. fatal' = fatal
  BY <1>1, <1>2 DEF IInv, NeverFatal, TypeOK
<1>4. {target', unshown'} \subseteq 0..opened'
  BY <1>1
<1> QED
  BY <1>1, <1>2, <1>3, <1>4, EndPreserves

LEMMA ResolvePreserves ==
  ASSUME ConstantsAreSound, IInv, NEW id \in 1..opened, session.id = id, OfSession(Top), Resolve(id)
  PROVE  IInv'
<1>1. opened \in Nat /\ opened <= loads
  BY Bounds, Owed DEF IInv
<1>2. session # NoSession
  BY DEF NoSession
<1>3. stack # <<>> /\ stack \in Seq(Frames)
  BY StackFacts DEF IInv, OfSession
<1>4. Calm(stack)
  BY <1>2, LoaderIsAlone
<1>5. Below \in Seq(Frames) /\ Calm(Below)
  BY <1>3, <1>4, CalmBelow
<1>6. UNCHANGED <<prepared, snapshots, loads, opened, lost>>
  BY DEF Resolve
<1>7. CASE FinishLoadWithError(session.source, Below)
  BY <1>1, <1>2, <1>5, <1>6, <1>7, SessionFacts, ErrorPreserves
<1>8. CASE target = id /\ unshown' = id /\ stack' = Below /\ UNCHANGED <<image, fatal, session, target>>
  <2>1. Frames' = Frames
    BY <1>6 DEF Frames
  <2>2. {target', unshown'} \subseteq 0..opened' /\ snapshots' \subseteq 1..opened'
    BY <1>1, <1>6, <1>8 DEF IInv, TypeOK
  <2>3. image \in ImageStates
    BY Bounds DEF IInv
  <2> QED
    BY <1>1, <1>2, <1>5, <1>6, <1>8, <2>1, <2>2, <2>3, SessionFacts, LoadPreserves
<1> QED
  BY <1>7, <1>8 DEF Resolve, ResolveProviderImage

LEMMA StartVideoPreserves ==
  ASSUME ConstantsAreSound, IInv, StartVideo
  PROVE  IInv'
<1>1. /\ Top.at = "reported" /\ Top.current /\ Top.of = "clip" /\ opened' = opened + 1
      /\ session' = [id |-> opened + 1, source |-> "clip", page |-> "clip"]
      /\ stack' = Below \o <<Frame("probing", <<>>, None, opened + 1), Told>>
      /\ UNCHANGED <<image, prepared, snapshots, viewport, loads, history>>
  BY DEF StartVideo, Start, OperationIsCurrent
<1>2. /\ Below \in Seq(Frames) /\ Calm(Below) /\ opened + 1 <= loads
      /\ image.status = "loading" /\ image.source = "clip"
  BY <1>1, StartIsAlone DEF None
<1>3. opened \in Nat /\ image \in ImageStates /\ opened' \in Nat
  BY <1>1, Bounds DEF IInv
<1>4. Seq(Frames) \subseteq Seq(Frames') /\ Frames \subseteq Frames'
  BY <1>1, <1>3, FramesGrow
<1> DEFINE f == Frame("probing", <<>>, None, opened + 1)
<1>5. f \in Frames' /\ Shape(f) /\ ~AtWork(f) /\ ~Awaits(f) /\ f.at = "probing" /\ f.id = opened + 1
  <2>1. None \in Sources \cup {None} /\ opened + 1 \in 1..opened'
    BY <1>1, <1>3
  <2> QED
    BY <1>3, <2>1, LoaderFrame
<1>6. Told \in Frames' /\ Shape(Told) /\ ~AtWork(Told) /\ ~Awaits(Told)
  BY <1>4, ToldIsFrame DEF IInv
<1>7. stack' = Below \o <<f, Told>>
  BY <1>1
<1> HIDE DEF f
<1>8. Below \in Seq(Frames')
  BY <1>2, <1>4
<1>9. stack' \in Seq(Frames') /\ Calm(stack')
  BY <1>2, <1>5, <1>6, <1>7, <1>8, CalmPushTwo
<1>10. \E i \in DOMAIN stack' : stack'[i].at = "probing" /\ stack'[i].id = opened + 1
  <2>1. \E i \in DOMAIN stack' : stack'[i] = f
    BY <1>2, <1>5, <1>6, <1>7, <1>8, CalmPushTwo
  <2> QED
    BY <1>5, <2>1
<1>11. image'.loading = TRUE /\ image'.error = FALSE
  BY <1>1, <1>2, <1>3 DEF IInv, StatusAgrees, ImageStates
<1>12. session' \in [id : 0..opened', source : Sources, page : Sources] /\ session'.id # 0
       /\ session'.id = opened + 1 /\ session'.source = "clip" /\ session'.page = "clip"
  BY <1>1, <1>3 DEF Sources
<1>13. {target', unshown'} \subseteq 0..opened' /\ snapshots' \subseteq 1..opened'
  BY <1>1, <1>3 DEF IInv, TypeOK, viewport
<1>14. /\ opened' >= opened /\ opened' <= loads /\ loads' = loads /\ image' = image
       /\ UNCHANGED <<prepared, lost, fatal>>
  BY <1>1, <1>2, <1>3 DEF history
<1> QED
  BY <1>2, <1>3, <1>9, <1>10, <1>11, <1>12, <1>13, <1>14, LoadPreserves

LEMMA StartTargetPreserves ==
  ASSUME ConstantsAreSound, IInv, NEW s \in Sources, StartTarget(s)
  PROVE  IInv'
<1>1. /\ Top.at = "reported" /\ Top.current /\ Top.of = s /\ opened' = opened + 1
      /\ UNCHANGED <<prepared, snapshots, loads, lost>>
  BY DEF StartTarget, Start, OperationIsCurrent
<1>2. /\ Below \in Seq(Frames) /\ Calm(Below) /\ opened + 1 <= loads
      /\ image.status = "loading" /\ image.source = s
  BY <1>1, StartIsAlone DEF None, Sources
<1>3. opened \in Nat /\ image \in ImageStates /\ opened' \in Nat
  BY <1>1, Bounds DEF IInv
<1>4. CASE FinishLoadWithError(s, Below)
  BY <1>1, <1>2, <1>3, <1>4, ErrorPreserves
<1>5. CASE /\ session' = [id |-> opened + 1, source |-> s, page |-> s]
           /\ target' = opened + 1 /\ unshown' = 0
           /\ stack' = Below \o <<Frame("started", <<>>, s, opened + 1), Told>>
           /\ UNCHANGED <<image, fatal>>
  <2>1. Seq(Frames) \subseteq Seq(Frames') /\ Frames \subseteq Frames'
    BY <1>1, <1>3, FramesGrow
  <2> DEFINE f == Frame("started", <<>>, s, opened + 1)
  <2>2. f \in Frames' /\ Shape(f) /\ ~AtWork(f) /\ ~Awaits(f) /\ f.at = "started" /\ f.id = opened + 1
    BY <1>1, <1>3, LoaderFrame
  <2>3. Told \in Frames' /\ Shape(Told) /\ ~AtWork(Told) /\ ~Awaits(Told)
    BY <2>1, ToldIsFrame DEF IInv
  <2>4. stack' = Below \o <<f, Told>>
    BY <1>5
  <2> HIDE DEF f
  <2>5. Below \in Seq(Frames')
    BY <1>2, <2>1
  <2>6. stack' \in Seq(Frames') /\ Calm(stack')
    BY <1>2, <2>2, <2>3, <2>4, <2>5, CalmPushTwo
  <2>7. \E i \in DOMAIN stack' : stack'[i].at = "started" /\ stack'[i].id = opened + 1
    <3>1. \E i \in DOMAIN stack' : stack'[i] = f
      BY <1>2, <2>2, <2>3, <2>4, <2>5, CalmPushTwo
    <3> QED
      BY <2>2, <3>1
  <2>8. image'.loading = TRUE /\ image'.error = FALSE
    BY <1>2, <1>3, <1>5 DEF IInv, StatusAgrees, ImageStates
  <2>9. session' \in [id : 0..opened', source : Sources, page : Sources] /\ session'.id # 0
         /\ session'.id = opened + 1 /\ session'.source = s /\ session'.page = s
    BY <1>1, <1>3, <1>5
  <2>10. {target', unshown'} \subseteq 0..opened' /\ snapshots' \subseteq 1..opened'
    BY <1>1, <1>3, <1>5 DEF IInv, TypeOK
  <2>11. /\ opened' >= opened /\ opened' <= loads /\ loads' = loads /\ image' = image
         /\ UNCHANGED <<prepared, lost, fatal>>
    BY <1>1, <1>2, <1>3, <1>5
  <2> QED
    BY <1>2, <1>3, <2>6, <2>7, <2>8, <2>9, <2>10, <2>11, LoadPreserves
<1> QED
  BY <1>4, <1>5 DEF StartTarget

\* The call on top belongs to the current session.
LEMMA TopOfSession ==
  ASSUME ConstantsAreSound, IInv, OfSession(Top), IsCurrentSession(Top.id)
  PROVE  /\ session # NoSession /\ session.id = Top.id /\ Top.id \in 1..opened
         /\ stack # <<>> /\ stack \in Seq(Frames) /\ Calm(stack)
         /\ Below \in Seq(Frames) /\ Calm(Below)
         /\ Top \in Frames /\ opened \in Nat /\ opened <= loads
<1>1. /\ stack # <<>> /\ stack \in Seq(Frames) /\ Len(stack) \in DOMAIN stack
      /\ Top = stack[Len(stack)] /\ Top \in Frames
  BY StackFacts DEF IInv, OfSession
<1>2. Top.id # 0
  BY <1>1 DEF IInv, Shapes, Shape
<1>3. opened \in Nat /\ opened <= loads
  BY Bounds, Owed DEF IInv
<1>4. Top.id \in 1..opened
  BY <1>1, <1>2, <1>3 DEF Frames
<1>5. session # NoSession /\ session.id = Top.id
  BY <1>2 DEF IsCurrentSession, NoSession
<1>6. Calm(stack)
  BY <1>5, LoaderIsAlone
<1>7. Below \in Seq(Frames) /\ Calm(Below)
  BY <1>1, <1>6, CalmBelow
<1> QED
  BY <1>1, <1>3, <1>4, <1>5, <1>6, <1>7

LEMMA TargetStartedPreserves ==
  ASSUME ConstantsAreSound, IInv, TargetStarted
  PROVE  IInv'
<1>1. OfSession(Top) /\ IsCurrentSession(Top.id) /\ Resolve(Top.id)
  BY DEF TargetStarted, OfSession
<1> QED
  BY <1>1, TopOfSession, ResolvePreserves

\* The call on top goes on at another place.
LEMMA AnotherPlace ==
  ASSUME NEW f \in Frames, f.id # 0, NEW a \in {"asking", "probing"}
  PROVE  LET g == [f EXCEPT !.at = a]
         IN  g \in Frames /\ Shape(g) /\ ~AtWork(g) /\ ~Awaits(g) /\ g.at = a /\ g.id = f.id
<1> DEFINE g == [f EXCEPT !.at = a]
<1>1. g \in Frames /\ g.at = a /\ g.id = f.id
  BY DEF Frames
<1> HIDE DEF g
<1>2. Shape(g) /\ ~AtWork(g) /\ ~Awaits(g)
  BY <1>1 DEF Shape, AtWork, Awaits, OfSession
<1> QED
  BY <1>1, <1>2 DEF g

LEMMA StartOpenedCollectionPreserves ==
  ASSUME ConstantsAreSound, IInv, StartOpenedCollectionLoad
  PROVE  IInv'
<1> DEFINE g == [Top EXCEPT !.at = "asking"]
<1>1. /\ OfSession(Top) /\ IsCurrentSession(Top.id)
      /\ snapshots' = snapshots \cup {Top.id} /\ stack' = Append(Below, g)
      /\ UNCHANGED <<image, prepared, session, viewport, loads, opened, history>>
  BY DEF StartOpenedCollectionLoad, OfSession
<1>2. /\ session # NoSession /\ session.id = Top.id /\ Top.id \in 1..opened
      /\ Below \in Seq(Frames) /\ Calm(Below) /\ Top \in Frames /\ opened \in Nat /\ opened <= loads
  BY <1>1, TopOfSession
<1>3. g \in Frames /\ Shape(g) /\ ~AtWork(g) /\ ~Awaits(g)
  <2>1. Top.id # 0
    BY <1>2
  <2> QED
    BY <1>2, <2>1, AnotherPlace
<1> HIDE DEF g
<1>4. stack' \in Seq(Frames) /\ Calm(stack')
  BY <1>1, <1>2, <1>3, CalmPush
<1>5. Frames' = Frames
  BY <1>1 DEF Frames
<1>6. {target', unshown'} \subseteq 0..opened' /\ snapshots' \subseteq 1..opened'
  BY <1>1, <1>2 DEF IInv, TypeOK, viewport
<1>7. /\ opened' = opened /\ loads' = loads /\ image' = image /\ session' = session
      /\ UNCHANGED <<prepared, lost, fatal>> /\ session'.id \in snapshots'
  BY <1>1, <1>2 DEF history
<1>8. image \in ImageStates
  BY Bounds DEF IInv
<1> QED
  BY <1>2, <1>4, <1>5, <1>6, <1>7, <1>8, SessionFacts, LoadPreserves

\* An answer of the listing finds nothing else in progress if its session is the current one.
LEMMA SnapshotIsAlone ==
  ASSUME ConstantsAreSound, IInv, NEW id \in 1..opened, SnapshotArrives(id), IsCurrentSession(id)
  PROVE  /\ session # NoSession /\ session.id = id
         /\ stack \in Seq(Frames) /\ Calm(stack) /\ opened \in Nat /\ opened <= loads
         /\ snapshots' \subseteq snapshots
<1>1. session # NoSession /\ session.id = id
  BY DEF IsCurrentSession, NoSession
<1>2. stack = <<>> \/ OfSession(Top)
  BY DEF SnapshotArrives, OfSession
<1>3. stack \in Seq(Frames)
  BY DEF IInv, TypeOK
<1>4. snapshots' \subseteq snapshots
  BY DEF SnapshotArrives
<1> QED
  BY <1>1, <1>2, <1>3, <1>4, LoaderIsAlone, Bounds, Owed DEF IInv

LEMMA FinishCandidatesPreserves ==
  ASSUME ConstantsAreSound, IInv, NEW id \in 1..opened, FinishOpenedCollectionCandidates(id)
  PROVE  IInv'
<1>1. PICK page \in {"page", "clip"} :
        /\ session' = [session EXCEPT !.page = page]
        /\ Apply([image EXCEPT !.source = IF page = "clip" THEN "clip" ELSE session.source])
        /\ stack' = stack \o <<Frame("prepared", <<>>, page, id), Told>>
  BY DEF FinishOpenedCollectionCandidates
<1>2. /\ SnapshotArrives(id) /\ IsCurrentSession(id)
      /\ UNCHANGED <<prepared, viewport, loads, opened, lost>>
  BY DEF FinishOpenedCollectionCandidates
<1>3. /\ session # NoSession /\ session.id = id
      /\ stack \in Seq(Frames) /\ Calm(stack) /\ opened \in Nat /\ opened <= loads
      /\ snapshots' \subseteq snapshots
  BY <1>2, SnapshotIsAlone
<1>4. /\ session \in [id : 0..opened, source : Sources, page : Sources] /\ session.id # 0
      /\ image.status = "loading" /\ image.loading = TRUE /\ image.error = FALSE
  BY <1>3, SessionFacts
<1> DEFINE s == IF page = "clip" THEN "clip" ELSE session.source
           d == [image EXCEPT !.source = s]
<1>5. s \in Sources
  BY <1>4 DEF Sources
<1>6. /\ session'.id = session.id /\ session'.source = session.source /\ session'.page = page
      /\ session' \in [id : 0..opened, source : Sources, page : Sources]
  BY <1>1, <1>4 DEF Sources
<1>7. s \in {session'.source, session'.page}
  BY <1>6
<1>8. image' = d /\ fatal' = (fatal \/ ~FinalStateIsValid(d))
  BY <1>1 DEF Apply
<1>9. image \in ImageStates
  BY Bounds DEF IInv
<1> HIDE DEF s
<1>10. d \in ImageStates /\ d.status = "loading" /\ d.loading = TRUE /\ d.error = FALSE /\ d.source = s
  BY <1>4, <1>5, <1>9 DEF ImageStates
<1> HIDE DEF d
<1>11. FinalStateIsValid(d)
  BY <1>10 DEF FinalStateIsValid
<1>12. fatal' = fatal
  BY <1>8, <1>11 DEF IInv, NeverFatal, TypeOK
<1> DEFINE f == Frame("prepared", <<>>, page, id)
<1>13. opened' = opened /\ Frames' = Frames
  BY <1>2 DEF Frames
<1>14. page \in Sources \cup {None} /\ id \in 1..opened'
  BY <1>13 DEF Sources
<1>15. f \in Frames' /\ Shape(f) /\ ~AtWork(f) /\ ~Awaits(f) /\ f.at = "prepared" /\ f.id = id
  BY <1>3, <1>13, <1>14, LoaderFrame
<1>16. Told \in Frames' /\ Shape(Told) /\ ~AtWork(Told) /\ ~Awaits(Told)
  BY <1>13, ToldIsFrame DEF IInv
<1>17. stack' = stack \o <<f, Told>> /\ stack \in Seq(Frames')
  BY <1>1, <1>3, <1>13
<1> HIDE DEF f
<1>18. stack' \in Seq(Frames') /\ Calm(stack') /\ \E i \in DOMAIN stack' : stack'[i] = f
  BY <1>3, <1>15, <1>16, <1>17, CalmPushTwo
<1>19. \E i \in DOMAIN stack' : stack'[i].at = "prepared" /\ stack'[i].id = session'.id
  BY <1>3, <1>6, <1>15, <1>18
<1>20. {target', unshown'} \subseteq 0..opened' /\ snapshots' \subseteq 1..opened'
  BY <1>2, <1>3 DEF IInv, TypeOK, viewport
<1>21. UNCHANGED <<prepared, lost, fatal>> /\ loads' = loads
  BY <1>2, <1>12
<1>22. /\ opened' \in Nat /\ opened' >= opened /\ opened' <= loads
       /\ image' \in ImageStates /\ image'.status = "loading" /\ image'.loading = TRUE
       /\ image'.error = FALSE /\ image'.source \in {session'.source, session'.page}
       /\ session' \in [id : 0..opened', source : Sources, page : Sources] /\ session'.id # 0
  BY <1>3, <1>4, <1>6, <1>7, <1>8, <1>10, <1>13
<1> QED
  BY <1>18, <1>19, <1>20, <1>21, <1>22, LoadPreserves

LEMMA FailOpenedPreserves ==
  ASSUME ConstantsAreSound, IInv, NEW id \in 1..opened, FailOpenedCollectionLoad(id)
  PROVE  IInv'
<1>1. /\ SnapshotArrives(id) /\ IsCurrentSession(id)
      /\ FinishLoadWithError(session.source, stack)
      /\ UNCHANGED <<prepared, loads, opened, lost>>
  BY DEF FailOpenedCollectionLoad
<1>2. /\ session # NoSession /\ stack \in Seq(Frames) /\ Calm(stack) /\ opened \in Nat
      /\ opened <= loads /\ snapshots' \subseteq snapshots
  BY <1>1, SnapshotIsAlone
<1>3. session.source \in Sources
  BY <1>2, SessionFacts
<1> QED
  BY <1>1, <1>2, <1>3, ErrorPreserves

LEMMA SourcePreparedPreserves ==
  ASSUME ConstantsAreSound, IInv, SourcePrepared
  PROVE  IInv'
<1>1. OfSession(Top) /\ IsCurrentSession(Top.id)
  BY DEF SourcePrepared, OfSession
<1>2. /\ session # NoSession /\ session.id = Top.id /\ Top.id \in 1..opened
      /\ Below \in Seq(Frames) /\ Calm(Below) /\ Top \in Frames /\ opened \in Nat /\ opened <= loads
  BY <1>1, TopOfSession
<1>3. CASE Top.of = "page"
  BY <1>1, <1>2, <1>3, ResolvePreserves DEF SourcePrepared
<1>4. CASE Top.of # "page"
  <2> DEFINE g == [Top EXCEPT !.at = "probing"]
  <2>1. /\ stack' = Below \o <<g, Told>>
        /\ UNCHANGED <<image, loading, viewport, loads, opened, history>>
    BY <1>4 DEF SourcePrepared
  <2>2. g \in Frames /\ Shape(g) /\ ~AtWork(g) /\ ~Awaits(g) /\ g.at = "probing" /\ g.id = Top.id
    <3>1. Top.id # 0
      BY <1>2
    <3> QED
      BY <1>2, <3>1, AnotherPlace
  <2>3. Told \in Frames /\ Shape(Told) /\ ~AtWork(Told) /\ ~Awaits(Told)
    BY ToldIsFrame DEF IInv
  <2> HIDE DEF g
  <2>4. stack' \in Seq(Frames) /\ Calm(stack') /\ \E i \in DOMAIN stack' : stack'[i] = g
    BY <1>2, <2>1, <2>2, <2>3, CalmPushTwo
  <2>5. Frames' = Frames
    BY <2>1 DEF Frames
  <2>6. {target', unshown'} \subseteq 0..opened' /\ snapshots' \subseteq 1..opened'
    BY <2>1 DEF IInv, TypeOK, viewport, loading
  <2>7. /\ opened' = opened /\ loads' = loads /\ image' = image /\ session' = session
        /\ UNCHANGED <<prepared, lost, fatal>>
    BY <2>1 DEF history, loading
  <2>8. \E i \in DOMAIN stack' : stack'[i].at = "probing" /\ stack'[i].id = session'.id
    BY <1>2, <2>2, <2>4, <2>7
  <2>9. image \in ImageStates
    BY Bounds DEF IInv
  <2> QED
    BY <1>2, <2>4, <2>5, <2>6, <2>7, <2>8, <2>9, SessionFacts, LoadPreserves
<1> QED
  BY <1>3, <1>4

LEMMA ReadyIsValid ==
  ASSUME ConstantsAreSound, IInv, NEW s \in Sources, NEW p \in Sources
  PROVE  LET d == [Finished("ready") EXCEPT !.source = s, !.displayed = p,
                                            !.container = Container[p]]
         IN  /\ d \in ImageStates /\ d.status = "ready" /\ d.loading = FALSE
             /\ FinalStateIsValid(d)
<1> DEFINE f == Finished("ready")
           d == [f EXCEPT !.source = s, !.displayed = p, !.container = Container[p]]
<1>1. image \in ImageStates
  BY Bounds DEF IInv
<1>2. f \in ImageStates /\ f.status = "ready" /\ f.loading = FALSE /\ f.error = FALSE
  BY <1>1 DEF Finished, ImageStates
<1>3. Container[p] \in Sources \cup {None}
  BY DEF Container, Sources, None
<1> HIDE DEF f
<1>4. /\ d \in ImageStates /\ d.status = "ready" /\ d.loading = FALSE /\ d.error = FALSE
      /\ d.source = s /\ d.displayed = p /\ d.container = Container[p]
  BY <1>2, <1>3 DEF ImageStates
<1>5. s # None /\ p # None
  BY DEF Sources, None
<1> HIDE DEF d
<1>6. FinalStateIsValid(d)
  BY <1>4, <1>5 DEF FinalStateIsValid
<1> QED
  BY <1>4, <1>6 DEF d, f

LEMMA VideoProbedPreserves ==
  ASSUME ConstantsAreSound, IInv, VideoAvailabilityProbed
  PROVE  IInv'
<1>1. /\ OfSession(Top) /\ IsCurrentSession(Top.id) /\ FinishVideo(session.source, Below)
      /\ UNCHANGED <<prepared, snapshots, loads, opened, lost>>
  BY DEF VideoAvailabilityProbed, OfSession
<1>2. Below \in Seq(Frames) /\ Calm(Below) /\ opened \in Nat /\ opened <= loads
  BY <1>1, TopOfSession
<1>3. "clip" \in Sources /\ Container["clip"] = "book"
  BY DEF Sources, Container, None
<1> DEFINE d == [Finished("ready") EXCEPT !.source = "clip", !.displayed = "clip",
                                          !.container = "book"]
<1>4. d \in ImageStates /\ d.status = "ready" /\ d.loading = FALSE /\ FinalStateIsValid(d)
  BY <1>3, ReadyIsValid
<1>5. /\ image' = d /\ fatal' = (fatal \/ ~FinalStateIsValid(d))
      /\ session' = NoSession /\ target' = 0 /\ unshown' = 0 /\ stack' = Append(Below, Told)
  BY <1>1 DEF FinishVideo, Apply
<1> HIDE DEF d
<1>6. fatal' = fatal
  BY <1>4, <1>5 DEF IInv, NeverFatal, TypeOK
<1>7. /\ opened' \in Nat /\ opened' >= opened /\ opened' <= loads /\ loads' = loads
      /\ {target', unshown'} \subseteq 0..opened' /\ snapshots' \subseteq snapshots
      /\ UNCHANGED <<prepared, lost>>
  BY <1>1, <1>2, <1>5
<1> QED
  BY <1>2, <1>4, <1>5, <1>6, <1>7, EndPreserves

LEMMA ViewportReadyPreserves ==
  ASSUME ConstantsAreSound, IInv, FinishViewportImageLoadReady
  PROVE  IInv'
<1> DEFINE d == [Finished("ready") EXCEPT !.source = session.source, !.displayed = session.page,
                                          !.container = Container[session.page]]
<1>1. /\ stack = <<>> /\ unshown # 0 /\ IsCurrentSession(unshown)
      /\ unshown' = 0 /\ session' = NoSession /\ image' = d
      /\ fatal' = (fatal \/ ~FinalStateIsValid(d)) /\ stack' = <<Told>>
      /\ UNCHANGED <<prepared, snapshots, target, loads, opened, lost>>
  BY DEF FinishViewportImageLoadReady, Projection, Apply
<1>2. session # NoSession
  BY <1>1 DEF IsCurrentSession, NoSession
<1>3. session.source \in Sources /\ session.page \in Sources
  BY <1>2, SessionFacts
<1>4. d \in ImageStates /\ d.status = "ready" /\ d.loading = FALSE /\ FinalStateIsValid(d)
  BY <1>3, ReadyIsValid
<1> HIDE DEF d
<1>5. fatal' = fatal
  BY <1>1, <1>4 DEF IInv, NeverFatal, TypeOK
<1>6. stack \in Seq(Frames) /\ Calm(stack)
  BY <1>1 DEF IInv, TypeOK, Calm
<1>7. stack' = Append(stack, Told)
  BY <1>1
<1>8. opened \in Nat /\ opened <= loads /\ {target', unshown'} \subseteq 0..opened'
  BY <1>1, Bounds, Owed DEF IInv, TypeOK
<1>9. /\ opened' \in Nat /\ opened' >= opened /\ opened' <= loads /\ loads' = loads
      /\ snapshots' \subseteq snapshots /\ UNCHANGED <<prepared, lost>>
  BY <1>1, <1>8
<1> QED
  BY <1>1, <1>4, <1>5, <1>6, <1>7, <1>8, <1>9, EndPreserves

LEMMA ViewportErrorPreserves ==
  ASSUME ConstantsAreSound, IInv, FinishViewportImageLoadWithError
  PROVE  IInv'
<1>1. /\ stack = <<>> /\ unshown # 0 /\ IsCurrentSession(unshown)
      /\ FinishLoadWithError(session.source, stack)
      /\ UNCHANGED <<prepared, snapshots, loads, opened, lost>>
  BY DEF FinishViewportImageLoadWithError, Projection
<1>2. session # NoSession
  BY <1>1 DEF IsCurrentSession, NoSession
<1>3. stack \in Seq(Frames) /\ Calm(stack)
  BY <1>1 DEF IInv, TypeOK, Calm
<1>4. opened \in Nat /\ opened <= loads
  BY Bounds, Owed DEF IInv
<1>5. /\ opened' \in Nat /\ opened' >= opened /\ opened' <= loads
      /\ snapshots' \subseteq snapshots /\ UNCHANGED <<prepared, loads, lost>>
  BY <1>1, <1>4
<1>6. session.source \in Sources
  BY <1>2, SessionFacts
<1> QED
  BY <1>1, <1>3, <1>5, <1>6, ErrorPreserves

-----------------------------------------------------------------------------
(* Calls that return, and calls of the owners. *)

LEMMA PopPreserves ==
  ASSUME ConstantsAreSound, IInv, stack # <<>>, stack' = Below, ~AtWork(Top),
         ~(Awaits(Top) /\ Top.of # None),
         UNCHANGED <<image, prepared, session, snapshots, loads, opened, fatal>>,
         {target', unshown'} \subseteq 0..opened, lost' \in BOOLEAN, ~lost' => ~lost,
         ~lost' /\ session # NoSession =>
           /\ ~(Top.at \in {"started", "prepared", "probing"} /\ Top.id = session.id)
           /\ unshown = session.id /\ target = session.id =>
                unshown' = session.id /\ target' = session.id
  PROVE  IInv'
<1>1. /\ stack \in Seq(Frames) /\ DOMAIN stack = 1..Len(stack) /\ Len(stack) \in Nat \ {0}
      /\ Top = stack[Len(stack)]
  BY StackFacts DEF IInv
<1>2. /\ stack' \in Seq(Frames) /\ DOMAIN stack' = 1..(Len(stack) - 1)
      /\ \A i \in 1..(Len(stack) - 1) : stack'[i] = stack[i]
  BY <1>1, BelowFacts
<1>3. Frames' = Frames
  BY DEF Frames
<1>4. \A i \in DOMAIN stack' : i \in DOMAIN stack /\ stack'[i] = stack[i]
  BY <1>1, <1>2
<1>5. \A i \in DOMAIN stack : i = Len(stack) \/ (i \in DOMAIN stack' /\ stack'[i] = stack[i])
  BY <1>1, <1>2
<1>6. TypeOK'
  BY <1>2, <1>3 DEF IInv, TypeOK
<1>7. Shapes'
  BY <1>4 DEF IInv, Shapes
<1>8. PlanInOrder'
  <2> SUFFICES ASSUME NEW i \in DOMAIN stack', AtWork(stack'[i])
               PROVE  /\ \A j \in DOMAIN stack' : j > i => stack'[j].at \in {"told", "clearTarget"}
                      /\ stack'[i].ops \in Unprepared \cup Prepared \cup Reports => session' = NoSession
                      /\ stack'[i].ops \in Unprepared \cup Prepared =>
                           \A j \in DOMAIN stack' : ~Awaits(stack'[j])
                      /\ stack'[i].ops \in Prepared => prepared' = stack'[i].of
                      /\ stack'[i].ops = <<"beginOpen">> => image'.source = stack'[i].of
                      /\ stack'[i].ops \in Keeps => stack'[i].of # None /\ image'.source = stack'[i].of
                      /\ stack'[i].ops \in Clears => i = 1 /\ image'.status # "loading"
    BY DEF PlanInOrder
  <2>1. i \in DOMAIN stack /\ stack'[i] = stack[i]
    BY <1>4
  <2> QED
    BY <1>4, <2>1 DEF IInv, PlanInOrder
<1>9. OpenIsReported'
  BY <1>4 DEF IInv, OpenIsReported
<1>10. WillBegin => WillBegin'
  BY <1>1, <1>5 DEF WillBegin
<1>11. WillStart => WillStart'
  BY <1>1, <1>5 DEF WillStart
<1>12. SomebodyLoads'
  <2> SUFFICES ASSUME ~lost'
               PROVE  /\ image.status = "loading" /\ session = NoSession => WillBegin' \/ WillStart'
                      /\ session # NoSession =>
                           \/ session.id \in snapshots
                           \/ unshown' = session.id /\ target' = session.id
                           \/ \E i \in DOMAIN stack' :
                                /\ stack'[i].at \in {"started", "prepared", "probing"}
                                /\ stack'[i].id = session.id
    BY DEF SomebodyLoads
  <2>1. image.status = "loading" /\ session = NoSession => WillBegin' \/ WillStart'
    BY <1>10, <1>11 DEF IInv, SomebodyLoads
  <2>2. ASSUME session # NoSession
        PROVE  \/ session.id \in snapshots
               \/ unshown' = session.id /\ target' = session.id
               \/ \E i \in DOMAIN stack' : /\ stack'[i].at \in {"started", "prepared", "probing"}
                                           /\ stack'[i].id = session.id
    BY <1>1, <1>5, <2>2 DEF IInv, SomebodyLoads
  <2> QED
    BY <2>1, <2>2
<1>13. Budget'
  <2>1. WillBegin' => WillBegin
    BY <1>4 DEF WillBegin
  <2>2. WillStart' => WillStart
    BY <1>4 DEF WillStart
  <2> QED
    BY <2>1, <2>2 DEF IInv, Budget
<1>14. StatusAgrees' /\ SessionLoads' /\ NeverFatal'
  BY DEF IInv, StatusAgrees, SessionLoads, NeverFatal
<1> QED
  BY <1>6, <1>7, <1>8, <1>9, <1>12, <1>13, <1>14 DEF IInv

LEMMA ReturnsPreserve ==
  ASSUME ConstantsAreSound, IInv,
         \/ CallOutReturns \/ DispatchEnds \/ TargetCleared
         \/ NothingToStart \/ AskReturns \/ SessionSuperseded
  PROVE  IInv'
<1>1. stack' = Below /\ UNCHANGED <<image, prepared, session, snapshots, loads, opened, fatal>>
  BY DEF CallOutReturns, DispatchEnds, TargetCleared, NothingToStart, AskReturns,
         SessionSuperseded, loading, history
<1>2. stack # <<>>
  <2>1. TypeOK
    BY DEF IInv
  <2> QED
    BY <2>1, StackFacts DEF CallOutReturns, DispatchEnds, TargetCleared, NothingToStart, AskReturns,
                            SessionSuperseded
<1>3. Top \in Frames /\ opened \in Nat /\ {target, unshown} \subseteq 0..opened
  BY <1>2, StackFacts, Bounds DEF IInv, TypeOK
<1>4. ~AtWork(Top)
  BY DEF CallOutReturns, DispatchEnds, TargetCleared, NothingToStart, AskReturns,
         SessionSuperseded, AtWork
<1>5. ~(Awaits(Top) /\ Top.of # None)
  BY DEF CallOutReturns, DispatchEnds, TargetCleared, NothingToStart, AskReturns,
         SessionSuperseded, Awaits, OperationIsCurrent
<1>6. ~(Top.at \in {"started", "prepared", "probing"} /\ Top.id = session.id)
  BY DEF CallOutReturns, DispatchEnds, TargetCleared, NothingToStart, AskReturns,
         SessionSuperseded, IsCurrentSession
<1>7. /\ {target', unshown'} \subseteq 0..opened /\ lost' \in BOOLEAN /\ (~lost' => ~lost)
      /\ ~lost' /\ session # NoSession /\ unshown = session.id /\ target = session.id =>
           unshown' = session.id /\ target' = session.id
  <2>1. CASE UNCHANGED <<viewport, lost>>
    BY <1>3, <2>1 DEF viewport, IInv, TypeOK
  <2>2. CASE TargetCleared
    <3>1. target' = 0 /\ unshown' = 0
          /\ lost' = (lost \/ (session # NoSession /\ session.id = target))
      BY <2>2 DEF TargetCleared, ClearViewportTarget
    <3>2. lost \in BOOLEAN /\ 0 \in 0..opened
      BY <1>3 DEF IInv, TypeOK
    <3> QED
      BY <3>1, <3>2
  <2> QED
    BY <2>1, <2>2 DEF CallOutReturns, DispatchEnds, NothingToStart, AskReturns, SessionSuperseded,
                      history
<1> QED
  BY <1>1, <1>2, <1>4, <1>5, <1>6, <1>7, PopPreserves

LEMMA IgnoreSnapshotPreserves ==
  ASSUME ConstantsAreSound, IInv, NEW id \in 1..opened, IgnoreSnapshot(id)
  PROVE  IInv'
<1>1. /\ snapshots' = snapshots \ {id} /\ session.id # id
      /\ UNCHANGED <<image, prepared, session, target, unshown, loads, opened, fatal, lost, stack>>
  BY DEF IgnoreSnapshot, SnapshotArrives, IsCurrentSession, viewport, history
<1>2. Frames' = Frames
  BY <1>1 DEF Frames
<1>3. TypeOK'
  BY <1>1, <1>2 DEF IInv, TypeOK
<1>4. Shapes' /\ PlanInOrder' /\ OpenIsReported'
  BY <1>1 DEF IInv, Shapes, PlanInOrder, OpenIsReported
<1>5. WillBegin' = WillBegin /\ WillStart' = WillStart
  BY <1>1 DEF WillBegin, WillStart
<1>6. SomebodyLoads'
  BY <1>1, <1>5 DEF IInv, SomebodyLoads
<1>7. StatusAgrees' /\ SessionLoads' /\ NeverFatal' /\ Budget'
  BY <1>1, <1>5 DEF IInv, StatusAgrees, SessionLoads, NeverFatal, Budget
<1> QED
  BY <1>3, <1>4, <1>6, <1>7 DEF IInv

\* The frames of a plan and of a reported change.
LEMMA PlanFrame ==
  ASSUME ConstantsAreSound, TypeOK, NEW a \in {"plan", "applied", "reported", "clearTarget"},
         NEW o \in Seq(Ops), NEW s \in Sources \cup {None}
  PROVE  Frame(a, o, s, 0) \in Frames
<1>1. 0 \in 0..opened
  BY Bounds
<1>2. [at |-> a, ops |-> o, of |-> s, id |-> 0, current |-> TRUE] \in Frames
  BY <1>1 DEF Frames
<1> QED
  BY <1>2 DEF Frame

LEMMA LoadSourcePreserves ==
  ASSUME ConstantsAreSound, IInv, NEW s \in Requests, LoadSource(s)
  PROVE  IInv'
<1> DEFINE b == Superseded(stack, {"plan"})
           f == Frame("plan", SourceLoadPlan(s), s, 0)
           n == Len(stack)
<1>1. /\ loads < MaxLoads /\ loads' = loads + 1 /\ stack' = Append(b, f)
      /\ lost' = (lost \/ CutOff(s))
      /\ UNCHANGED <<image, prepared, session, snapshots, target, unshown, opened, fatal>>
  BY DEF LoadSource, Replace, loading, viewport
<1>2. s \in Sources \cup {None}
  BY DEF ConstantsAreSound
<1>3. stack \in Seq(Frames) /\ n \in Nat /\ DOMAIN stack = 1..n
  BY StackFacts DEF IInv
<1>4. SourceLoadPlan(s) \in WholeOpen \cup Keeps /\ SourceLoadPlan(s) \in Seq(Ops)
      /\ (SourceLoadPlan(s) \in Keeps => CurrentSource(s) /\ s # None)
  BY PlansBegin, PlansDiffer, PlansAreTyped DEF Opens
<1>5. /\ f \in Frames /\ f.at = "plan" /\ f.ops = SourceLoadPlan(s) /\ f.of = s /\ f.current = TRUE
  <2> DEFINE o == SourceLoadPlan(s)
  <2>1. o \in Seq(Ops) /\ TypeOK
    BY <1>4 DEF IInv
  <2> HIDE DEF o
  <2>2. Frame("plan", o, s, 0) \in Frames
    BY <1>2, <2>1, PlanFrame
  <2>3. f.at = "plan" /\ f.ops = o /\ f.of = s /\ f.current = TRUE
    BY DEF Frame, o
  <2> QED
    BY <2>2, <2>3 DEF o
<1>6. /\ b \in Seq(Frames) /\ Len(b) = n
      /\ \A i \in 1..n :
           /\ stack[i].at # "plan" => b[i] = stack[i]
           /\ Same(b[i], stack[i])
           /\ b[i].current => stack[i].current /\ stack[i].at # "plan"
  <2> DEFINE K == {"plan"}
  <2>1. \A a : a \in K <=> a = "plan"
    OBVIOUS
  <2> HIDE DEF K
  <2>2. b = Superseded(stack, K)
    BY DEF K
  <2>3. b \in Seq(Frames) /\ Len(b) = n
    BY <1>3, <2>2, SupersededFacts
  <2>4. ASSUME NEW i \in 1..n
        PROVE  /\ stack[i].at \notin K => b[i] = stack[i]
               /\ Same(b[i], stack[i])
               /\ b[i].current => stack[i].current /\ stack[i].at \notin K
    <3> HIDE DEF b
    <3> QED
      BY <1>3, <2>2, SupersededFacts
  <2> HIDE DEF b
  <2> QED
    BY <2>1, <2>3, <2>4
<1> HIDE DEF b, f, n
<1>7. /\ stack' \in Seq(Frames) /\ DOMAIN stack' = 1..(n + 1) /\ stack'[n + 1] = f
      /\ \A i \in 1..n : stack'[i] = b[i]
  BY <1>1, <1>5, <1>6, PushFacts
<1>8. \A i \in DOMAIN stack' : i = n + 1 \/ i \in 1..n
  BY <1>3, <1>7
<1>9. \A i \in 1..n : ~AtWork(stack'[i]) /\ (Awaits(stack'[i]) <=> Awaits(stack[i]))
                      /\ stack'[i].of = stack[i].of
  BY <1>6, <1>7 DEF AtWork, Awaits, Same
<1>10. ~Awaits(stack'[n + 1])
  BY <1>5, <1>7 DEF Awaits
<1>11. opened \in Nat /\ loads \in Nat /\ MaxLoads \in Nat
  BY Bounds DEF IInv
<1>12. TypeOK'
  <2>1. Frames' = Frames
    BY <1>1 DEF Frames
  <2>2. loads' \in 0..MaxLoads
    BY <1>1, <1>11
  <2>3. lost' \in BOOLEAN
    BY <1>1 DEF IInv, TypeOK
  <2> QED
    BY <1>1, <1>7, <2>1, <2>2, <2>3 DEF IInv, TypeOK
<1>13. Shapes'
  <2>1. ASSUME NEW i \in 1..n PROVE Shape(stack'[i])
    BY <1>3, <1>6, <1>7 DEF IInv, Shapes, Shape, OfSession, Same
  <2>2. Shape(stack'[n + 1])
    BY <1>4, <1>5, <1>7 DEF Shape, OfSession, Opens
  <2> QED
    BY <1>8, <2>1, <2>2 DEF Shapes
<1>14. PlanInOrder'
  <2>1. ASSUME NEW i \in DOMAIN stack', AtWork(stack'[i])
        PROVE  i = n + 1 /\ stack'[i] = f /\ \A j \in DOMAIN stack' : ~(j > i)
    BY <1>3, <1>7, <1>8, <1>9, <2>1
  <2>2. f.ops \notin Unprepared \cup Prepared \cup Reports \cup Clears /\ f.ops # <<"beginOpen">>
    BY <1>4, <1>5, PlansDiffer DEF Opens, Prepared
  <2>3. f.ops \in Keeps => f.of # None /\ image'.source = f.of
    BY <1>1, <1>4, <1>5 DEF CurrentSource
  <2> QED
    BY <2>1, <2>2, <2>3 DEF PlanInOrder
<1>15. OpenIsReported'
  BY <1>1, <1>3, <1>8, <1>9, <1>10 DEF IInv, OpenIsReported
<1>16. WillStart' = WillStart
  <2>1. WillStart => WillStart'
    BY <1>3, <1>7, <1>9 DEF WillStart
  <2>2. WillStart' => WillStart
    BY <1>3, <1>7, <1>8, <1>9, <1>10 DEF WillStart
  <2> QED
    BY <2>1, <2>2 DEF WillStart
<1>17. SomebodyLoads'
  <2>1. ASSUME ~lost', image.status = "loading", session = NoSession
        PROVE  WillBegin' \/ WillStart'
    <3>1. ~lost /\ ~CutOff(s)
      BY <1>1, <2>1
    <3>2. WillBegin \/ WillStart
      BY <2>1, <3>1 DEF IInv, SomebodyLoads
    <3>3. CASE WillStart
      BY <1>16, <3>3
    <3>4. CASE WillBegin
      <4>1. PICK i \in DOMAIN stack : AtWork(stack[i]) /\ stack[i].ops \in Opens
        BY <3>4 DEF WillBegin
      <4>2. "beginOpen" \in {stack[i].ops[j] : j \in DOMAIN stack[i].ops}
        BY <4>1, OpensGoOn
      <4>3. image.loading
        BY <2>1 DEF IInv, StatusAgrees
      <4>4. ~CurrentSource(s)
        BY <2>1, <3>1, <4>1, <4>2, <4>3 DEF CutOff, AtWork
      <4>5. f.ops \in Opens /\ f.ops # <<>>
        BY <1>4, <1>5, <4>4, PlansDiffer DEF Opens
      <4>6. n + 1 \in DOMAIN stack' /\ AtWork(stack'[n + 1])
        BY <1>3, <1>5, <1>7, <4>5 DEF AtWork
      <4> QED
        BY <1>7, <4>5, <4>6 DEF WillBegin
    <3> QED
      BY <3>2, <3>3, <3>4
  <2>2. ASSUME ~lost', session # NoSession
        PROVE  \/ session.id \in snapshots
               \/ unshown = session.id /\ target = session.id
               \/ \E i \in DOMAIN stack' : /\ stack'[i].at \in {"started", "prepared", "probing"}
                                           /\ stack'[i].id = session.id
    <3>1. ~lost
      BY <1>1, <2>2
    <3>2. \A i \in DOMAIN stack : i \in DOMAIN stack' /\ stack'[i].at = stack[i].at
                                  /\ stack'[i].id = stack[i].id
      BY <1>3, <1>6, <1>7 DEF Same
    <3> QED
      BY <2>2, <3>1, <3>2 DEF IInv, SomebodyLoads
  <2> QED
    BY <1>1, <2>1, <2>2 DEF SomebodyLoads
<1>18. Budget'
  BY <1>1, <1>11, Owed DEF Budget
<1>19. StatusAgrees' /\ SessionLoads' /\ NeverFatal'
  BY <1>1 DEF IInv, StatusAgrees, SessionLoads, NeverFatal
<1> QED
  BY <1>12, <1>13, <1>14, <1>15, <1>17, <1>18, <1>19 DEF IInv

LEMMA ClearDeletedPreserves ==
  ASSUME ConstantsAreSound, IInv, ClearDeletedImage
  PROVE  IInv'
<1> DEFINE f == Frame("plan", ClearDeletedImagePlan, None, 0)
<1>1. /\ loads < MaxLoads /\ loads' = loads + 1 /\ stack = <<>> /\ image.status = "ready"
      /\ stack' = Append(stack, f)
      /\ UNCHANGED <<image, prepared, session, snapshots, target, unshown, opened, fatal, lost>>
  BY DEF ClearDeletedImage, Replace, FromEventLoop, loading, viewport, history
<1>2. ClearDeletedImagePlan \in Clears /\ ClearDeletedImagePlan \in Seq(Ops)
  BY PlansBegin, PlansAreTyped
<1>3. f \in Frames /\ f.at = "plan" /\ f.ops \in Clears
  <2>1. TypeOK /\ None \in Sources \cup {None}
    BY DEF IInv
  <2> DEFINE o == ClearDeletedImagePlan
  <2>2. o \in Clears /\ o \in Seq(Ops)
    BY <1>2
  <2> HIDE DEF o
  <2>3. Frame("plan", o, None, 0) \in Frames
    BY <2>1, <2>2, PlanFrame
  <2>4. f.at = "plan" /\ f.ops = o
    BY DEF Frame, o
  <2> QED
    BY <2>2, <2>3, <2>4 DEF o
<1> HIDE DEF f
<1>4. stack' \in Seq(Frames) /\ DOMAIN stack' = {1} /\ stack'[1] = f
  <2>1. stack \in Seq(Frames) /\ Len(stack) = 0
    BY <1>1 DEF IInv, TypeOK
  <2>2. /\ stack' \in Seq(Frames) /\ DOMAIN stack' = 1..(Len(stack) + 1)
        /\ stack'[Len(stack) + 1] = f
    BY <1>1, <1>3, <2>1, PushFacts
  <2> QED
    BY <2>1, <2>2
<1>5. opened \in Nat /\ loads \in Nat /\ MaxLoads \in Nat
  BY Bounds DEF IInv
<1>6. TypeOK'
  <2>1. Frames' = Frames
    BY <1>1 DEF Frames
  <2>2. loads' \in 0..MaxLoads
    BY <1>1, <1>5
  <2> QED
    BY <1>1, <1>4, <2>1, <2>2 DEF IInv, TypeOK
<1>7. Shapes'
  BY <1>3, <1>4 DEF Shapes, Shape, OfSession
<1>8. PlanInOrder'
  <2>1. f.ops \notin Unprepared \cup Prepared \cup Reports \cup Keeps /\ f.ops # <<"beginOpen">>
    BY <1>3, PlansDiffer DEF Opens, Prepared
  <2> QED
    BY <1>1, <1>4, <2>1 DEF PlanInOrder
<1>9. OpenIsReported'
  BY <1>3, <1>4 DEF OpenIsReported, Awaits
<1>10. session = NoSession
  BY <1>1 DEF IInv, SessionLoads
<1>11. SomebodyLoads'
  BY <1>1, <1>10 DEF SomebodyLoads
<1>12. Budget'
  BY <1>1, <1>5, Owed DEF Budget
<1>13. StatusAgrees' /\ SessionLoads' /\ NeverFatal'
  BY <1>1 DEF IInv, StatusAgrees, SessionLoads, NeverFatal
<1> QED
  BY <1>6, <1>7, <1>8, <1>9, <1>11, <1>12, <1>13 DEF IInv

-----------------------------------------------------------------------------
(* The operations of a plan that only change the document. *)

LEMMA TopPlan ==
  ASSUME ConstantsAreSound, IInv, AtWork(Top)
  PROVE  /\ stack # <<>> /\ stack \in Seq(Frames) /\ DOMAIN stack = 1..Len(stack)
         /\ Len(stack) \in Nat \ {0} /\ Top = stack[Len(stack)] /\ Top \in Frames
         /\ Top.ops \in Opens \cup Keeps \cup Clears \cup Reports
         /\ \A i \in 1..(Len(stack) - 1) : ~AtWork(stack[i])
         /\ Top.ops \in Unprepared \cup Prepared \cup Reports => session = NoSession
         /\ Top.ops \in Unprepared \cup Prepared => \A j \in DOMAIN stack : ~Awaits(stack[j])
         /\ Top.ops \in Prepared => prepared = Top.of
         /\ Top.ops = <<"beginOpen">> => image.source = Top.of
         /\ Top.ops \in Keeps => Top.of # None /\ image.source = Top.of
         /\ Top.ops \in Clears => Len(stack) = 1 /\ image.status # "loading"
<1>1. /\ stack # <<>> /\ stack \in Seq(Frames) /\ DOMAIN stack = 1..Len(stack)
      /\ Len(stack) \in DOMAIN stack /\ Top = stack[Len(stack)] /\ Top \in Frames
  BY StackFacts DEF IInv, AtWork
<1>2. Len(stack) \in Nat \ {0}
  BY <1>1
<1>3. Top.ops \in Opens \cup Keeps \cup Clears \cup Reports
  BY <1>1 DEF IInv, Shapes, Shape, AtWork
<1>4. ASSUME NEW i \in 1..(Len(stack) - 1) PROVE ~AtWork(stack[i])
  <2>1. i \in DOMAIN stack /\ Len(stack) > i
    BY <1>1, <1>2
  <2>2. AtWork(stack[i]) => stack[Len(stack)].at \in {"told", "clearTarget"}
    BY <1>1, <2>1 DEF IInv, PlanInOrder
  <2> QED
    BY <1>1, <2>2 DEF AtWork
<1>5. /\ Top.ops \in Unprepared \cup Prepared \cup Reports => session = NoSession
      /\ Top.ops \in Unprepared \cup Prepared => \A j \in DOMAIN stack : ~Awaits(stack[j])
      /\ Top.ops \in Prepared => prepared = Top.of
      /\ Top.ops = <<"beginOpen">> => image.source = Top.of
      /\ Top.ops \in Keeps => Top.of # None /\ image.source = Top.of
      /\ Top.ops \in Clears => Len(stack) = 1 /\ image.status # "loading"
  BY <1>1 DEF IInv, PlanInOrder
<1> QED
  BY <1>1, <1>2, <1>3, <1>4, <1>5

\* What PlanInOrder asks of the rest of the plan after the step.
GoesOn(o) ==
  /\ o \in Opens \cup Keeps \cup Clears \cup Reports \cup {<<>>}
  /\ o \in Unprepared \cup Prepared \cup Reports => session = NoSession
  /\ o \in Unprepared \cup Prepared => \A j \in DOMAIN stack : ~Awaits(stack[j])
  /\ o \in Prepared => prepared' = Top.of
  /\ o = <<"beginOpen">> => image'.source = Top.of
  /\ o \in Keeps => Top.of # None /\ image'.source = Top.of
  /\ o \in Clears => Len(stack) = 1 /\ image.status # "loading"
  /\ Top.ops \in Opens => o \in Opens

LEMMA OtherOperationGoesOn ==
  ASSUME ConstantsAreSound, IInv, AtWork(Top), prepared' = prepared, image'.source = image.source,
         Head(Top.ops) \in {"callOut", "clearLoadingContainer", "setLoadingContainer",
                            "setContainer", "clearError", "clearImage"}
  PROVE  GoesOn(Tail(Top.ops))
<1> DEFINE o == Top.ops
           t == Tail(Top.ops)
<1>1. CASE o \in Opens
  <2>1. o \in Unprepared /\ t \in Unprepared
    BY <1>1, OpensGoOn
  <2>2. t \in Opens /\ t \notin Keeps \cup Clears \cup Reports \cup Prepared /\ t # <<"beginOpen">>
    BY <2>1, PlansDiffer DEF Opens, Prepared
  <2> HIDE DEF t
  <2> QED
    BY <2>1, <2>2, TopPlan DEF GoesOn, t
<1>2. CASE o \in Keeps
  <2>1. t \in Keeps \cup {<<>>}
    BY <1>2, KeepsGoOn
  <2>2. t \notin Opens \cup Clears \cup Reports /\ t # <<"beginOpen">> /\ o \notin Opens
    BY <1>2, <2>1, PlansDiffer DEF Opens, Prepared
  <2>3. Top.of # None /\ image.source = Top.of
    BY <1>2, TopPlan
  <2> HIDE DEF t, o
  <2> QED
    BY <2>1, <2>2, <2>3 DEF GoesOn, Opens, t, o
<1>3. CASE o \in Clears
  <2>1. t \in Clears \cup {<<>>}
    BY <1>3, ClearsGoOn
  <2>2. t \notin Opens \cup Keeps \cup Reports /\ t # <<"beginOpen">> /\ o \notin Opens
    BY <1>3, <2>1, PlansDiffer DEF Opens, Prepared
  <2>3. Len(stack) = 1 /\ image.status # "loading"
    BY <1>3, TopPlan
  <2> HIDE DEF t, o
  <2> QED
    BY <2>1, <2>2, <2>3 DEF GoesOn, Opens, t, o
<1>4. CASE o \in Reports
  <2>1. t \in Reports \cup {<<>>}
    BY <1>4, ReportsGoOn
  <2>2. t \notin Opens \cup Keeps \cup Clears /\ t # <<"beginOpen">> /\ o \notin Opens
    BY <1>4, <2>1, PlansDiffer DEF Opens, Prepared
  <2>3. session = NoSession
    BY <1>4, TopPlan
  <2> HIDE DEF t, o
  <2> QED
    BY <2>1, <2>2, <2>3 DEF GoesOn, Opens, t, o
<1> QED
  BY <1>1, <1>2, <1>3, <1>4, TopPlan

\* The selection changes only when no open is in progress.
LEMMA SelectGoesOn ==
  ASSUME ConstantsAreSound, IInv, AtWork(Top), prepared' = prepared, image'.source = Top.of,
         Head(Top.ops) = "select"
  PROVE  /\ GoesOn(Tail(Top.ops))
         /\ \/ image'.source = image.source
            \/ session = NoSession /\ \A i \in DOMAIN stack : ~Awaits(stack[i])
<1> DEFINE o == Top.ops
           t == Tail(Top.ops)
<1>1. CASE o \in Opens
  <2>1. o = <<"select", "beginOpen">> /\ t = <<"beginOpen">>
    BY <1>1, OpensGoOn
  <2>2. o \in Prepared /\ t \in Prepared /\ t \in Opens
    BY <2>1 DEF Prepared, Opens
  <2>3. t \notin Keeps \cup Clears \cup Reports
    BY <2>2, PlansDiffer
  <2>4. prepared = Top.of /\ session = NoSession /\ \A j \in DOMAIN stack : ~Awaits(stack[j])
    BY <2>2, TopPlan
  <2> HIDE DEF t
  <2> QED
    BY <2>2, <2>3, <2>4 DEF GoesOn, t
<1>2. CASE o \in Keeps
  <2>1. t \in Keeps \cup {<<>>}
    BY <1>2, KeepsGoOn
  <2>2. t \notin Opens \cup Clears \cup Reports /\ t # <<"beginOpen">> /\ o \notin Opens
    BY <1>2, <2>1, PlansDiffer DEF Opens, Prepared
  <2>3. Top.of # None /\ image.source = Top.of
    BY <1>2, TopPlan
  <2> HIDE DEF t, o
  <2> QED
    BY <2>1, <2>2, <2>3 DEF GoesOn, Opens, t, o
<1>3. CASE o \in Clears
  <2>1. t \in Clears \cup {<<>>}
    BY <1>3, ClearsGoOn
  <2>2. t \notin Opens \cup Keeps \cup Reports /\ t # <<"beginOpen">> /\ o \notin Opens
    BY <1>3, <2>1, PlansDiffer DEF Opens, Prepared
  <2>3. Len(stack) = 1 /\ image.status # "loading"
    BY <1>3, TopPlan
  <2>4. session = NoSession
    BY <2>3 DEF IInv, SessionLoads
  <2>5. \A i \in DOMAIN stack : ~Awaits(stack[i])
    <3>1. DOMAIN stack = {1} /\ stack[1] = Top
      BY <2>3, TopPlan
    <3> QED
      BY <3>1 DEF AtWork, Awaits
  <2> HIDE DEF t, o
  <2> QED
    BY <2>1, <2>2, <2>3, <2>4, <2>5 DEF GoesOn, Opens, t, o
<1>4. CASE o \in Reports
  BY <1>4, ReportsGoOn
<1> QED
  BY <1>1, <1>2, <1>3, <1>4, TopPlan

LEMMA PrepareGoesOn ==
  ASSUME ConstantsAreSound, IInv, AtWork(Top), prepared' = Top.of, image' = image,
         Head(Top.ops) = "prepare"
  PROVE  GoesOn(Tail(Top.ops))
<1> DEFINE o == Top.ops
           t == Tail(Top.ops)
<1>1. o \in Opens
  BY TopPlan, KeepsGoOn, ClearsGoOn, ReportsGoOn
<1>2. o \in Unprepared /\ t = <<"select", "beginOpen">>
  BY <1>1, OpensGoOn
<1>3. t \in Prepared /\ t \in Opens /\ t # <<"beginOpen">>
  BY <1>2 DEF Prepared, Opens
<1>4. t \notin Keeps \cup Clears \cup Reports
  BY <1>3, PlansDiffer
<1>5. session = NoSession /\ \A j \in DOMAIN stack : ~Awaits(stack[j])
  BY <1>2, TopPlan
<1> HIDE DEF t, o
<1> QED
  BY <1>3, <1>4, <1>5 DEF GoesOn, t

\* The plan has lost its operation, and above it there is nothing new but calls that tell.
Advanced ==
  /\ stack' \in Seq(Frames) /\ Len(stack') >= Len(stack)
  /\ \A i \in 1..(Len(stack) - 1) : stack'[i] = stack[i]
  /\ stack'[Len(stack)].at = "plan" /\ stack'[Len(stack)].ops = Tail(Top.ops)
  /\ stack'[Len(stack)].of = Top.of /\ stack'[Len(stack)].current = TRUE
  /\ \A i \in DOMAIN stack' : i > Len(stack) => stack'[i].at \in {"told", "clearTarget"}

LEMMA Advances ==
  ASSUME ConstantsAreSound, IInv, AtWork(Top),
         \/ stack' = Rest \/ stack' = Append(Rest, Told)
         \/ stack' = Rest \o <<Frame("clearTarget", <<>>, None, 0), Told>>
  PROVE  Advanced
<1> DEFINE n == Len(stack)
           c == Frame("clearTarget", <<>>, None, 0)
           r == Rest
<1>1. /\ Rest \in Seq(Frames) /\ Len(Rest) = Len(stack) /\ Len(stack) \in Nat \ {0}
      /\ DOMAIN Rest = DOMAIN stack /\ DOMAIN stack = 1..Len(stack)
      /\ \A i \in 1..(Len(stack) - 1) : Rest[i] = stack[i]
      /\ Rest[Len(stack)].at = "plan" /\ Rest[Len(stack)].ops = Tail(Top.ops)
      /\ Rest[Len(stack)].of = Top.of /\ Rest[Len(stack)].current = TRUE
  <2>1. TypeOK /\ Shapes /\ Top.at = "plan" /\ Top.ops # <<>> /\ Top.current
    BY DEF IInv, AtWork
  <2>2. Top.current \in BOOLEAN
    BY TopPlan DEF Frames
  <2> QED
    BY <2>1, <2>2, RestFacts
<1>2. Told \in Frames /\ Told.at = "told"
  BY ToldIsFrame DEF IInv
<1>3. c \in Frames /\ c.at = "clearTarget"
  <2>1. TypeOK /\ <<>> \in Seq(Ops) /\ None \in Sources \cup {None}
    BY PlansAreTyped DEF IInv
  <2>2. c \in Frames
    BY <2>1, PlanFrame
  <2>3. c.at = "clearTarget"
    BY DEF Frame
  <2> QED
    BY <2>2, <2>3
<1> HIDE DEF c, r, n
<1>4. CASE stack' = Rest
  BY <1>1, <1>4 DEF Advanced
<1>5. CASE stack' = Append(Rest, Told)
  <2>1. /\ r \in Seq(Frames) /\ Len(r) = n /\ n \in Nat \ {0} /\ stack' = Append(r, Told)
    BY <1>1, <1>5 DEF r, n
  <2>2. /\ stack' \in Seq(Frames) /\ Len(stack') = n + 1 /\ DOMAIN stack' = 1..(n + 1)
        /\ \A i \in 1..n : stack'[i] = r[i]
        /\ stack'[n + 1] = Told
    BY <1>2, <2>1, PushFacts
  <2>3. \A i \in 1..(n - 1) : stack'[i] = stack[i]
    BY <1>1, <2>1, <2>2 DEF r, n
  <2>4. stack'[n] = r[n]
    BY <2>1, <2>2
  <2>5. \A i \in DOMAIN stack' : i > n => stack'[i].at \in {"told", "clearTarget"}
    BY <1>2, <2>1, <2>2
  <2>6. Len(stack') >= n
    BY <2>1, <2>2
  <2> QED
    BY <1>1, <2>2, <2>3, <2>4, <2>5, <2>6 DEF Advanced, r, n
<1>6. CASE stack' = Rest \o <<Frame("clearTarget", <<>>, None, 0), Told>>
  <2> DEFINE s == Append(r, c)
  <2>1. r \in Seq(Frames) /\ Len(r) = n /\ n \in Nat \ {0}
    BY <1>1 DEF r, n
  <2>2. stack' = Append(s, Told)
    BY <1>2, <1>3, <1>6, <2>1, PushTwo DEF r, c
  <2>3. /\ s \in Seq(Frames) /\ Len(s) = n + 1 /\ \A i \in 1..n : s[i] = r[i]
        /\ s[n + 1] = c
    BY <1>3, <2>1, PushFacts
  <2> HIDE DEF s
  <2>4. /\ stack' \in Seq(Frames) /\ Len(stack') = n + 2 /\ DOMAIN stack' = 1..(n + 2)
        /\ \A i \in 1..(n + 1) : stack'[i] = s[i]
        /\ stack'[n + 2] = Told
    BY <1>2, <2>1, <2>2, <2>3, PushFacts
  <2>5. \A i \in 1..(n - 1) : stack'[i] = stack[i]
    BY <1>1, <2>1, <2>3, <2>4 DEF r, n
  <2>6. stack'[n] = r[n] /\ stack'[n + 1] = c
    BY <2>1, <2>3, <2>4
  <2>7. \A i \in DOMAIN stack' : i > n => stack'[i].at \in {"told", "clearTarget"}
    BY <1>2, <1>3, <2>1, <2>4, <2>6
  <2>8. Len(stack') >= n
    BY <2>1, <2>4
  <2> QED
    BY <1>1, <2>4, <2>5, <2>6, <2>7, <2>8 DEF Advanced, r, n
<1> QED
  BY <1>4, <1>5, <1>6

LEMMA OperationPreserves ==
  ASSUME ConstantsAreSound, IInv, AtWork(Top), Advanced, GoesOn(Tail(Top.ops)),
         UNCHANGED <<session, snapshots, loads, opened, fatal, lost>>,
         image' \in ImageStates, image'.status = image.status, image'.loading = image.loading,
         image.status = "loading" => ~image'.error,
         \/ image'.source = image.source
         \/ session = NoSession /\ \A i \in DOMAIN stack : ~Awaits(stack[i]),
         prepared' \in Sources \cup {None}, {target', unshown'} \subseteq 0..opened,
         session # NoSession => UNCHANGED <<target, unshown>>
  PROVE  IInv'
<1> DEFINE n == Len(stack)
           o == Tail(Top.ops)
<1>1. /\ stack \in Seq(Frames) /\ DOMAIN stack = 1..n /\ n \in Nat \ {0} /\ Top = stack[n]
      /\ \A i \in 1..(n - 1) : ~AtWork(stack[i])
  BY TopPlan
<1>2. /\ stack' \in Seq(Frames) /\ DOMAIN stack' = 1..Len(stack') /\ Len(stack') \in Nat
      /\ Len(stack') >= n
      /\ \A i \in 1..(n - 1) : stack'[i] = stack[i]
      /\ stack'[n].at = "plan" /\ stack'[n].ops = o
      /\ stack'[n].of = Top.of /\ stack'[n].current = TRUE
      /\ \A i \in DOMAIN stack' : i > n => stack'[i].at \in {"told", "clearTarget"}
  BY DEF Advanced
<1>3. GoesOn(o)
  OBVIOUS
<1>4. Top.at = "plan"
  BY DEF AtWork
<1> HIDE DEF n, o
<1>5. /\ n \in DOMAIN stack' /\ n \in DOMAIN stack
      /\ \A i \in DOMAIN stack' : (i \in 1..(n - 1) \/ i = n \/ i > n)
      /\ \A i \in 1..(n - 1) : i \in DOMAIN stack /\ i \in DOMAIN stack' /\ i < n
      /\ \A i \in DOMAIN stack : i \in 1..(n - 1) \/ i = n
  BY <1>1, <1>2
<1>6. \A i \in DOMAIN stack' : AtWork(stack'[i]) => i = n
  BY <1>1, <1>2, <1>5 DEF AtWork
<1>7. \A i \in DOMAIN stack' : Awaits(stack'[i]) => i \in 1..(n - 1)
  BY <1>2, <1>5 DEF Awaits
<1>8. TypeOK'
  <2>1. Frames' = Frames
    BY DEF Frames
  <2> QED
    BY <1>2, <2>1 DEF IInv, TypeOK, ImageStates
<1>9. Shapes'
  <2>1. \A i \in 1..(n - 1) : Shape(stack'[i])
    BY <1>2, <1>5 DEF IInv, Shapes
  <2>2. Shape(stack'[n])
    BY <1>2, <1>3 DEF Shape, OfSession, GoesOn
  <2>3. \A i \in DOMAIN stack' : i > n => Shape(stack'[i])
    BY <1>2 DEF Shape, OfSession
  <2> QED
    BY <1>5, <2>1, <2>2, <2>3 DEF Shapes
<1>10. PlanInOrder'
  <2>1. \A j \in DOMAIN stack' : Awaits(stack'[j]) => j \in DOMAIN stack /\ Awaits(stack[j])
    BY <1>2, <1>5, <1>7
  <2> SUFFICES ASSUME NEW i \in DOMAIN stack', AtWork(stack'[i])
               PROVE  /\ \A j \in DOMAIN stack' : j > i => stack'[j].at \in {"told", "clearTarget"}
                      /\ stack'[i].ops \in Unprepared \cup Prepared \cup Reports => session' = NoSession
                      /\ stack'[i].ops \in Unprepared \cup Prepared =>
                           \A j \in DOMAIN stack' : ~Awaits(stack'[j])
                      /\ stack'[i].ops \in Prepared => prepared' = stack'[i].of
                      /\ stack'[i].ops = <<"beginOpen">> => image'.source = stack'[i].of
                      /\ stack'[i].ops \in Keeps => stack'[i].of # None /\ image'.source = stack'[i].of
                      /\ stack'[i].ops \in Clears => i = 1 /\ image'.status # "loading"
    BY DEF PlanInOrder
  <2>2. i = n
    BY <1>6
  <2>3. o \in Clears => n = 1 /\ image.status # "loading"
    BY <1>3 DEF GoesOn, n
  <2> QED
    BY <1>2, <1>3, <2>1, <2>2, <2>3 DEF GoesOn
<1>11. OpenIsReported'
  <2>1. ASSUME NEW i \in DOMAIN stack', Awaits(stack'[i])
        PROVE  i \in DOMAIN stack /\ Awaits(stack[i]) /\ stack'[i] = stack[i]
    BY <1>2, <1>5, <1>7, <2>1
  <2>2. \A i \in DOMAIN stack : Awaits(stack[i]) => image'.source = image.source
    BY DEF IInv
  <2> QED
    BY <2>1, <2>2 DEF IInv, OpenIsReported
<1>12. WillStart' <=> WillStart
  <2>1. WillStart => WillStart'
    <3>1. ASSUME NEW i \in DOMAIN stack, Awaits(stack[i]) PROVE i \in 1..(n - 1)
      BY <1>1, <1>4, <1>5, <3>1 DEF Awaits
    <3> QED
      BY <1>2, <1>5, <3>1 DEF WillStart
  <2>2. WillStart' => WillStart
    BY <1>2, <1>5, <1>7 DEF WillStart
  <2> QED
    BY <2>1, <2>2
<1>13. WillBegin => WillBegin'
  <2>1. ASSUME WillBegin PROVE Top.ops \in Opens
    BY <1>1, <1>5, <2>1 DEF WillBegin
  <2>2. ASSUME WillBegin PROVE o \in Opens /\ o # <<>>
    BY <1>3, <2>1, <2>2, PlansDiffer DEF GoesOn
  <2> QED
    BY <1>2, <1>5, <2>2 DEF WillBegin, AtWork
<1>14. WillBegin' => WillBegin
  <2>1. ASSUME WillBegin' PROVE o \in Opens
    BY <1>2, <1>6, <2>1 DEF WillBegin
  <2>2. ASSUME o \in Opens PROVE Top.ops \in Opens
    <3>1. Top.ops \in Keeps => o \in Keeps \cup {<<>>}
      BY KeepsGoOn DEF o
    <3>2. Top.ops \in Clears => o \in Clears \cup {<<>>}
      BY ClearsGoOn DEF o
    <3>3. Top.ops \in Reports => o \in Reports \cup {<<>>}
      BY ReportsGoOn DEF o
    <3> QED
      BY <2>2, <3>1, <3>2, <3>3, TopPlan, PlansDiffer
  <2> QED
    BY <1>1, <1>5, <2>1, <2>2 DEF WillBegin
<1>15. SomebodyLoads'
  <2>1. \A i \in DOMAIN stack :
          stack[i].at \in {"started", "prepared", "probing"} =>
            i \in DOMAIN stack' /\ stack'[i] = stack[i]
    BY <1>1, <1>2, <1>4, <1>5
  <2> QED
    BY <1>12, <1>13, <2>1 DEF IInv, SomebodyLoads
<1>16. Budget'
  BY <1>12, <1>14 DEF IInv, Budget
<1>17. StatusAgrees' /\ NeverFatal'
  BY DEF IInv, StatusAgrees, NeverFatal
<1>18. SessionLoads'
  BY DEF IInv, SessionLoads
<1> QED
  BY <1>8, <1>9, <1>10, <1>11, <1>15, <1>16, <1>17, <1>18 DEF IInv

LEMMA OpIsAtWork ==
  ASSUME NEW op, Op(op)
  PROVE  AtWork(Top) /\ Head(Top.ops) = op
BY DEF Op, AtWork

LEMMA CallOutPreserves ==
  ASSUME ConstantsAreSound, IInv, CallOut
  PROVE  IInv'
<1>1. /\ AtWork(Top) /\ Head(Top.ops) = "callOut" /\ stack' = Append(Rest, Told)
      /\ UNCHANGED <<image, prepared, session, snapshots, target, unshown, loads, opened, fatal,
                     lost>>
  BY OpIsAtWork DEF CallOut, loading, viewport, history
<1>2. Advanced
  BY <1>1, Advances
<1>3. GoesOn(Tail(Top.ops))
  BY <1>1, OtherOperationGoesOn
<1>4. image \in ImageStates /\ (image.status = "loading" => ~image.error)
  BY Bounds DEF IInv, StatusAgrees
<1>5. prepared \in Sources \cup {None} /\ {target, unshown} \subseteq 0..opened
  BY DEF IInv, TypeOK
<1> QED
  BY <1>1, <1>2, <1>3, <1>4, <1>5, OperationPreserves

LEMMA PreparePreserves ==
  ASSUME ConstantsAreSound, IInv, PrepareSourceLoad
  PROVE  IInv'
<1>1. /\ AtWork(Top) /\ Head(Top.ops) = "prepare" /\ stack' = Rest /\ prepared' = Top.of
      /\ UNCHANGED <<image, session, snapshots, target, unshown, loads, opened, fatal, lost>>
  BY OpIsAtWork DEF PrepareSourceLoad, viewport, history
<1>2. Advanced
  BY <1>1, Advances
<1>3. GoesOn(Tail(Top.ops))
  BY <1>1, PrepareGoesOn
<1>4. image \in ImageStates /\ (image.status = "loading" => ~image.error)
  BY Bounds DEF IInv, StatusAgrees
<1>5. prepared' \in Sources \cup {None} /\ {target, unshown} \subseteq 0..opened
  BY <1>1, TopPlan DEF IInv, TypeOK, Frames
<1> QED
  BY <1>1, <1>2, <1>3, <1>4, <1>5, OperationPreserves

LEMMA ChangePreserves ==
  ASSUME ConstantsAreSound, IInv, AtWork(Top), NEW d \in ImageStates, Change(d),
         GoesOn(Tail(Top.ops)), UNCHANGED <<loading, viewport, loads, opened, history>>,
         d.status = image.status, d.loading = image.loading,
         image.status = "loading" => ~d.error,
         \/ d.source = image.source
         \/ session = NoSession /\ \A i \in DOMAIN stack : ~Awaits(stack[i])
  PROVE  IInv'
<1>1. /\ image' = d /\ (stack' = Rest \/ stack' = Append(Rest, Told))
      /\ UNCHANGED <<prepared, session, snapshots, target, unshown, loads, opened, fatal, lost>>
  BY DEF Change, loading, viewport, history
<1>2. Advanced
  BY <1>1, Advances
<1>3. prepared' \in Sources \cup {None} /\ {target', unshown'} \subseteq 0..opened
  BY <1>1 DEF IInv, TypeOK
<1> QED
  BY <1>1, <1>2, <1>3, OperationPreserves

LEMMA ChangeStatePreserves ==
  ASSUME ConstantsAreSound, IInv, ChangeState
  PROVE  IInv'
<1>1. UNCHANGED <<loading, viewport, loads, opened, history>> /\ prepared' = prepared
  BY DEF ChangeState, loading
<1>2. /\ image \in ImageStates /\ (image.status = "loading" => ~image.error)
      /\ \A s \in Sources \cup {None} : Container[s] \in Sources \cup {None}
  BY Bounds DEF IInv, StatusAgrees, Container, Sources, None
<1>3. AtWork(Top) => Top.of \in Sources \cup {None}
  BY TopPlan DEF Frames
<1>4. ASSUME Op("clearLoadingContainer"), Change([image EXCEPT !.loadingContainer = None])
      PROVE  IInv'
  <2> DEFINE d == [image EXCEPT !.loadingContainer = None]
  <2>1. d \in ImageStates /\ d.status = image.status /\ d.loading = image.loading
        /\ d.source = image.source /\ d.error = image.error
    BY <1>2 DEF ImageStates
  <2>2. AtWork(Top) /\ Head(Top.ops) = "clearLoadingContainer" /\ Change(d) /\ image' = d
    BY <1>4, OpIsAtWork DEF Change
  <2> HIDE DEF d
  <2>3. GoesOn(Tail(Top.ops))
    BY <1>1, <2>1, <2>2, OtherOperationGoesOn
  <2> QED
    BY <1>1, <1>2, <2>1, <2>2, <2>3, ChangePreserves
<1>5. ASSUME Op("setLoadingContainer"),
             Change([image EXCEPT !.loadingContainer =
                       IF Top.of = "sibling" THEN Container[Top.of] ELSE None])
      PROVE  IInv'
  <2> DEFINE c == IF Top.of = "sibling" THEN Container[Top.of] ELSE None
             d == [image EXCEPT !.loadingContainer = c]
  <2>1. AtWork(Top) /\ Head(Top.ops) = "setLoadingContainer" /\ Change(d) /\ image' = d
    BY <1>5, OpIsAtWork DEF Change
  <2>2. c \in Sources \cup {None}
    BY <1>2, <1>3, <2>1
  <2> HIDE DEF c
  <2>3. d \in ImageStates /\ d.status = image.status /\ d.loading = image.loading
        /\ d.source = image.source /\ d.error = image.error
    BY <1>2, <2>2 DEF ImageStates
  <2> HIDE DEF d
  <2>4. GoesOn(Tail(Top.ops))
    BY <1>1, <2>1, <2>3, OtherOperationGoesOn
  <2> QED
    BY <1>1, <1>2, <2>1, <2>3, <2>4, ChangePreserves
<1>6. ASSUME Op("select"), Change([image EXCEPT !.source = Top.of])
      PROVE  IInv'
  <2> DEFINE d == [image EXCEPT !.source = Top.of]
  <2>1. AtWork(Top) /\ Head(Top.ops) = "select" /\ Change(d) /\ image' = d
    BY <1>6, OpIsAtWork DEF Change
  <2>2. d \in ImageStates /\ d.status = image.status /\ d.loading = image.loading
        /\ d.source = Top.of /\ d.error = image.error
    BY <1>2, <1>3, <2>1 DEF ImageStates
  <2> HIDE DEF d
  <2>3. /\ GoesOn(Tail(Top.ops))
        /\ \/ image'.source = image.source
           \/ session = NoSession /\ \A i \in DOMAIN stack : ~Awaits(stack[i])
    BY <1>1, <2>1, <2>2, SelectGoesOn
  <2> QED
    BY <1>1, <1>2, <2>1, <2>2, <2>3, ChangePreserves
<1>7. ASSUME Op("setContainer"), Change([image EXCEPT !.container = Container[Top.of]])
      PROVE  IInv'
  <2> DEFINE c == Container[Top.of]
             d == [image EXCEPT !.container = c]
  <2>1. AtWork(Top) /\ Head(Top.ops) = "setContainer" /\ Change(d) /\ image' = d
    BY <1>7, OpIsAtWork DEF Change
  <2>2. c \in Sources \cup {None}
    BY <1>2, <1>3, <2>1
  <2> HIDE DEF c
  <2>3. d \in ImageStates /\ d.status = image.status /\ d.loading = image.loading
        /\ d.source = image.source /\ d.error = image.error
    BY <1>2, <2>2 DEF ImageStates
  <2> HIDE DEF d
  <2>4. GoesOn(Tail(Top.ops))
    BY <1>1, <2>1, <2>3, OtherOperationGoesOn
  <2> QED
    BY <1>1, <1>2, <2>1, <2>3, <2>4, ChangePreserves
<1>8. ASSUME Op("clearError"), Change([image EXCEPT !.error = FALSE])
      PROVE  IInv'
  <2> DEFINE d == [image EXCEPT !.error = FALSE]
  <2>1. AtWork(Top) /\ Head(Top.ops) = "clearError" /\ Change(d) /\ image' = d
    BY <1>8, OpIsAtWork DEF Change
  <2>2. d \in ImageStates /\ d.status = image.status /\ d.loading = image.loading
        /\ d.source = image.source /\ d.error = FALSE
    BY <1>2 DEF ImageStates
  <2> HIDE DEF d
  <2>3. GoesOn(Tail(Top.ops))
    BY <1>1, <2>1, <2>2, OtherOperationGoesOn
  <2> QED
    BY <1>1, <1>2, <2>1, <2>2, <2>3, ChangePreserves
<1> QED
  BY <1>4, <1>5, <1>6, <1>7, <1>8 DEF ChangeState

LEMMA ClearPresentationPreserves ==
  ASSUME ConstantsAreSound, IInv, ClearPresentationImage
  PROVE  IInv'
<1> DEFINE d == [image EXCEPT !.displayed = None]
<1>1. /\ AtWork(Top) /\ Head(Top.ops) = "clearImage" /\ image' = d
      /\ UNCHANGED <<prepared, session, snapshots, loads, opened, fatal, lost>>
      /\ \/ stack' = Rest
         \/ stack' = Rest \o <<Frame("clearTarget", <<>>, None, 0), Told>>
      /\ \/ target' = 0 /\ unshown' = 0
         \/ target' = target /\ unshown' = unshown
  BY OpIsAtWork DEF ClearPresentationImage, ClearViewportTarget, loading, viewport, history
<1>2. /\ image \in ImageStates /\ (image.status = "loading" => ~image.error)
      /\ opened \in Nat
  BY Bounds DEF IInv, StatusAgrees
<1>3. d \in ImageStates /\ d.status = image.status /\ d.loading = image.loading
      /\ d.source = image.source /\ d.error = image.error
  BY <1>2 DEF ImageStates
<1> HIDE DEF d
<1>4. Advanced
  BY <1>1, Advances
<1>5. GoesOn(Tail(Top.ops))
  BY <1>1, <1>3, OtherOperationGoesOn
<1>6. prepared' \in Sources \cup {None} /\ {target', unshown'} \subseteq 0..opened
  BY <1>1, <1>2 DEF IInv, TypeOK
<1>7. session = NoSession
  BY <1>1, TopPlan, OpensGoOn, KeepsGoOn, ClearsGoOn
<1> QED
  BY <1>1, <1>2, <1>3, <1>4, <1>5, <1>6, <1>7, OperationPreserves

-----------------------------------------------------------------------------
(* A newer operation of the open. *)

LEMMA BegunFacts ==
  ASSUME NEW s \in Seq(Frames)
  PROVE  /\ BeginOperation(s) \in Seq(Frames) /\ Len(BeginOperation(s)) = Len(s)
         /\ DOMAIN BeginOperation(s) = 1..Len(s)
         /\ \A i \in 1..Len(s) :
              /\ s[i].at \notin {"applied", "reported"} => BeginOperation(s)[i] = s[i]
              /\ ~Awaits(BeginOperation(s)[i])
              /\ AtWork(BeginOperation(s)[i]) => AtWork(s[i])
              /\ Shape(s[i]) => Shape(BeginOperation(s)[i])
<1> DEFINE K == {"applied", "reported"}
           t == BeginOperation(s)
<1>1. \A a : a \in K <=> a \in {"applied", "reported"}
  OBVIOUS
<1>2. t = Superseded(s, K)
  BY DEF BeginOperation
<1> HIDE DEF K, t
<1>3. t \in Seq(Frames) /\ Len(t) = Len(s) /\ DOMAIN t = 1..Len(s)
  BY <1>2, SupersededFacts
<1>4. ASSUME NEW i \in 1..Len(s)
      PROVE  /\ s[i].at \notin K => t[i] = s[i]
             /\ Same(t[i], s[i])
             /\ t[i].current => s[i].current /\ s[i].at \notin K
  BY <1>2, SupersededFacts
<1>5. ASSUME NEW i \in 1..Len(s)
      PROVE  /\ ~Awaits(t[i])
             /\ AtWork(t[i]) => AtWork(s[i])
             /\ Shape(s[i]) => Shape(t[i])
  BY <1>1, <1>4 DEF Same, Awaits, AtWork, Shape, OfSession
<1>6. \A i \in 1..Len(s) : s[i].at \notin {"applied", "reported"} => t[i] = s[i]
  BY <1>1, <1>4
<1> QED
  BY <1>3, <1>5, <1>6 DEF t

LEMMA CancelOpenPreserves ==
  ASSUME ConstantsAreSound, IInv, CancelOpen
  PROVE  IInv'
<1> DEFINE n == Len(stack)
           o == Tail(Top.ops)
<1>1. /\ AtWork(Top) /\ Head(Top.ops) = "cancelOpen" /\ stack' = BeginOperation(Rest)
      /\ session' = NoSession /\ unshown' = 0
      /\ UNCHANGED <<image, prepared, snapshots, target, loads, opened, fatal, lost>>
  BY OpIsAtWork DEF CancelOpen, CancelActiveLoad, history
<1>2. /\ Rest \in Seq(Frames) /\ Len(Rest) = n /\ n \in Nat \ {0}
      /\ \A i \in 1..(n - 1) : Rest[i] = stack[i]
      /\ Rest[n].at = "plan" /\ Rest[n].ops = o /\ Rest[n].of = Top.of
      /\ Rest[n].current = Top.current
  BY <1>1, RestFacts DEF IInv, AtWork
<1>3. /\ DOMAIN stack = 1..n /\ \A i \in 1..(n - 1) : ~AtWork(stack[i])
      /\ Top = stack[n] /\ Top.ops \in Opens \cup Keeps \cup Clears \cup Reports
      /\ (Top.ops \in Clears => n = 1 /\ image.status # "loading")
  BY <1>1, TopPlan
<1>4. \/ Top.ops \in Opens /\ o \in Unprepared
      \/ Top.ops \in Clears /\ o \in Clears \cup {<<>>}
  BY <1>1, <1>3, OpensGoOn, KeepsGoOn, ClearsGoOn, ReportsGoOn
<1>5. Top.current
  BY <1>1 DEF AtWork
<1> HIDE DEF n, o
<1>6. \A i \in 1..n : i = n \/ i \in 1..(n - 1)
  BY <1>2
<1>7. \A i \in 1..n : Shape(Rest[i]) /\ (AtWork(Rest[i]) => i = n)
  <2>1. \A i \in 1..(n - 1) : Shape(Rest[i]) /\ ~AtWork(Rest[i])
    BY <1>2, <1>3 DEF IInv, Shapes
  <2>2. Shape(Rest[n])
    BY <1>2, <1>4 DEF Shape, OfSession, Opens
  <2> QED
    BY <1>6, <2>1, <2>2
<1>8. /\ stack' \in Seq(Frames) /\ DOMAIN stack' = 1..n
      /\ \A i \in 1..n : Shape(stack'[i]) /\ ~Awaits(stack'[i]) /\ (AtWork(stack'[i]) => i = n)
      /\ stack'[n] = Rest[n]
  <2> DEFINE r == Rest
  <2>1. r \in Seq(Frames) /\ Len(r) = n
    BY <1>2
  <2> HIDE DEF r
  <2>2. /\ BeginOperation(r) \in Seq(Frames) /\ DOMAIN BeginOperation(r) = 1..n
        /\ \A i \in 1..n :
             /\ r[i].at \notin {"applied", "reported"} => BeginOperation(r)[i] = r[i]
             /\ ~Awaits(BeginOperation(r)[i])
             /\ AtWork(BeginOperation(r)[i]) => AtWork(r[i])
             /\ Shape(r[i]) => Shape(BeginOperation(r)[i])
    BY <2>1, BegunFacts
  <2>3. stack' = BeginOperation(r) /\ n \in 1..n
    BY <1>1, <1>2 DEF r
  <2> QED
    BY <1>2, <1>7, <2>2, <2>3 DEF r
<1>9. n \in 1..n
  BY <1>2
<1>10. opened \in Nat /\ loads \in Nat
  BY Bounds DEF IInv
<1>11. TypeOK'
  <2>1. Frames' = Frames
    BY <1>1 DEF Frames
  <2>2. session' \in [id : 0..opened, source : Sources \cup {None}, page : Sources \cup {None}]
        /\ unshown' \in 0..opened
    BY <1>1, <1>10 DEF NoSession
  <2> QED
    BY <1>1, <1>8, <2>1, <2>2 DEF IInv, TypeOK
<1>12. Shapes' /\ OpenIsReported' /\ ~WillStart'
  BY <1>8 DEF Shapes, OpenIsReported, WillStart
<1>13. PlanInOrder'
  <2>1. ASSUME NEW i \in DOMAIN stack', AtWork(stack'[i])
        PROVE  i = n /\ stack'[i].ops = o /\ \A j \in DOMAIN stack' : ~(j > i)
    BY <1>2, <1>8, <2>1
  <2>2. o \notin Prepared \cup Reports \cup Keeps /\ o # <<"beginOpen">>
    BY <1>4, PlansDiffer DEF Opens, Prepared
  <2>3. o \in Clears => n = 1 /\ image'.status # "loading"
    BY <1>1, <1>3, <1>4, PlansDiffer DEF Opens
  <2> QED
    BY <1>1, <1>8, <2>1, <2>2, <2>3 DEF PlanInOrder
<1>14. image.status = "loading" => WillBegin'
  <2>1. ASSUME image.status = "loading" PROVE o \in Opens /\ o # <<>>
    BY <1>3, <1>4, <2>1, PlansDiffer DEF Opens
  <2> QED
    BY <1>2, <1>5, <1>8, <1>9, <2>1 DEF WillBegin, AtWork
<1>15. SomebodyLoads'
  BY <1>1, <1>14 DEF SomebodyLoads
<1>16. Budget'
  <2>1. WillBegin' => o \in Opens
    BY <1>2, <1>8 DEF WillBegin
  <2>2. o \in Opens => Top.ops \in Opens
    BY <1>4, PlansDiffer
  <2>3. Top.ops \in Opens => WillBegin
    BY <1>1, <1>3, <1>9 DEF WillBegin
  <2> QED
    BY <1>1, <1>12, <2>1, <2>2, <2>3 DEF IInv, Budget
<1>17. StatusAgrees' /\ SessionLoads' /\ NeverFatal'
  BY <1>1 DEF IInv, StatusAgrees, SessionLoads, NeverFatal
<1> QED
  BY <1>11, <1>12, <1>13, <1>15, <1>16, <1>17 DEF IInv

\* A change of the open has been applied and will be reported.
LEMMA ReportPreserves ==
  ASSUME ConstantsAreSound, IInv, NEW b \in Seq(Frames), Calm(b), NEW o \in WholeReport,
         NEW s \in Sources \cup {None},
         stack' = b \o <<Frame("applied", o, s, 0), Told>>, session' = NoSession,
         image' \in ImageStates, image'.loading <=> image'.status = "loading",
         image'.status = "loading" => ~image'.error,
         s = None => image'.status # "loading",
         s # None => image'.status = "loading" /\ image'.source = s /\ opened < loads',
         prepared' \in Sources \cup {None}, {target', unshown'} \subseteq 0..opened,
         UNCHANGED <<snapshots, opened, fatal>>, lost' \in BOOLEAN,
         loads' \in 0..MaxLoads, loads' >= loads
  PROVE  IInv'
<1> DEFINE f == Frame("applied", o, s, 0)
           n == Len(b)
<1>1. opened \in Nat /\ loads \in Nat /\ MaxLoads \in Nat
  BY Bounds DEF IInv
<1>2. Told \in Frames /\ Shape(Told) /\ ~AtWork(Told) /\ ~Awaits(Told)
  BY ToldIsFrame DEF IInv
<1>3. f \in Frames
  <2>1. o \in Seq(Ops)
    BY PlansAreTyped DEF Reports
  <2> QED
    BY <2>1, PlanFrame DEF IInv
<1>4. f.at = "applied" /\ f.ops = o /\ f.of = s /\ f.current = TRUE
  BY DEF Frame
<1>5. stack' = Append(Append(b, f), Told)
  BY <1>2, <1>3, PushTwo
<1> HIDE DEF f
<1>6. /\ Append(b, f) \in Seq(Frames) /\ Len(Append(b, f)) = n + 1
      /\ \A i \in 1..n : Append(b, f)[i] = b[i]
      /\ Append(b, f)[n + 1] = f
  BY <1>3, PushFacts
<1>7. n \in Nat /\ DOMAIN b = 1..n
  OBVIOUS
<1> DEFINE c == Append(b, f)
<1> HIDE DEF c, n
<1>8. /\ stack' \in Seq(Frames) /\ DOMAIN stack' = 1..(n + 2)
      /\ \A i \in 1..(n + 1) : stack'[i] = c[i]
      /\ stack'[n + 2] = Told
  <2>1. c \in Seq(Frames) /\ Len(c) = n + 1 /\ stack' = Append(c, Told) /\ Told \in Frames
    BY <1>2, <1>5, <1>6 DEF c
  <2>2. /\ Append(c, Told) \in Seq(Frames) /\ DOMAIN Append(c, Told) = 1..(Len(c) + 1)
        /\ \A i \in 1..Len(c) : Append(c, Told)[i] = c[i]
        /\ Append(c, Told)[Len(c) + 1] = Told
    BY <2>1, PushFacts
  <2>3. Len(c) + 1 = n + 2
    BY <1>7, <2>1
  <2> QED
    BY <2>1, <2>2, <2>3
<1>9. /\ \A i \in 1..n : stack'[i] = b[i]
      /\ stack'[n + 1] = f
  BY <1>6, <1>7, <1>8 DEF c
<1>10. \A i \in DOMAIN stack' : i \in 1..n \/ i = n + 1 \/ i = n + 2
  <2>1. \A i \in 1..(n + 2) : i \in 1..n \/ i = n + 1 \/ i = n + 2
    BY <1>7
  <2> QED
    BY <1>8, <2>1
<1>11. \A i \in 1..n : Shape(stack'[i]) /\ ~AtWork(stack'[i]) /\ ~Awaits(stack'[i])
  BY <1>7, <1>9 DEF Calm
<1>12. Awaits(f) /\ ~AtWork(f) /\ Shape(f)
  BY <1>4 DEF Awaits, AtWork, Shape, OfSession
<1>13. n + 1 \in DOMAIN stack'
  BY <1>7, <1>8
<1>14. \A i \in DOMAIN stack' : /\ Shape(stack'[i]) /\ ~AtWork(stack'[i])
                                /\ Awaits(stack'[i]) => i = n + 1
  BY <1>2, <1>8, <1>9, <1>10, <1>11, <1>12
<1>15. TypeOK'
  <2>1. Frames' = Frames
    BY DEF Frames
  <2>2. session' \in [id : 0..opened, source : Sources \cup {None}, page : Sources \cup {None}]
    BY <1>1 DEF NoSession
  <2> QED
    BY <1>8, <2>1, <2>2 DEF IInv, TypeOK, ImageStates
<1>16. Shapes' /\ PlanInOrder' /\ ~WillBegin'
  <2>1. Shapes'
    BY <1>14 DEF Shapes
  <2>2. PlanInOrder'
    <3>1. \A i \in DOMAIN stack' : ~AtWork(stack'[i])
      BY <1>14
    <3> QED
      BY <3>1 DEF PlanInOrder
  <2>3. ~WillBegin'
    BY <1>14 DEF WillBegin
  <2> QED
    BY <2>1, <2>2, <2>3
<1>17. OpenIsReported'
  <2> SUFFICES ASSUME NEW i \in DOMAIN stack', Awaits(stack'[i])
               PROVE  /\ session' = NoSession
                      /\ stack'[i].of # None =>
                           image'.status = "loading" /\ image'.source = stack'[i].of
                      /\ \A j \in DOMAIN stack' : Awaits(stack'[j]) => j = i
    BY DEF OpenIsReported
  <2>1. i = n + 1
    BY <1>14
  <2>2. stack'[i].of = s
    BY <1>4, <1>9, <2>1
  <2>3. \A j \in DOMAIN stack' : Awaits(stack'[j]) => j = i
    BY <1>14, <2>1
  <2> QED
    BY <2>2, <2>3
<1>18. s # None => WillStart'
  BY <1>4, <1>9, <1>12, <1>13 DEF WillStart
<1>19. WillStart' => s # None
  BY <1>4, <1>9, <1>14 DEF WillStart
<1>20. SomebodyLoads'
  BY <1>18 DEF SomebodyLoads
<1>21. Budget'
  <2>1. opened <= loads'
    BY <1>1, Owed
  <2> QED
    BY <1>16, <1>19, <2>1 DEF Budget
<1>22. StatusAgrees' /\ SessionLoads' /\ NeverFatal'
  BY DEF IInv, StatusAgrees, SessionLoads, NeverFatal
<1> QED
  BY <1>15, <1>16, <1>17, <1>20, <1>21, <1>22 DEF IInv

\* A plan that was its last operation leaves nothing behind that goes on.
LEMMA LastOperation ==
  ASSUME ConstantsAreSound, IInv, AtWork(Top), Tail(Top.ops) = <<>>
  PROVE  /\ BeginOperation(Rest) \in Seq(Frames) /\ Calm(BeginOperation(Rest))
         /\ Rest \in Seq(Frames) /\ (Len(stack) = 1 => Calm(Rest))
<1> DEFINE n == Len(stack)
           r == Rest
<1>1. /\ r \in Seq(Frames) /\ Len(r) = n /\ n \in Nat \ {0} /\ DOMAIN r = 1..n
      /\ \A i \in 1..(n - 1) : r[i] = stack[i]
      /\ r[n].at = "plan" /\ r[n].ops = <<>>
  <2>1. Top.at = "plan" /\ Top.ops # <<>> /\ TypeOK /\ Shapes
    BY DEF IInv, AtWork
  <2>2. DOMAIN Rest = 1..n
    BY <2>1, RestFacts
  <2> QED
    BY <2>1, <2>2, RestFacts
<1>2. DOMAIN stack = 1..n /\ \A i \in 1..(n - 1) : ~AtWork(stack[i])
  BY TopPlan
<1> HIDE DEF n, r
<1>3. \A i \in 1..n : i = n \/ (i \in 1..(n - 1) /\ i \in DOMAIN stack)
  BY <1>1, <1>2
<1>4. \A i \in 1..n : Shape(r[i]) /\ ~AtWork(r[i])
  <2>1. Shape(r[n]) /\ ~AtWork(r[n])
    BY <1>1 DEF Shape, AtWork, OfSession
  <2>2. \A i \in 1..(n - 1) : i \in DOMAIN stack => Shape(r[i]) /\ ~AtWork(r[i])
    BY <1>1, <1>2 DEF IInv, Shapes
  <2> QED
    BY <1>3, <2>1, <2>2
<1>5. /\ BeginOperation(r) \in Seq(Frames) /\ DOMAIN BeginOperation(r) = 1..n
      /\ \A i \in 1..n :
           /\ ~Awaits(BeginOperation(r)[i])
           /\ AtWork(BeginOperation(r)[i]) => AtWork(r[i])
           /\ Shape(r[i]) => Shape(BeginOperation(r)[i])
  BY <1>1, BegunFacts
<1>6. Calm(BeginOperation(r))
  BY <1>4, <1>5 DEF Calm
<1>7. ASSUME n = 1 PROVE Calm(r)
  BY <1>1, <1>4, <1>7 DEF Calm, Awaits
<1> QED
  BY <1>1, <1>5, <1>6, <1>7 DEF n, r

LEMMA BeginFacts ==
  ASSUME ConstantsAreSound, IInv, Op("beginOpen")
  PROVE  /\ AtWork(Top) /\ Tail(Top.ops) = <<>>
         /\ session = NoSession /\ prepared = image.source /\ opened + 1 <= loads
<1>1. AtWork(Top) /\ Head(Top.ops) = "beginOpen"
  BY OpIsAtWork
<1>2. Top.ops \in Opens
  BY <1>1, TopPlan, KeepsGoOn, ClearsGoOn, ReportsGoOn
<1>3. Top.ops = <<"beginOpen">> /\ Tail(Top.ops) = <<>>
  BY <1>1, <1>2, OpensGoOn
<1>4. Top.ops \in Prepared
  BY <1>3 DEF Prepared
<1>5. session = NoSession /\ prepared = image.source
  BY <1>1, <1>3, <1>4, TopPlan
<1>6. WillBegin
  BY <1>1, <1>2, TopPlan DEF WillBegin
<1> QED
  BY <1>1, <1>3, <1>5, <1>6, Owed

LEMMA EmptyIsValid ==
  ASSUME ConstantsAreSound, IInv
  PROVE  LET d == [Finished("null") EXCEPT !.container = None]
         IN  /\ d \in ImageStates /\ d.status = "null" /\ d.loading = FALSE
             /\ FinalStateIsValid(d)
<1> DEFINE f == Finished("null")
           d == [f EXCEPT !.container = None]
<1>1. image \in ImageStates
  BY Bounds DEF IInv
<1>2. f \in ImageStates /\ f.status = "null" /\ f.loading = FALSE /\ f.error = FALSE
  BY <1>1 DEF Finished, ImageStates
<1> HIDE DEF f
<1>3. d \in ImageStates /\ d.status = "null" /\ d.loading = FALSE /\ d.error = FALSE
      /\ d.container = None
  BY <1>2 DEF ImageStates
<1> HIDE DEF d
<1>4. FinalStateIsValid(d)
  BY <1>3 DEF FinalStateIsValid
<1> QED
  BY <1>3, <1>4 DEF d, f

LEMMA FinishEmptyPreserves ==
  ASSUME ConstantsAreSound, IInv, NEW b \in Seq(Frames), Calm(b), FinishEmpty(b),
         session' = NoSession, {target', unshown'} \subseteq 0..opened, lost' \in BOOLEAN,
         UNCHANGED <<prepared, snapshots, opened, loads>>
  PROVE  IInv'
<1>1. /\ image' = [Finished("null") EXCEPT !.container = None]
      /\ fatal' = (fatal \/ ~FinalStateIsValid(image'))
      /\ stack' = b \o <<Frame("applied", ClearImagePlan, None, 0), Told>>
  BY DEF FinishEmpty, Apply
<1>2. /\ image' \in ImageStates /\ image'.status = "null" /\ image'.loading = FALSE
      /\ FinalStateIsValid(image')
  BY <1>1, EmptyIsValid
<1>3. fatal' = fatal
  BY <1>1, <1>2 DEF IInv, NeverFatal, TypeOK
<1> DEFINE o == ClearImagePlan
<1>4. o \in WholeReport
  BY PlansBegin
<1>5. stack' = b \o <<Frame("applied", o, None, 0), Told>>
  BY <1>1
<1> HIDE DEF o
<1>6. prepared' \in Sources \cup {None} /\ None \in Sources \cup {None}
  BY DEF IInv, TypeOK
<1>7. loads' \in 0..MaxLoads /\ loads' >= loads
  BY Bounds DEF IInv, TypeOK
<1> QED
  BY <1>2, <1>3, <1>4, <1>5, <1>6, <1>7, ReportPreserves

LEMMA FinishEmptySourcePreserves ==
  ASSUME ConstantsAreSound, IInv, FinishEmptySourceLoad
  PROVE  IInv'
<1>1. /\ AtWork(Top) /\ Head(Top.ops) = "finishEmpty" /\ FinishEmpty(Rest)
      /\ UNCHANGED <<prepared, session, snapshots, target, unshown, loads, opened, lost>>
  BY OpIsAtWork DEF FinishEmptySourceLoad, loading, viewport
<1>2. Top.ops \in Clears
  BY <1>1, TopPlan, OpensGoOn, KeepsGoOn, ReportsGoOn
<1>3. Tail(Top.ops) = <<>>
  <2> DEFINE o == Top.ops
  <2>1. o \in Clears /\ Head(o) = "finishEmpty"
    BY <1>1, <1>2
  <2> HIDE DEF o
  <2>2. Tail(o) = <<>>
    <3>1. o # <<"callOut", "cancelOpen", "callOut", "select", "clearError", "finishEmpty">>
      BY <2>1
    <3>2. o # <<"cancelOpen", "callOut", "select", "clearError", "finishEmpty">>
      BY <2>1
    <3>3. o # <<"callOut", "select", "clearError", "finishEmpty">>
      BY <2>1
    <3>4. o # <<"select", "clearError", "finishEmpty">> /\ o # <<"clearError", "finishEmpty">>
      BY <2>1
    <3>5. o = <<"finishEmpty">>
      BY <2>1, <3>1, <3>2, <3>3, <3>4 DEF Clears
    <3> QED
      BY <3>5
  <2> QED
    BY <2>2 DEF o
<1>4. Len(stack) = 1 /\ image.status # "loading"
  BY <1>1, <1>2, TopPlan
<1>5. Rest \in Seq(Frames) /\ Calm(Rest)
  BY <1>1, <1>3, <1>4, LastOperation
<1>6. session = NoSession
  BY <1>4 DEF IInv, SessionLoads
<1>7. {target', unshown'} \subseteq 0..opened /\ lost' \in BOOLEAN
  BY <1>1 DEF IInv, TypeOK
<1> QED
  BY <1>1, <1>5, <1>6, <1>7, FinishEmptyPreserves

LEMMA OpenEmptyPreserves ==
  ASSUME ConstantsAreSound, IInv, OpenEmpty
  PROVE  IInv'
<1>1. /\ Op("beginOpen") /\ FinishEmpty(BeginOperation(Rest)) /\ session' = NoSession
      /\ unshown' = 0 /\ lost' = FALSE
      /\ UNCHANGED <<prepared, snapshots, target, loads, opened>>
  BY DEF OpenEmpty, CancelActiveLoad
<1>2. BeginOperation(Rest) \in Seq(Frames) /\ Calm(BeginOperation(Rest))
  BY <1>1, BeginFacts, LastOperation
<1>3. target' \in 0..opened /\ unshown' \in 0..opened /\ lost' \in BOOLEAN
  <2>1. opened \in Nat /\ {target, unshown} \subseteq 0..opened
    BY Bounds DEF IInv, TypeOK
  <2>2. target' \in 0..opened /\ unshown' \in 0..opened
    BY <1>1, <2>1
  <2>3. lost' \in BOOLEAN
    BY <1>1
  <2> QED
    BY <2>2, <2>3
<1> QED
  BY <1>1, <1>2, <1>3, FinishEmptyPreserves

LEMMA BeginSourcePreserves ==
  ASSUME ConstantsAreSound, IInv, NEW a \in BOOLEAN, BeginSourceLoad(a)
  PROVE  IInv'
<1> DEFINE o == IF a \/ SameScopePage(prepared) THEN <<"callOut">> ELSE ClearImagePlan
           s == prepared
           c == IF ~a /\ image.loadingContainer = None THEN None ELSE image.container
           d == [image EXCEPT !.status = "loading", !.loading = TRUE, !.error = FALSE,
                              !.container = c]
           b == BeginOperation(Rest)
<1>1. /\ Op("beginOpen") /\ image.source # None /\ session' = NoSession /\ unshown' = 0
      /\ prepared' = None /\ image' = d /\ fatal' = (fatal \/ ~FinalStateIsValid(d))
      /\ lost' = FALSE /\ stack' = b \o <<Frame("applied", o, s, 0), Told>>
      /\ UNCHANGED <<snapshots, target, loads, opened>>
  BY DEF BeginSourceLoad, CancelActiveLoad, Apply
<1>2. b \in Seq(Frames) /\ Calm(b)
  BY <1>1, BeginFacts, LastOperation
<1>3. s = image.source /\ opened + 1 <= loads
  BY <1>1, BeginFacts
<1>4. o \in WholeReport
  BY PlansBegin
<1>5. image \in ImageStates /\ opened \in Nat /\ loads \in Nat
  BY Bounds DEF IInv
<1>6. c \in Sources \cup {None}
  BY <1>5 DEF ImageStates
<1> HIDE DEF b, o, c
<1>7. /\ d \in ImageStates /\ d.status = "loading" /\ d.loading = TRUE /\ d.error = FALSE
      /\ d.source = image.source
  BY <1>5, <1>6 DEF ImageStates
<1> HIDE DEF d
<1>8. FinalStateIsValid(d)
  BY <1>7 DEF FinalStateIsValid
<1>9. fatal' = fatal
  BY <1>1, <1>8 DEF IInv, NeverFatal, TypeOK
<1>10. s \in Sources \cup {None} /\ s # None
  BY <1>1, <1>3 DEF IInv, TypeOK
<1>11. target' \in 0..opened /\ unshown' \in 0..opened /\ lost' \in BOOLEAN
       /\ prepared' \in Sources \cup {None}
  <2>1. {target, unshown} \subseteq 0..opened
    BY DEF IInv, TypeOK
  <2>2. target' \in 0..opened /\ unshown' \in 0..opened
    BY <1>1, <1>5, <2>1
  <2>3. lost' \in BOOLEAN /\ prepared' \in Sources \cup {None}
    BY <1>1
  <2> QED
    BY <2>2, <2>3
<1>12. loads' \in 0..MaxLoads /\ loads' >= loads /\ opened < loads'
  BY <1>1, <1>3, <1>5 DEF IInv, TypeOK
<1> HIDE DEF s
<1> QED
  BY <1>1, <1>2, <1>3, <1>4, <1>7, <1>9, <1>10, <1>11, <1>12, ReportPreserves

LEMMA FinishContainerPreserves ==
  ASSUME ConstantsAreSound, IInv, FinishContainerNavigationLoadWithError
  PROVE  IInv'
<1> DEFINE o == ClearImagePlan
           f == Finished("error")
           d == [f EXCEPT !.source = "shelf", !.container = "shelf"]
           b == BeginOperation(stack)
<1>1. /\ loads < MaxLoads /\ loads' = loads + 1 /\ stack = <<>>
      /\ session' = NoSession /\ unshown' = 0
      /\ image' = d /\ fatal' = (fatal \/ ~FinalStateIsValid(d))
      /\ stack' = b \o <<Frame("applied", o, None, 0), Told>>
      /\ UNCHANGED <<prepared, snapshots, target, opened, lost>>
  BY DEF FinishContainerNavigationLoadWithError, Replace, FromEventLoop, CancelActiveLoad, Apply
<1>2. o \in WholeReport
  BY PlansBegin
<1>3. image \in ImageStates /\ opened \in Nat /\ loads \in Nat /\ MaxLoads \in Nat
  BY Bounds DEF IInv
<1>4. f \in ImageStates /\ f.status = "error" /\ f.loading = FALSE /\ f.error = TRUE
  BY <1>3 DEF Finished, ImageStates
<1> HIDE DEF f, o
<1>5. /\ d \in ImageStates /\ d.status = "error" /\ d.loading = FALSE /\ d.error = TRUE
  BY <1>4 DEF ImageStates, Sources
<1> HIDE DEF d
<1>6. FinalStateIsValid(d)
  BY <1>5 DEF FinalStateIsValid
<1>7. fatal' = fatal
  BY <1>1, <1>6 DEF IInv, NeverFatal, TypeOK
<1>8. b \in Seq(Frames) /\ Calm(b)
  <2>1. stack \in Seq(Frames) /\ Len(stack) = 0
    BY <1>1 DEF IInv, TypeOK
  <2>2. b \in Seq(Frames) /\ DOMAIN b = 1..0
    BY <2>1, BegunFacts
  <2> QED
    BY <2>2 DEF Calm
<1> HIDE DEF b
<1>9. {target', unshown'} \subseteq 0..opened /\ lost' \in BOOLEAN
      /\ prepared' \in Sources \cup {None} /\ None \in Sources \cup {None}
  BY <1>1, <1>3 DEF IInv, TypeOK
<1>10. loads' \in 0..MaxLoads /\ loads' >= loads
  BY <1>1, <1>3
<1> QED
  BY <1>1, <1>2, <1>5, <1>7, <1>8, <1>9, <1>10, ReportPreserves

\* The report of a change begins: what it tells is a plan of its own.
LEMMA ReportPlanPreserves ==
  ASSUME ConstantsAreSound, IInv, ReportPlan
  PROVE  IInv'
<1>1. /\ Top.at = "applied"
      /\ UNCHANGED <<image, prepared, session, snapshots, target, unshown, loads, opened, fatal,
                     lost>>
  BY DEF ReportPlan, loading, viewport, history
<1>2. stack # <<>> /\ stack \in Seq(Frames) /\ Len(stack) \in DOMAIN stack
      /\ Top = stack[Len(stack)] /\ Top \in Frames
  BY <1>1, StackFacts DEF IInv
<1>3. CASE ~Top.current
  <2>1. stack' = Below /\ ~AtWork(Top) /\ ~Awaits(Top)
    BY <1>1, <1>3 DEF ReportPlan, OperationIsCurrent, AtWork, Awaits
  <2>2. ~(Top.at \in {"started", "prepared", "probing"} /\ Top.id = session.id)
    BY <1>1
  <2>3. {target', unshown'} \subseteq 0..opened /\ lost' \in BOOLEAN
    BY <1>1 DEF IInv, TypeOK
  <2> QED
    BY <1>1, <1>2, <2>1, <2>2, <2>3, PopPreserves
<1>4. CASE Top.current
  <2> DEFINE n == Len(stack)
             f == [Top EXCEPT !.at = "reported"]
             o == Top.ops
             g == Frame("plan", o, None, 0)
             b == Below
  <2>1. stack' = b \o <<f, g>>
    BY <1>1, <1>4 DEF ReportPlan, OperationIsCurrent
  <2>2. /\ b \in Seq(Frames) /\ Len(b) = n - 1 /\ n \in Nat \ {0}
        /\ \A i \in 1..(n - 1) : b[i] = stack[i]
    BY <1>2, BelowFacts
  <2>3. DOMAIN stack = 1..n
    BY <1>2, StackFacts DEF IInv
  <2>4. o \in WholeReport /\ o \in Reports /\ o \in Seq(Ops)
    BY <1>1, <1>2, PlansAreTyped DEF IInv, Shapes, Shape, Reports
  <2>5. g \in Frames /\ g.at = "plan" /\ g.ops = o /\ g.current = TRUE
    <3>1. g \in Frames
      <4>1. TypeOK
        BY DEF IInv
      <4> HIDE DEF o
      <4> QED
        BY <2>4, <4>1, PlanFrame
    <3> HIDE DEF o
    <3> QED
      BY <3>1 DEF Frame
  <2>6. f \in Frames /\ f.at = "reported" /\ f.ops = o /\ f.of = Top.of /\ f.current = Top.current
    BY <1>2 DEF Frames
  <2> HIDE DEF f, g, o, b, n
  <2>7. stack' = Append(Append(b, f), g)
    BY <2>1, <2>2, <2>5, <2>6, PushTwo
  <2> DEFINE c == Append(b, f)
  <2>8. /\ c \in Seq(Frames) /\ Len(c) = (n - 1) + 1
        /\ \A i \in 1..(n - 1) : c[i] = b[i]
        /\ c[(n - 1) + 1] = f
    BY <2>2, <2>6, PushFacts
  <2> HIDE DEF c
  <2>9. (n - 1) + 1 = n
    BY <2>2
  <2>10. /\ stack' \in Seq(Frames) /\ DOMAIN stack' = 1..(n + 1)
         /\ \A i \in 1..n : stack'[i] = c[i]
         /\ stack'[n + 1] = g
    <3>1. stack' = Append(c, g) /\ Len(c) = n
      BY <2>7, <2>8, <2>9 DEF c
    <3> QED
      BY <2>5, <2>8, <3>1, PushFacts
  <2>11. /\ \A i \in 1..(n - 1) : stack'[i] = stack[i] /\ i \in DOMAIN stack
         /\ stack'[n] = f
    BY <2>2, <2>3, <2>8, <2>9, <2>10
  <2>12. /\ \A i \in DOMAIN stack' : i \in 1..(n - 1) \/ i = n \/ i = n + 1
         /\ \A i \in DOMAIN stack : i \in 1..(n - 1) \/ i = n
         /\ n \in DOMAIN stack' /\ n + 1 \in DOMAIN stack' /\ n \in DOMAIN stack
    <3>1. /\ \A i \in 1..(n + 1) : i \in 1..(n - 1) \/ i = n \/ i = n + 1
          /\ \A i \in 1..n : i \in 1..(n - 1) \/ i = n
          /\ n \in 1..(n + 1) /\ n + 1 \in 1..(n + 1) /\ n \in 1..n
      BY <2>2
    <3> QED
      BY <2>3, <2>10, <3>1
  <2>13. Top = stack[n] /\ Awaits(stack[n])
    BY <1>1, <1>2, <1>4 DEF Awaits, n
  <2>14. /\ session = NoSession
         /\ Top.of # None => image.status = "loading" /\ image.source = Top.of
         /\ \A j \in DOMAIN stack : Awaits(stack[j]) => j = n
    BY <2>12, <2>13 DEF IInv, OpenIsReported
  <2>15. ASSUME NEW i \in 1..(n - 1)
         PROVE  Shape(stack'[i]) /\ ~AtWork(stack'[i]) /\ ~Awaits(stack'[i])
    <3>1. i \in DOMAIN stack /\ stack'[i] = stack[i] /\ n > i /\ i # n
      BY <2>2, <2>11
    <3>2. ~AtWork(stack[i])
      BY <1>1, <2>12, <2>13, <3>1 DEF IInv, PlanInOrder
    <3> QED
      BY <2>14, <3>1, <3>2 DEF IInv, Shapes
  <2>16. Shape(f) /\ ~AtWork(f) /\ Awaits(f)
    BY <1>4, <2>4, <2>6 DEF Shape, AtWork, Awaits, OfSession
  <2>17. Shape(g) /\ AtWork(g) /\ ~Awaits(g)
    BY <2>4, <2>5, PlansDiffer DEF Shape, AtWork, Awaits, OfSession
  <2>18. \A i \in DOMAIN stack' : /\ Shape(stack'[i])
                                  /\ AtWork(stack'[i]) => i = n + 1
                                  /\ Awaits(stack'[i]) => i = n
    BY <2>10, <2>11, <2>12, <2>15, <2>16, <2>17
  <2>19. TypeOK'
    <3>1. Frames' = Frames
      BY <1>1 DEF Frames
    <3> QED
      BY <1>1, <2>10, <3>1 DEF IInv, TypeOK
  <2>20. Shapes'
    BY <2>18 DEF Shapes
  <2>21. PlanInOrder'
    <3>1. ASSUME NEW i \in DOMAIN stack', AtWork(stack'[i])
          PROVE  stack'[i].ops = o /\ \A j \in DOMAIN stack' : ~(j > i)
      BY <2>2, <2>5, <2>10, <2>18, <3>1
    <3>2. o \notin Unprepared \cup Prepared \cup Keeps \cup Clears /\ o # <<"beginOpen">>
      BY <2>4, PlansDiffer DEF Opens, Prepared
    <3> QED
      BY <1>1, <2>14, <3>1, <3>2 DEF PlanInOrder
  <2>22. OpenIsReported'
    BY <1>1, <2>6, <2>11, <2>14, <2>18 DEF OpenIsReported
  <2>23. ~WillBegin' /\ ~WillBegin
    <3>1. ~WillBegin'
      BY <2>4, <2>5, <2>10, <2>18, PlansDiffer DEF WillBegin
    <3>2. ~WillBegin
      BY <1>1, <2>11, <2>12, <2>13, <2>15 DEF WillBegin, AtWork
    <3> QED
      BY <3>1, <3>2
  <2>24. WillStart' <=> WillStart
    <3>1. WillStart' <=> Top.of # None
      BY <2>6, <2>11, <2>12, <2>16, <2>18 DEF WillStart
    <3>2. WillStart <=> Top.of # None
      BY <2>12, <2>13, <2>14 DEF WillStart
    <3> QED
      BY <3>1, <3>2
  <2>25. SomebodyLoads'
    BY <1>1, <2>14, <2>23, <2>24 DEF IInv, SomebodyLoads
  <2>26. Budget'
    BY <1>1, <2>23, <2>24 DEF IInv, Budget
  <2>27. StatusAgrees' /\ SessionLoads' /\ NeverFatal'
    BY <1>1 DEF IInv, StatusAgrees, SessionLoads, NeverFatal
  <2> QED
    BY <2>19, <2>20, <2>21, <2>22, <2>25, <2>26, <2>27 DEF IInv
<1> QED
  BY <1>3, <1>4

-----------------------------------------------------------------------------
(* The inductive invariant and what it implies. *)

LEMMA InitHolds == ConstantsAreSound /\ Init => IInv
<1> SUFFICES ASSUME ConstantsAreSound, Init PROVE IInv
  OBVIOUS
<1>1. /\ stack = <<>> /\ DOMAIN stack = {} /\ session = NoSession /\ image.status = "null"
      /\ image.loading = FALSE /\ image.error = FALSE /\ fatal = FALSE /\ lost = FALSE
      /\ opened = 0 /\ loads = 0 /\ target = 0 /\ unshown = 0 /\ snapshots = {} /\ prepared = None
  BY DEF Init
<1>2. image \in ImageStates
  BY DEF Init, ImageStates
<1>3. session \in [id : 0..opened, source : Sources \cup {None}, page : Sources \cup {None}]
  BY <1>1 DEF NoSession
<1>4. 0 \in 0..MaxLoads
  BY DEF ConstantsAreSound
<1>5. stack \in Seq(Frames)
  BY <1>1
<1>6. TypeOK
  <2>1. prepared \in Sources \cup {None} /\ snapshots \subseteq 1..opened
    BY <1>1
  <2>2. {target, unshown} \subseteq 0..opened /\ loads \in 0..MaxLoads /\ opened \in 0..MaxLoads
    BY <1>1, <1>4
  <2>3. fatal \in BOOLEAN /\ lost \in BOOLEAN
    BY <1>1
  <2> QED
    BY <1>2, <1>3, <1>5, <2>1, <2>2, <2>3 DEF TypeOK, ImageStates
<1>7. Shapes /\ PlanInOrder /\ OpenIsReported /\ ~WillBegin /\ ~WillStart
  BY <1>1 DEF Shapes, PlanInOrder, OpenIsReported, WillBegin, WillStart
<1>8. StatusAgrees /\ SessionLoads /\ SomebodyLoads /\ NeverFatal
  BY <1>1 DEF StatusAgrees, SessionLoads, SomebodyLoads, NeverFatal
<1>9. Budget
  BY <1>1, <1>7 DEF Budget
<1> QED
  BY <1>6, <1>7, <1>8, <1>9 DEF IInv

LEMMA StutterPreserves ==
  ASSUME IInv, UNCHANGED vars
  PROVE  IInv'
<1>1. UNCHANGED <<image, prepared, session, snapshots, target, unshown, loads, opened, fatal, lost,
                  stack>>
  BY DEF vars, loading, viewport, history
<1>2. Frames' = Frames
  BY <1>1 DEF Frames
<1>3. TypeOK'
  BY <1>1, <1>2 DEF IInv, TypeOK
<1>4. Shapes' /\ PlanInOrder' /\ OpenIsReported'
  BY <1>1 DEF IInv, Shapes, PlanInOrder, OpenIsReported
<1>5. StatusAgrees' /\ SessionLoads' /\ SomebodyLoads' /\ Budget' /\ NeverFatal'
  BY <1>1 DEF IInv, StatusAgrees, SessionLoads, SomebodyLoads, Budget, NeverFatal, WillBegin,
              WillStart
<1> QED
  BY <1>3, <1>4, <1>5 DEF IInv

LEMMA NextPreserves == ConstantsAreSound /\ IInv /\ [Next]_vars => IInv'
<1> SUFFICES ASSUME ConstantsAreSound, IInv, [Next]_vars PROVE IInv'
  OBVIOUS
<1>1. ASSUME NEW s \in Requests, LoadSource(s) PROVE IInv'
  BY <1>1, LoadSourcePreserves
<1>2. CASE ClearDeletedImage
  BY <1>2, ClearDeletedPreserves
<1>3. CASE FinishContainerNavigationLoadWithError
  BY <1>3, FinishContainerPreserves
<1>4. CASE CallOutReturns
  BY <1>4, ReturnsPreserve
<1>5. CASE Dispatch
  BY <1>5, ReturnsPreserve, CancelOpenPreserves, CallOutPreserves, ChangeStatePreserves,
     PreparePreserves, ClearPresentationPreserves, FinishEmptySourcePreserves DEF Dispatch
<1>6. CASE Open
  BY <1>6, OpenEmptyPreserves, BeginSourcePreserves, ReportPlanPreserves, ReturnsPreserve DEF Open
<1>7. CASE Loader
  BY <1>7, StartVideoPreserves, StartTargetPreserves, TargetStartedPreserves,
     StartOpenedCollectionPreserves, ReturnsPreserve, SourcePreparedPreserves,
     VideoProbedPreserves DEF Loader
<1>8. CASE Viewport
  BY <1>8, ViewportReadyPreserves, ViewportErrorPreserves DEF Viewport
<1>9. ASSUME NEW id \in 1..opened, Snapshots(id) PROVE IInv'
  BY <1>9, FinishCandidatesPreserves, FailOpenedPreserves, IgnoreSnapshotPreserves DEF Snapshots
<1>10. CASE UNCHANGED vars
  BY <1>10, StutterPreserves
<1> QED
  BY <1>1, <1>2, <1>3, <1>4, <1>5, <1>6, <1>7, <1>8, <1>9, <1>10 DEF Next

\* The inductive invariant holds of every behaviour of the open.
THEOREM Inductive == ASSUME ConstantsAreSound PROVE Spec => []IInv
<1>1. Init => IInv
  BY InitHolds
<1>2. IInv /\ [Next]_vars => IInv'
  BY NextPreserves
<1> QED
  BY <1>1, <1>2, PTL DEF Spec

\* What the open keeps has its types: sessions that were started, sources of the document,
\* plans made of the operations of ImageOpenWorkflow.
THEOREM TypeCorrect == ASSUME ConstantsAreSound PROVE Spec => []TypeOK
<1>1. IInv => TypeOK
  BY DEF IInv
<1> QED
  BY <1>1, Inductive, PTL

\* No part of an open, however deep it runs inside others, ends in a state that
\* finalImageOpenStateIsValid rejects, so the code does not abort.
THEOREM NoFatalState == ASSUME ConstantsAreSound PROVE Spec => []NeverFatal
<1>1. IInv => NeverFatal
  BY DEF IInv
<1> QED
  BY <1>1, Inductive, PTL

LEMMA RestIsServed == IInv => LoadingIsServed
<1> SUFFICES ASSUME IInv, stack = <<>>
             PROVE  /\ image.loading = (image.status = "loading")
                    /\ session # NoSession =>
                         image.loading /\ image.source \in {session.source, session.page}
                    /\ image.loading /\ ~lost =>
                         /\ session # NoSession
                         /\ \/ session.id \in snapshots
                            \/ unshown = session.id /\ target = session.id
  BY DEF LoadingIsServed
<1>1. DOMAIN stack = {}
  OBVIOUS
<1>2. ~WillBegin /\ ~WillStart
  BY <1>1 DEF WillBegin, WillStart
<1>3. image.loading \in BOOLEAN /\ (image.loading <=> image.status = "loading")
  BY DEF IInv, TypeOK, StatusAgrees
<1>4. session # NoSession =>
        image.status = "loading" /\ image.source \in {session.source, session.page}
  BY DEF IInv, SessionLoads
<1>5. ~lost /\ image.status = "loading" => session # NoSession
  BY <1>2 DEF IInv, SomebodyLoads
<1>6. ~lost /\ session # NoSession => \/ session.id \in snapshots
                                      \/ unshown = session.id /\ target = session.id
  BY <1>1 DEF IInv, SomebodyLoads
<1>7. image.loading = (image.status = "loading")
  BY <1>3
<1> QED
  BY <1>3, <1>4, <1>5, <1>6, <1>7

\* A document at rest that loads has a session of the selected source with an answer to come,
\* unless its load was cut off; and a session is left only while the document loads.
THEOREM RestingIsServed == ASSUME ConstantsAreSound PROVE Spec => []LoadingIsServed
<1> QED
  BY RestIsServed, Inductive, PTL

=============================================================================
