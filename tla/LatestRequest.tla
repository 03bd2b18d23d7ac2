---------------------------- MODULE LatestRequest ----------------------------
(***************************************************************************)
(* What a component that serves one request at a time promises: requests   *)
(* are admitted in the order they are made, and only the latest admitted   *)
(* one may become what the component shows, or change what is shown about  *)
(* it.  A request that was superseded is never answered afterwards.        *)
(***************************************************************************)
EXTENDS Naturals

CONSTANTS
  Requests,  \* request numbers, in the order of the calls
  Reports    \* what may be reported about the request that is shown

ConstantsAreSound == Requests \subseteq Nat \ {0}

None == 0

VARIABLES
  latest,  \* the latest admitted request, or None
  shown,   \* the request whose result is shown, or None
  report   \* what is reported about it

vars == <<latest, shown, report>>

Init ==
  /\ latest = None
  /\ shown = None
  /\ report \in Reports

Admit(r) ==
  /\ r > latest
  /\ latest' = r
  /\ UNCHANGED <<shown, report>>

Show ==
  /\ shown' = latest
  /\ report' \in Reports
  /\ UNCHANGED latest

Report ==  \* only about what is shown, and only while nothing newer was admitted
  /\ shown = latest
  /\ report' \in Reports
  /\ UNCHANGED <<latest, shown>>

Next == (\E r \in Requests : Admit(r)) \/ Show \/ Report

Spec == Init /\ [][Next]_vars
=============================================================================
