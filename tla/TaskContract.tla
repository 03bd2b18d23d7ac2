---------------------------- MODULE TaskContract ----------------------------
(***************************************************************************)
(* What a cancellable background task promises its caller, whichever       *)
(* primitive runs it: its finish callback is called at most once, never    *)
(* once it was cancelled and never once it retired; its work and result    *)
(* are held from the start to one retirement.                              *)
(***************************************************************************)
CONSTANT Tasks

VARIABLES
  outcome,  \* [Tasks -> {"absent", "pending", "delivered", "dropped"}]
  held      \* the tasks whose work, result or callback still exists

vars == <<outcome, held>>

Init ==
  /\ outcome = [t \in Tasks |-> "absent"]
  /\ held = {}

Settle(t, from, to) ==
  /\ outcome[t] = from
  /\ outcome' = [outcome EXCEPT ![t] = to]

Begin(t) == Settle(t, "absent", "pending") /\ held' = held \cup {t}

Decline(t) ==  \* run at once by the caller, or not at all
  /\ \E end \in {"delivered", "dropped"} : Settle(t, "absent", end)
  /\ held' = held

Deliver(t) == t \in held /\ Settle(t, "pending", "delivered") /\ held' = held

Drop(t) == Settle(t, "pending", "dropped") /\ held' = held

Retire(t) == t \in held /\ held' = held \ {t} /\ outcome' = outcome

Next == \E t \in Tasks : Begin(t) \/ Decline(t) \/ Deliver(t) \/ Drop(t) \/ Retire(t)

Spec == Init /\ [][Next]_vars
=============================================================================
