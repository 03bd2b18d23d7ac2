-------------------------- MODULE MCRefinementQueue --------------------------
(* Two executions of two threads, or three of one.                           *)
EXTENDS RefinementQueue, TLC

CONSTANTS o1, o2

OneHome == [t \in Tasks |-> o1]
EachItsHome == LET t == CHOOSE t \in Tasks : TRUE IN [u \in Tasks |-> IF u = t THEN o1 ELSE o2]
AnyTask == Permutations(Tasks)
=============================================================================
