--------------------------- MODULE MCThumbnailWork ---------------------------
(* Two rows in two qualities share one or two places.                        *)
EXTENDS ThumbnailWork

AllDemands == Demands
SmallDemands == {d \in Demands : d.bucket = 1 \/ d.priority = "visible"}
OneDemand == {[bucket |-> 1, priority |-> "visible"]}
=============================================================================
