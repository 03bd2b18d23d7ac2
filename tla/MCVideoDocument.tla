--------------------------- MODULE MCVideoDocument ---------------------------
(***************************************************************************)
(* VideoDocument on small instances.                                       *)
(***************************************************************************)
EXTENDS VideoDocument

MCUrls == {"video"}
MCNoUrl == "none"

ASSUME RequestAssumption == Requested!ConstantsAreSound
=============================================================================
