----------------------------- MODULE MCPredecode -----------------------------
(* Three calls over three pages build up momentum; two calls over four pages *)
(* scrub by a jump, and the page list changes in between.                    *)
EXTENDS PredecodeScheduler
=============================================================================
