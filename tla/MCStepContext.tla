---------------------------- MODULE MCStepContext ----------------------------
(***************************************************************************)
(* StepContext with observation-class calls that succeed or fail, and      *)
(* listings, which are shown for one round only.                           *)
(***************************************************************************)
EXTENDS StepContext

Drafted == [kind : {"observation", "current_raw"}, failed : BOOLEAN]
Places  == 1 .. MaxBatch
=============================================================================
