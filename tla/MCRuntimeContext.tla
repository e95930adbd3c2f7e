--------------------------- MODULE MCRuntimeContext --------------------------
(***************************************************************************)
(* RuntimeContext with observation-class calls that succeed.               *)
(***************************************************************************)
EXTENDS RuntimeContext

Observed == [kind |-> "observation", failed |-> FALSE]

ObservedOnly == {Observed}
=============================================================================
