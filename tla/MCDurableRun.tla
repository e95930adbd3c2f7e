---------------------------- MODULE MCDurableRun -----------------------------
(***************************************************************************)
(* DurableRun with small sets of plans.                                    *)
(***************************************************************************)
EXTENDS DurableRun

OneStep       == {<<"a">>}
TwoSteps      == {<<"a", "b">>}
OneOrTwoSteps == {<<"a">>, <<"a", "b">>}
=============================================================================
