----------------------------- MODULE MCPlanAgent -----------------------------
(***************************************************************************)
(* PlanAgent with plans of one and two steps over two step IDs.            *)
(***************************************************************************)
EXTENDS PlanAgent

SmallPlans == {<<"a">>, <<"b", "a">>}
=============================================================================
