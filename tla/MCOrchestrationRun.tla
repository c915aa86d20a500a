------------------------ MODULE MCOrchestrationRun ------------------------
(***************************************************************************)
(* Small plans for OrchestrationRun: two waits, a pause, an approval.      *)
(***************************************************************************)
EXTENDS OrchestrationRun

MCPlans == {<<"delay", "delay">>, <<"human", "effect">>, <<"approval">>}
=============================================================================
