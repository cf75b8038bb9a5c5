-------------------------------- MODULE CliMC --------------------------------
(* The plans and calls of PlanRunMC, as commands. *)
EXTENDS Cli, PlanRunMC
=============================================================================
