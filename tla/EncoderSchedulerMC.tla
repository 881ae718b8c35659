------------------------- MODULE EncoderSchedulerMC -------------------------
(***************************************************************************)
(* EncoderScheduler for TLC, in the run that also evaluates the bounded    *)
(* checks of the modules without state.                                    *)
(***************************************************************************)
EXTENDS EncoderScheduler, OperatorChecks
=============================================================================
