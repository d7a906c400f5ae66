----------------------------- MODULE MCCa02mFB -----------------------------
(***************************************************************************)
(* The function block alone, on a pulse of three cycles instead of 100.    *)
(***************************************************************************)
EXTENDS Ca02mFB

AllLampInputs == SUBSET Outputs
=============================================================================
