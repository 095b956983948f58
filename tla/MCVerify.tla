------------------------------ MODULE MCVerify ------------------------------
(***************************************************************************)
(* VerifyPipeline over two pieces of evidence the pipeline gathers and one *)
(* that only a target of its own does.                                     *)
(***************************************************************************)
EXTENDS VerifyPipeline

MCSteps == <<"differential", "fuzz">>
=============================================================================
