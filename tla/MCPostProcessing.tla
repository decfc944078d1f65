--------------------------- MODULE MCPostProcessing ---------------------------
(* The addresses are in a module without variables: TLC computes its       *)
(* constants once.                                                         *)
EXTENDS PostProcessing, MCGazetteer
=============================================================================
