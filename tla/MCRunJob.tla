-------------------------------- MODULE MCRunJob --------------------------------
(* TLC instance of RunJob: the module has no constants, so every race of one *)
(* job is covered without a bound.                                           *)
EXTENDS RunJob
================================================================================
