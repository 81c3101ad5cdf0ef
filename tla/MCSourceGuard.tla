------------------------------ MODULE MCSourceGuard ------------------------------
(* TLC instance of SourceGuard: two entries and two excluded names read one at  *)
(* a time, so that the excluded ones can come first, with every cap below,      *)
(* at and above what can be lost.                                               *)
EXTENDS SourceGuard
==================================================================================
