---------------------------- MODULE MCStreamCapture ----------------------------
(* TLC instance of StreamCapture: one byte of each kind the code tells apart,  *)
(* a two-byte warning, a cap of four and a tail of two, so that a stream of    *)
(* seven can evict the warning, split it between chunks and be overrun by one. *)
EXTENDS StreamCapture

CONSTANTS nl, d, x, cont

MCWarn == <<d, x>>
================================================================================
