------------------------------ MODULE MCSyncClient ------------------------------
(* TLC instance of SyncClient: one invocation and the ticker for one place in  *)
(* the queue, so that a request is refused, waits behind another, runs first   *)
(* and is cut short.                                                           *)
EXTENDS SyncClient

CONSTANTS c1
================================================================================
