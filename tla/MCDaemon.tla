-------------------------------- MODULE MCDaemon --------------------------------
(* TLC instances of Daemon.  A document with two jobs, one with one job and  *)
(* one that does not load are enough for a pass to be cut between jobs, for   *)
(* a reload to change the digest and the job count, and for a reload to fail. *)
EXTENDS Daemon, TLC

CONSTANTS c1, c2, two, one, bad

MCJobCount == [d \in Docs |-> CASE d = two -> 2 [] d = one -> 1 [] OTHER -> 0]

Symmetry == Permutations(Clients)
================================================================================
