----------------------------- MODULE MCHealthLease -----------------------------
(* TLC instances of HealthLease: documents of up to two jobs, so that an edit  *)
(* can take a job away under a running pass, jobs that outlast the interval,   *)
(* and two overruns that together exceed what the lease has to spare.          *)
EXTENDS HealthLease
================================================================================
