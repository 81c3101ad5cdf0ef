------------------------------ MODULE JobContract ------------------------------
(***************************************************************************)
(* What runJob promises runPass, and all the daemon's model relies on: the  *)
(* job ends, it ends once, and it counts as interrupted only when the       *)
(* context it was given had been cancelled by then.  RunJob implements it;  *)
(* Daemon's JobEnd takes exactly the steps it allows.                       *)
(***************************************************************************)
EXTENDS SyncPass

VARIABLES cancelled,  \* the pass context is done (shutdown)
          outcome     \* "none" while the job runs

vars == <<cancelled, outcome>>

Init == cancelled = FALSE /\ outcome = "none"

Cancel == cancelled' = TRUE /\ UNCHANGED outcome

End == /\ outcome = "none"
       /\ outcome' \in AllowedOutcomes(cancelled)
       /\ UNCHANGED cancelled

Next == Cancel \/ End

Safe == Init /\ [][Next]_vars

Spec == Safe /\ WF_vars(End)
===============================================================================
