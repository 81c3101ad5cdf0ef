------------------------------ MODULE PassServer ------------------------------
(***************************************************************************)
(* What the daemon promises whoever asks it for a pass, ticker or client:   *)
(* a bounded number of requests wait in the order of their acceptance, one  *)
(* pass runs at a time, an accepted request is run once or cancelled before *)
(* it starts, and has exactly one answer, its own.  Only the death of the   *)
(* process loses one.  Daemon implements it; SyncClient is built on it.     *)
(***************************************************************************)
EXTENDS Naturals, Sequences

CONSTANTS Requesters, Capacity, Nobody

VARIABLES line,     \* requesters whose request waits, oldest first
          running,  \* the requester whose pass runs, or Nobody
          answer    \* each requester's answer, "none" before and after

vars == <<line, running, answer>>

PassAnswers == {"ok", "caveat", "failed", "reload"}

Waits(r) == \E k \in 1..Len(line) : line[k] = r

Init == line = <<>> /\ running = Nobody /\ answer = [r \in Requesters |-> "none"]

Accept(r) ==
    /\ Len(line) < Capacity
    /\ ~Waits(r) /\ running # r /\ answer[r] = "none"
    /\ line' = Append(line, r)
    /\ UNCHANGED <<running, answer>>

Begin ==
    /\ line # <<>> /\ running = Nobody
    /\ line' = Tail(line) /\ running' = Head(line)
    /\ UNCHANGED answer

Cancel ==
    /\ line # <<>> /\ running = Nobody
    /\ line' = Tail(line)
    /\ answer' = [answer EXCEPT ![Head(line)] = "cancelled"]
    /\ UNCHANGED running

Answer(a) ==
    /\ running # Nobody
    /\ answer' = [answer EXCEPT ![running] = a] /\ running' = Nobody
    /\ UNCHANGED line

Take(r) ==
    /\ answer[r] # "none"
    /\ answer' = [answer EXCEPT ![r] = "none"]
    /\ UNCHANGED <<line, running>>

Lose == line' = <<>> /\ running' = Nobody /\ answer' = [r \in Requesters |-> "none"]

Next == \/ \E r \in Requesters : Accept(r) \/ Take(r)
        \/ Begin \/ Cancel \/ (\E a \in PassAnswers : Answer(a))
        \/ Lose

Safe == Init /\ [][Next]_vars

Spec == /\ Safe
        /\ WF_vars(Begin \/ Cancel)
        /\ WF_vars(\E a \in PassAnswers : Answer(a))
        /\ \A r \in Requesters : WF_vars(Take(r))
===============================================================================
