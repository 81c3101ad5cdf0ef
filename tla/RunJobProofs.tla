----------------------------- MODULE RunJobProofs -----------------------------
(***************************************************************************)
(* RunJob has no constants, so TLC already covers it; what is proved here   *)
(* does not depend on TLC's enumeration and gives the reason: the one       *)
(* inductive invariant behind all four safety properties and behind the     *)
(* refinement of JobContract.                                               *)
(***************************************************************************)
EXTENDS RunJob, TLAPS

\* Where the child is in each phase of runJob, and when the outcome exists.
Phases ==
    /\ pc \in {"source", "start"} => child = "none"
    /\ pc = "running" => child \in {"alive", "zombie"}
    /\ pc \in {"join", "pipes"} => child = "reaped"
    /\ pc \in {"collect", "classify", "done"} => child \in {"none", "reaped"}
    /\ outcome = "none" <=> pc # "done"

\* The cause of a job context that is done never changes, so it is still the
\* cause the watcher signalled for.
Causes ==
    /\ cancelSent => signalledFor = jobErr /\ jobErr # "nil"
    /\ jobErr = "canceled" => parent
    /\ parentErr => parent
    /\ child = "none" => ~cancelSent

\* What the child's status says about cmd.Run's error and about stderr.
Status ==
    /\ delLimited => child \in {"zombie", "reaped"} /\ exitCode # 0
    /\ pc \in {"pipes", "collect", "classify"} /\ HasStatus /\ exitCode # 0
         => runErr = "exit"
    /\ pc \in {"collect", "classify"} /\ child = "none" => runErr # "nil"

SafetyProps ==
    /\ DrainNeedsOwnSignal
    /\ FailureSurvivesShutdown
    /\ CappedDeletionNeverSucceeds
    /\ CompletedTransferKept

IInv == TypeOK /\ Phases /\ Causes /\ Status /\ SafetyProps

USE DEF rsyncSignalExit, rsyncPartialExit, rsyncVanishedExit, rsyncDelLimitExit,
        ExitCodes, CtxErrs, JobOutcomes, HasStatus

\* The invariant holds when runJob is called.
LEMMA InitIInv == Init => IInv
  BY DEF Init, IInv, TypeOK, Phases, Causes, Status, SafetyProps,
         DrainNeedsOwnSignal, FailureSurvivesShutdown,
         CappedDeletionNeverSucceeds, CompletedTransferKept

\* Every step of runJob, of os/exec, of the child and of the contexts keeps it.
LEMMA StepIInv == IInv /\ [Next]_vars => IInv'
<1> SUFFICES ASSUME IInv, [Next]_vars PROVE IInv'
  OBVIOUS
<1> USE DEF IInv, TypeOK, Phases, Causes, Status, SafetyProps,
            DrainNeedsOwnSignal, FailureSurvivesShutdown,
            CappedDeletionNeverSucceeds, CompletedTransferKept,
            ctxVars, procVars, execVars
<1>1. CASE Shutdown
  BY <1>1 DEF Shutdown
<1>2. CASE Propagate
  BY <1>2 DEF Propagate
<1>3. CASE DeadlineFires
  BY <1>3 DEF DeadlineFires
<1>4. CASE CheckSource
  BY <1>4 DEF CheckSource, SourceStates
<1>5. CASE StartRefused
  BY <1>5 DEF StartRefused
<1>6. CASE StartFails
  BY <1>6 DEF StartFails
<1>7. CASE StartChild
  BY <1>7 DEF StartChild
<1>8. CASE ChildExits
  <2>1. /\ child = "alive" /\ child' = "zombie"
        /\ delLimited' \in BOOLEAN /\ pipesHeld' \in BOOLEAN
        /\ exitCode' \in ExitCodes
        /\ delLimited' => exitCode' # 0
        /\ UNCHANGED <<pc, ctxVars, execVars, runErr, parentErr, outcome>>
    BY <1>8 DEF ChildExits
  <2> QED
    BY <2>1
<1>9. CASE WatchCancels
  <2>1. /\ jobErr # "nil" /\ child # "none" /\ pc \in {"running", "join"}
        /\ UNCHANGED <<pc, ctxVars, procVars, runErr, parentErr, outcome>>
    BY <1>9 DEF WatchCancels
  <2>2. CASE /\ watch' \in {"procdone", "unsent"}
             /\ UNCHANGED <<cancelSent, signalledFor, struck>>
    BY <2>1, <2>2
  <2>3. CASE /\ watch' = "sent" /\ cancelSent' = TRUE /\ signalledFor' = jobErr
             /\ struck' \in BOOLEAN
    BY <2>1, <2>3
  <2> QED
    BY <1>9, <2>2, <2>3 DEF WatchCancels
<1>10. CASE GraceExpires
  <2>1. /\ child \in {"alive", "zombie"}
        /\ watch' = "killed" /\ child' = "zombie" /\ pipesHeld' \in BOOLEAN
        /\ exitCode' \in ExitCodes
        /\ delLimited => exitCode' # 0
        /\ UNCHANGED <<pc, ctxVars, delLimited, cancelSent, signalledFor, struck,
                       runErr, parentErr, outcome>>
    BY <1>10 DEF GraceExpires
  <2> QED
    BY <2>1
<1>11. CASE Reap
  BY <1>11 DEF Reap
<1>12. CASE Join
  BY <1>12 DEF Join
<1>13. CASE PipesDrained
  BY <1>13 DEF PipesDrained
<1>14. CASE DescendantExits
  <2>1. /\ pipesHeld' \in BOOLEAN
        /\ UNCHANGED <<pc, ctxVars, child, exitCode, delLimited, execVars,
                       runErr, parentErr, outcome>>
    BY <1>14 DEF DescendantExits
  <2> QED
    BY <2>1
<1>15. CASE WaitDelayExpires
  <2>1. /\ pc = "pipes" /\ pc' = "collect" /\ pipesHeld' \in BOOLEAN
        /\ runErr' = IF runErr = "nil" THEN "waitdelay" ELSE runErr
        /\ UNCHANGED <<ctxVars, child, exitCode, delLimited, execVars,
                       parentErr, outcome>>
    BY <1>15 DEF WaitDelayExpires
  <2> QED
    BY <2>1
<1>16. CASE Collect
  BY <1>16 DEF Collect
<1>17. CASE Classify
  BY <1>17 DEF Classify, Completed, interruptedByShutdown
<1>18. CASE Done \/ UNCHANGED vars
  BY <1>18 DEF Done, vars
<1> QED
  BY <1>1, <1>2, <1>3, <1>4, <1>5, <1>6, <1>7, <1>8, <1>9, <1>10, <1>11, <1>12,
     <1>13, <1>14, <1>15, <1>16, <1>17, <1>18
     DEF Next, Step, Exec, Environment

\* The inductive invariant holds throughout every run of a job.
THEOREM Invariance == Safe => []IInv
<1>1. Init => IInv
  BY InitIInv
<1>2. IInv /\ [Next]_vars => IInv'
  BY StepIInv
<1> QED
  BY <1>1, <1>2, PTL DEF Safe

\* Every variable of a job keeps its type (runJob, sync.go).
THEOREM TypeCorrect == Safe => []TypeOK
<1>1. IInv => TypeOK
  BY DEF IInv
<1> QED
  BY <1>1, Invariance, PTL

\* runJob counts a job as interrupted only when its own signal, sent for the
\* shutdown, ended the child, or no child was started.
THEOREM DrainProved == Safe => []DrainNeedsOwnSignal
<1>1. IInv => DrainNeedsOwnSignal
  BY DEF IInv, SafetyProps
<1> QED
  BY <1>1, Invariance, PTL

\* A shutdown hides no failure the child reported: exit 23 and 25 fail the job
\* wherever the cancellation, the signal and the exit fall.
THEOREM FailureProved == Safe => []FailureSurvivesShutdown
<1>1. IInv => FailureSurvivesShutdown
  BY DEF IInv, SafetyProps
<1> QED
  BY <1>1, Invariance, PTL

\* runJob never reports a deletion that --max-delete stopped as a success, not
\* even under the exit 24 of vanished files.
THEOREM CappedProved == Safe => []CappedDeletionNeverSucceeds
<1>1. IInv => CappedDeletionNeverSucceeds
  BY DEF IInv, SafetyProps
<1> QED
  BY <1>1, Invariance, PTL

\* A transfer that exited 0 is reported as a success whatever the deadline, the
\* signal and WaitDelay did after it.
THEOREM CompletedProved == Safe => []CompletedTransferKept
<1>1. IInv => CompletedTransferKept
  BY DEF IInv, SafetyProps
<1> QED
  BY <1>1, Invariance, PTL

\* runJob implements the safety part of the contract Daemon builds on: every
\* step is a cancellation, the one end of the job with an outcome the contract
\* allows, or invisible.
THEOREM Refinement == Safe => Contract!Safe
<1>1. Init => Contract!Init
  BY DEF Init, Contract!Init
<1>2. IInv /\ [Next]_vars => [Contract!Next]_(Contract!vars)
  <2> SUFFICES ASSUME IInv, [Next]_vars
               PROVE  [Contract!Next]_(Contract!vars)
    OBVIOUS
  <2> USE DEF Contract!Next, Contract!vars, Contract!Cancel, Contract!End,
              Contract!AllowedOutcomes, Contract!JobOutcomes, IInv, TypeOK,
              ctxVars, procVars, execVars
  <2>1. CASE Shutdown
    BY <2>1 DEF Shutdown
  <2>2. CASE CheckSource
    BY <2>2 DEF CheckSource, SourceStates, Phases
  <2>3. CASE Collect
    BY <2>3 DEF Collect, Phases
  <2>4. CASE Classify
    BY <2>4 DEF Classify, Phases, Causes, Completed, interruptedByShutdown
  <2>5. CASE Propagate \/ DeadlineFires \/ StartRefused \/ StartFails
             \/ StartChild \/ ChildExits \/ DescendantExits
    BY <2>5 DEF Propagate, DeadlineFires, StartRefused, StartFails, StartChild,
                ChildExits, DescendantExits
  <2>6. CASE Exec
    BY <2>6 DEF Exec, WatchCancels, GraceExpires, Reap, Join, PipesDrained,
                WaitDelayExpires
  <2>7. CASE Done \/ UNCHANGED vars
    BY <2>7 DEF Done, vars
  <2> QED
    BY <2>1, <2>2, <2>3, <2>4, <2>5, <2>6, <2>7 DEF Next, Step, Environment
<1> QED
  BY <1>1, <1>2, Invariance, PTL DEF Safe, Contract!Safe
===============================================================================
