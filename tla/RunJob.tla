-------------------------------- MODULE RunJob --------------------------------
(***************************************************************************)
(* One call of runJob (sync.go) against everything that moves while it is   *)
(* blocked in cmd.Run: the pass context cancelled by a shutdown, the job's  *)
(* own deadline, os/exec's watcher goroutine that signals and later kills   *)
(* the child, the child itself, and a descendant of it that keeps the       *)
(* output pipes open.  The contexts are read only after Run has returned,   *)
(* and one after the other, so every one of these can change in between.    *)
(***************************************************************************)
EXTENDS SyncPass, Integers

VARIABLES
    pc,          \* where runJob is
    parent,      \* ctx.Err() # nil
    jobErr,      \* jobCtx.Err()
    child,       \* the rsync process
    exitCode,    \* what the child exited with, once it did (-1: by a signal)
    delLimited,  \* rsync wrote its --max-delete warning on stderr
    pipesHeld,   \* a descendant of the child holds its output pipes open
    watch,       \* os/exec's watchCtx goroutine
    cancelSent,  \* runJob's wrapper saw cmd.Cancel succeed
    runErr,      \* what cmd.Run returns
    parentErr,   \* drainSignals.parentErr, as read
    outcome,     \* runJob's result, "none" until it returns
    signalledFor, \* history: jobErr when the watcher's signal was sent
    struck       \* history: it found the child running

ctxVars  == <<parent, jobErr>>
procVars == <<child, exitCode, delLimited, pipesHeld>>
execVars == <<watch, cancelSent, signalledFor, struck>>
vars     == <<pc, ctxVars, procVars, execVars, runErr, parentErr, outcome>>

rsyncSignalExit   == 20  \* rsync's own signal handlers
rsyncPartialExit  == 23  \* some files were not transferred
rsyncVanishedExit == 24  \* source files vanished; assigned after 25
rsyncDelLimitExit == 25  \* --max-delete stopped the deletions

ExitCodes == {-1, 0, rsyncSignalExit, rsyncPartialExit, rsyncVanishedExit,
              rsyncDelLimitExit}

CtxErrs == {"nil", "canceled", "deadline"}

TypeOK ==
    /\ pc \in {"source", "start", "running", "join", "pipes", "collect",
               "classify", "done"}
    /\ parent \in BOOLEAN
    /\ jobErr \in CtxErrs
    /\ child \in {"none", "alive", "zombie", "reaped"}
    /\ exitCode \in ExitCodes
    /\ delLimited \in BOOLEAN
    /\ pipesHeld \in BOOLEAN
    /\ watch \in {"idle", "sent", "unsent", "procdone", "killed", "stopped"}
    /\ cancelSent \in BOOLEAN
    /\ runErr \in {"nil", "exec", "exit", "canceled", "deadline", "canceling",
                   "waitdelay"}
    /\ parentErr \in BOOLEAN
    /\ outcome \in JobOutcomes \cup {"none"}
    /\ signalledFor \in CtxErrs
    /\ struck \in BOOLEAN

Init ==
    /\ pc = "source" /\ parent = FALSE /\ jobErr = "nil"
    /\ child = "none" /\ exitCode = 0 /\ delLimited = FALSE /\ pipesHeld = FALSE
    /\ watch = "idle" /\ cancelSent = FALSE /\ signalledFor = "nil"
    /\ struck = FALSE
    /\ runErr = "nil" /\ parentErr = FALSE /\ outcome = "none"

-------------------------------------------------------------------------------
\* The contexts.

\* SIGTERM: the pass context is cancelled.
Shutdown ==
    /\ ~parent
    /\ parent' = TRUE
    /\ UNCHANGED <<pc, jobErr, procVars, execVars, runErr, parentErr, outcome>>

\* The parent's cancellation reaches the job context a moment later.
Propagate ==
    /\ parent /\ jobErr = "nil" /\ pc \notin {"source", "done"}
    /\ jobErr' = "canceled"
    /\ UNCHANGED <<pc, parent, procVars, execVars, runErr, parentErr, outcome>>

\* A job context with no deadline of its own.
NeverFires == FALSE /\ UNCHANGED vars

\* context.WithTimeout's timer: whichever cause comes first stays.
DeadlineFires ==
    /\ jobErr = "nil" /\ pc \notin {"source", "done"}
    /\ jobErr' = "deadline"
    /\ UNCHANGED <<pc, parent, procVars, execVars, runErr, parentErr, outcome>>

-------------------------------------------------------------------------------
\* runJob up to cmd.Run.

\* What sourceIsEmpty finds: a directory it cannot read, nothing but globally
\* excluded entries, or something to mirror.
SourceStates == {"unreadable", "empty", "mirrorable"}

\* An unreadable source fails the job, an empty one is skipped.  Otherwise
\* context.WithTimeout derives the job context.
CheckSource ==
    /\ pc = "source"
    /\ \E source \in SourceStates :
         IF source = "mirrorable"
           THEN /\ pc' = "start" /\ UNCHANGED outcome
                /\ jobErr' = IF parent THEN "canceled" ELSE "nil"
           ELSE /\ pc' = "done" /\ UNCHANGED jobErr
                /\ outcome' = IF source = "empty" THEN "skipped" ELSE "failed"
    /\ UNCHANGED <<parent, procVars, execVars, runErr, parentErr>>

\* cmd.Start refuses a context that is already done.
StartRefused ==
    /\ pc = "start" /\ jobErr # "nil"
    /\ runErr' = jobErr
    /\ pc' = "collect"
    /\ UNCHANGED <<ctxVars, procVars, execVars, parentErr, outcome>>

\* The exec itself fails: no child.
StartFails ==
    /\ pc = "start" /\ jobErr = "nil"
    /\ runErr' = "exec"
    /\ pc' = "collect"
    /\ UNCHANGED <<ctxVars, procVars, execVars, parentErr, outcome>>

StartChild ==
    /\ pc = "start" /\ jobErr = "nil"
    /\ child' = "alive"
    /\ pc' = "running"
    /\ UNCHANGED <<ctxVars, exitCode, delLimited, pipesHeld, execVars, runErr,
                   parentErr, outcome>>

-------------------------------------------------------------------------------
\* The child and os/exec's watcher (external to the repository).

\* rsync ends on its own, by our signal or by somebody else's, in any order
\* with the rest.  A deletion stopped by --max-delete is always on stderr and
\* never exits 0; 24 overwrites 25, and 23 overwrites both.
ChildExits ==
    /\ child = "alive"
    /\ child' = "zombie"
    /\ delLimited' \in BOOLEAN
    /\ exitCode' \in IF delLimited' THEN ExitCodes \ {0}
                                    ELSE ExitCodes \ {rsyncDelLimitExit}
    /\ pipesHeld' \in BOOLEAN
    /\ UNCHANGED <<pc, ctxVars, execVars, runErr, parentErr, outcome>>

\* watchCtx sees the job context done and calls runJob's cmd.Cancel wrapper.
\* A child not yet reaped takes the signal (a zombie too), and cancelSent is
\* stored; a reaped one answers ErrProcessDone; kill(2) may fail as well.
WatchCancels ==
    /\ watch = "idle" /\ jobErr # "nil"
    /\ child \in {"alive", "zombie", "reaped"}
    /\ pc \in {"running", "join"}
    /\ \/ /\ child # "reaped" /\ watch' = "sent" /\ cancelSent' = TRUE
          /\ signalledFor' = jobErr /\ struck' = (child = "alive")
       \/ /\ watch' = IF child = "reaped" THEN "procdone" ELSE "unsent"
          /\ UNCHANGED <<cancelSent, signalledFor, struck>>
    /\ UNCHANGED <<pc, ctxVars, procVars, runErr, parentErr, outcome>>

\* A killed child reported the way a shell would.
KilledAs137 ==
    /\ watch \in {"sent", "unsent"} /\ child \in {"alive", "zombie"}
    /\ watch' = "killed"
    /\ child' = "zombie"
    /\ exitCode' = IF child = "alive" THEN 137 ELSE exitCode
    /\ pipesHeld' = FALSE
    /\ UNCHANGED <<pc, ctxVars, delLimited, cancelSent, signalledFor, struck,
                   runErr, parentErr, outcome>>

\* The grace period ends before the child was reaped: SIGKILL, and the pipes
\* are closed under whoever still holds them.
GraceExpires ==
    /\ watch \in {"sent", "unsent"} /\ child \in {"alive", "zombie"}
    /\ watch' = "killed"
    /\ child' = "zombie"
    /\ exitCode' = IF child = "alive" THEN -1 ELSE exitCode
    /\ pipesHeld' = FALSE
    /\ UNCHANGED <<pc, ctxVars, delLimited, cancelSent, signalledFor, struck,
                   runErr, parentErr, outcome>>

\* Process.Wait returns in cmd.Wait.
Reap ==
    /\ pc = "running" /\ child = "zombie"
    /\ child' = "reaped"
    /\ pc' = "join"
    /\ UNCHANGED <<ctxVars, exitCode, delLimited, pipesHeld, execVars, runErr,
                   parentErr, outcome>>

\* cmd.Wait receives the watcher's result: the child's own status is
\* preferred; a context error, or the failed signal, replaces only a clean exit.
Join ==
    /\ pc = "join"
    /\ watch' = IF watch = "idle" THEN "stopped" ELSE watch
    /\ runErr' = IF exitCode # 0 THEN "exit"
                 ELSE IF cancelSent THEN signalledFor
                 ELSE IF watch \in {"unsent", "killed"} THEN "canceling"
                 ELSE "nil"
    /\ pc' = "pipes"
    /\ UNCHANGED <<ctxVars, procVars, cancelSent, signalledFor, struck, parentErr,
                   outcome>>

\* The copying goroutines have seen the end of both streams.
PipesDrained ==
    /\ pc = "pipes" /\ ~pipesHeld
    /\ pc' = "collect"
    /\ UNCHANGED <<ctxVars, procVars, execVars, runErr, parentErr, outcome>>

\* The descendant that held the pipes goes away by itself.
DescendantExits ==
    /\ pipesHeld
    /\ pipesHeld' = FALSE
    /\ UNCHANGED <<pc, ctxVars, child, exitCode, delLimited, execVars, runErr,
                   parentErr, outcome>>

\* It does not: WaitDelay closes the pipes, and a clean exit becomes
\* exec.ErrWaitDelay.
WaitDelayExpires ==
    /\ pc = "pipes" /\ pipesHeld
    /\ pipesHeld' = FALSE
    /\ runErr' = IF runErr = "nil" THEN "waitdelay" ELSE runErr
    /\ pc' = "collect"
    /\ UNCHANGED <<ctxVars, child, exitCode, delLimited, execVars, parentErr,
                   outcome>>

-------------------------------------------------------------------------------
\* runJob after cmd.Run.

\* Any clean Run is a success before a context is looked at; otherwise the
\* parent context is the first one read into drainSignals.
Collect ==
    /\ pc = "collect"
    /\ IF runErr = "nil"
         THEN /\ pc' = "done" /\ outcome' = "success" /\ UNCHANGED parentErr
         ELSE /\ pc' = "classify" /\ parentErr' = parent /\ UNCHANGED outcome
    /\ UNCHANGED <<ctxVars, procVars, execVars, runErr>>

HasStatus == child = "reaped"  \* cmd.ProcessState # nil

\* A drain test that forgets the deadline.
DrainOnAnySignal ==
    IF HasStatus
      THEN /\ exitCode < 0 \/ exitCode = rsyncSignalExit
           /\ cancelSent
      ELSE runErr = "canceled"

\* A drain test that trusts the signal alone.
DrainOnCancelSent ==
    /\ jobErr # "deadline" /\ parentErr
    /\ IF HasStatus THEN cancelSent ELSE runErr = "canceled"

interruptedByShutdown ==
    /\ jobErr # "deadline" /\ parentErr
    /\ IF HasStatus
         THEN /\ exitCode < 0 \/ exitCode = rsyncSignalExit
              /\ cancelSent
         ELSE runErr = "canceled"

\* Exit 0 counts only when nothing else went wrong with the run.
CompletedOnlyIfSignalFree ==
    /\ HasStatus /\ ~cancelSent
    /\ exitCode = 0 \/ (exitCode = rsyncVanishedExit /\ ~delLimited)

\* Every exit 24 is vanished files.
CompletedOnAny24 == HasStatus /\ exitCode \in {0, rsyncVanishedExit}

\* The child's report that stands whatever the contexts say: a clean exit, or
\* vanished source files with no --max-delete warning.
Completed ==
    /\ HasStatus
    /\ exitCode = 0 \/ (exitCode = rsyncVanishedExit /\ ~delLimited)

\* The rest of drainSignals is read and the outcome decided.
Classify ==
    /\ pc = "classify"
    /\ outcome' = CASE Completed -> "success"
                    [] ~Completed /\ interruptedByShutdown -> "interrupted"
                    [] OTHER -> "failed"
    /\ pc' = "done"
    /\ UNCHANGED <<ctxVars, procVars, execVars, runErr, parentErr>>

Done == pc = "done" /\ UNCHANGED vars

-------------------------------------------------------------------------------
Step == CheckSource \/ StartRefused \/ StartFails \/ StartChild \/ Collect
        \/ Classify

Exec == WatchCancels \/ GraceExpires \/ Reap \/ Join \/ PipesDrained
        \/ WaitDelayExpires

Environment == Shutdown \/ ChildExits \/ DescendantExits

Next == Step \/ Exec \/ Environment \/ Propagate \/ DeadlineFires \/ Done

Safe == Init /\ [][Next]_vars

\* The code's own steps, os/exec's goroutines and both timers go on; neither
\* the child nor the descendant is assumed to exit.
Spec == /\ Safe
        /\ WF_vars(Step) /\ WF_vars(DeadlineFires)
        /\ WF_vars(WatchCancels) /\ WF_vars(GraceExpires)
        /\ WF_vars(Reap) /\ WF_vars(Join)
        /\ WF_vars(PipesDrained \/ WaitDelayExpires)

-------------------------------------------------------------------------------
\* Properties.

\* A job counts as interrupted only when this app itself stopped it for the
\* shutdown: the watcher's signal was sent for the parent's cancellation and
\* never for the deadline, and the child reported a signal, or no child was
\* started.  (interruptedByShutdown, sync.go: "positive evidence that this app
\* signalled it".)
DrainNeedsOwnSignal ==
    outcome = "interrupted" =>
        /\ parent
        /\ \/ child = "none" /\ runErr = "canceled"
           \/ /\ signalledFor = "canceled"
              /\ exitCode \in {-1, rsyncSignalExit}

\* A shutdown never hides the child's own failure: partial transfer (23) and
\* capped deletions (25) fail the job in every race.
FailureSurvivesShutdown ==
    HasStatus /\ exitCode \in {rsyncPartialExit, rsyncDelLimitExit} =>
        outcome \in {"none", "failed"}

\* Deletions that --max-delete stopped are never reported as a success, even
\* when vanished files turned the status into 24.
CappedDeletionNeverSucceeds ==
    delLimited => outcome # "success"

\* A transfer that completed is reported as such, however late a signal, the
\* deadline or the pipe timeout landed on top of it.
CompletedTransferKept ==
    outcome # "none" /\ HasStatus /\ exitCode = 0 => outcome = "success"

Contract == INSTANCE JobContract WITH cancelled <- parent

\* runJob keeps the contract the daemon builds on.  It ends with an outcome the
\* contract allows, and it does end, although rsync may ignore SIGTERM and a
\* descendant may hold the pipes: SYNC_TIMEOUT, the grace period and WaitDelay
\* bound it.
ImplementsContract == Contract!Spec

\* What sync.go says of the deadline ("a job deadline is always a failure"): a
\* job the app signalled because its deadline had passed, while its child was
\* still running, ends as failed.
DeadlineIsFailure ==
    struck /\ signalledFor = "deadline" => outcome \in {"none", "failed"}
===============================================================================
