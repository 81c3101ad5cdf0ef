------------------------------- MODULE SyncPass -------------------------------
(***************************************************************************)
(* The vocabulary the job, the pass and the daemon share: what runJob may   *)
(* return (jobResult), what runPass accumulates (passResult), and the two   *)
(* verdicts every later decision is derived from, healthy and vouchable.    *)
(***************************************************************************)
EXTENDS Naturals

\* The three flags of a jobResult read in the order of runPass's switch:
\* skipped, success, interrupted, and none of them (a failed job).
JobOutcomes == {"skipped", "success", "interrupted", "failed"}

\* What runJob promises its caller about a context that has been cancelled or
\* not: only a shutdown can make a job count as interrupted.
AllowedOutcomes(cancelled) ==
    IF cancelled THEN JobOutcomes ELSE JobOutcomes \ {"interrupted"}

PassResults == [total: Nat, ok: Nat, emptySkipped: Nat, failed: Nat,
                interrupted: BOOLEAN]

NewPass(total) == [total |-> total, ok |-> 0, emptySkipped |-> 0,
                   failed |-> 0, interrupted |-> FALSE]

\* A tally that keeps only the last job's failure.
TallyLastJob(p, outcome) ==
    [p EXCEPT !.ok = IF outcome \in {"skipped", "success"} THEN @ + 1 ELSE @,
              !.emptySkipped = IF outcome = "skipped" THEN @ + 1 ELSE @,
              !.failed = IF outcome = "failed" THEN 1 ELSE 0,
              !.interrupted = @ \/ outcome = "interrupted"]

\* One turn of runPass's loop body, after runJob returned.
Tally(p, outcome) ==
    [p EXCEPT !.ok = IF outcome \in {"skipped", "success"} THEN @ + 1 ELSE @,
              !.emptySkipped = IF outcome = "skipped" THEN @ + 1 ELSE @,
              !.failed = IF outcome = "failed" THEN @ + 1 ELSE @,
              !.interrupted = @ \/ outcome = "interrupted"]

\* The loop's other exit: the context is done before the next job starts.
CutShort(p) == [p EXCEPT !.interrupted = TRUE]

healthy(p) == p.failed = 0

\* A pass that publishes whatever it saw, cut short or not.
VouchAlways(p) == TRUE

vouchable(p) == ~p.interrupted \/ p.failed > 0
===============================================================================
