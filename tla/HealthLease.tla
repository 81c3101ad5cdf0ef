----------------------------- MODULE HealthLease -----------------------------
(***************************************************************************)
(* The healthcheck's freshness deadline (health.go, probeOptions) against   *)
(* the time the daemon takes between two writes of the marker: one tick per *)
(* interval, passes queued in front of it, jobs that use up their timeout,  *)
(* a config edited under a running pass, and an executor that hangs.        *)
(* Time advances in units while nothing that is due is left undone.         *)
(***************************************************************************)
EXTENDS Integers, Sequences

CONSTANTS Interval,      \* SYNC_INTERVAL
          SyncTimeout,   \* SYNC_TIMEOUT as parsed
          defaultSyncTimeout,
          Overrun,       \* the most a job needs on top: grace period and pipe delay
          MaxJobs,       \* bound: jobs of a document
          QueueCapacity  \* queueCapacity

ASSUME LeaseAssumption ==
    /\ Interval \in Nat \ {0} /\ Overrun \in Nat
    /\ SyncTimeout \in Int /\ defaultSyncTimeout \in Nat \ {0}
    /\ MaxJobs \in Nat \ {0} /\ QueueCapacity \in Nat \ {0}

Unreadable == MaxJobs + 1

\* loadSyncTimeout, for the daemon and for the probe: never zero or negative.
Timeout == IF SyncTimeout <= 0 THEN defaultSyncTimeout ELSE SyncTimeout

VARIABLES
    scheduleEnabled, \* built-in or external mode
    doc,             \* jobs of config.yaml; 0 parses but does not validate
    marker, age,     \* the marker file and the time since it was written
    ticker, timer,   \* RunLoop: sleeping with the time left, or in tick
    queue,           \* waiting passes: "tick" or "trigger"
    cur,             \* the pass the executor runs, "none" between two
    total, left,     \* its jobs, and those not yet ended
    elapsed,         \* time the current job has used
    failed,          \* a job of the pass failed
    hung,            \* the executor is stuck in a job
    over             \* history: time the pass's jobs took beyond their timeouts

passVars == <<cur, total, left, elapsed, failed, over>>
tickVars == <<ticker, timer>>
vars == <<scheduleEnabled, doc, marker, age, tickVars, queue, passVars, hung>>

\* Far enough for every lease to have expired.
MaxAge == 2 * Interval + MaxJobs * Timeout + 1

\* The daemon serves: healthy in external mode or on a recent record, whose
\* remaining time is the first delay; otherwise the startup tick is due.
Init ==
    /\ scheduleEnabled \in BOOLEAN /\ doc \in 1..MaxJobs /\ age = 0
    /\ timer \in 0..Interval /\ marker = (~scheduleEnabled \/ timer > 0)
    /\ ticker = IF scheduleEnabled THEN "sleep" ELSE "off"
    /\ queue = <<>> /\ cur = "none" /\ total = 0 /\ left = 0 /\ elapsed = 0
    /\ failed = FALSE /\ hung = FALSE /\ over = 0

-------------------------------------------------------------------------------
\* probeOptions.

\* A deadline of one cycle.
LeaseOneCycle(jobs) == Interval + jobs * Timeout

Lease(jobs) == 2 * Interval + jobs * Timeout

\* A bare probe in every mode.
NeverArmed == FALSE

\* External mode and a document that cannot be read or parsed arm no deadline.
Armed == scheduleEnabled /\ doc # Unreadable

ProbeHealthy == marker /\ (Armed => age <= Lease(doc))

-------------------------------------------------------------------------------
\* The daemon.

\* Queue.Submit's answer.
Admits == Len(queue) < QueueCapacity

\* tick's submission, or its refusal until the next interval.
Tick ==
    /\ ticker = "sleep" /\ timer = 0
    /\ IF Admits
         THEN ticker' = "wait" /\ queue' = Append(queue, "tick") /\ UNCHANGED timer
         ELSE timer' \in 1..Interval /\ UNCHANGED <<ticker, queue>>
    /\ UNCHANGED <<scheduleEnabled, doc, marker, age, passVars, hung>>

Trigger ==
    /\ Admits
    /\ queue' = Append(queue, "trigger")
    /\ UNCHANGED <<scheduleEnabled, doc, marker, age, tickVars, passVars, hung>>

\* RunLoop's next tick comes at most one interval after tick returned.
TickReturns(trig) ==
    IF trig = "tick" THEN ticker' = "sleep" /\ timer' \in 1..Interval
                     ELSE UNCHANGED tickVars

\* A verdict that changes nothing writes nothing.
SetIfChanged(ok) == marker' = ok /\ age' = IF marker = ok THEN age ELSE 0

\* Latch.Set: a healthy verdict rewrites the marker, whatever it was.
Set(ok) == marker' = ok /\ age' = 0

\* daemon.run up to the first job; a reload that fails ends the request.
Load ==
    /\ cur = "none" /\ queue # <<>>
    /\ queue' = Tail(queue)
    /\ IF doc \in 1..MaxJobs
         THEN /\ cur' = Head(queue) /\ total' = doc /\ left' = doc
              /\ elapsed' = 0 /\ failed' = FALSE /\ over' = 0
              /\ UNCHANGED <<marker, age, tickVars>>
         ELSE Set(FALSE) /\ TickReturns(Head(queue)) /\ UNCHANGED passVars
    /\ UNCHANGED <<scheduleEnabled, doc, hung>>

\* applyPassHealth and the delivery of the result.
PassEnds(ok) ==
    /\ cur' = "none" /\ total' = 0 /\ left' = 0 /\ failed' = FALSE /\ over' = 0
    /\ Set(ok) /\ TickReturns(cur)

\* runJob returns, at the latest when timeout and overrun are used up.
JobEnds ==
    /\ cur # "none" /\ ~hung
    /\ \E fails \in BOOLEAN :
         IF left = 1
           THEN PassEnds(~failed /\ ~fails)
           ELSE /\ left' = left - 1 /\ failed' = (failed \/ fails)
                /\ UNCHANGED <<cur, total, over, marker, age, tickVars>>
    /\ elapsed' = 0
    /\ UNCHANGED <<scheduleEnabled, doc, queue, hung>>

\* The source check, which no deadline covers, blocks on a dead mount.
Hang ==
    /\ cur # "none" /\ elapsed = 0 /\ ~hung
    /\ hung' = TRUE
    /\ UNCHANGED <<scheduleEnabled, doc, marker, age, tickVars, queue, passVars>>

EditConfig ==
    /\ doc' \in 0..Unreadable \ {doc}
    /\ UNCHANGED <<scheduleEnabled, marker, age, tickVars, queue, passVars, hung>>

\* Something must happen before time goes on.
Due == \/ ticker = "sleep" /\ timer = 0
       \/ cur = "none" /\ queue # <<>>
       \/ cur # "none" /\ elapsed = Timeout + Overrun /\ ~hung

Advance ==
    /\ ~Due
    /\ age' = IF marker /\ age < MaxAge THEN age + 1 ELSE age
    /\ timer' = IF ticker = "sleep" /\ timer > 0 THEN timer - 1 ELSE timer
    /\ elapsed' = IF cur # "none" /\ ~hung THEN elapsed + 1 ELSE elapsed
    /\ over' = IF cur # "none" /\ ~hung /\ elapsed >= Timeout THEN over + 1 ELSE over
    /\ UNCHANGED <<scheduleEnabled, doc, marker, ticker, queue, cur, total, left,
                   failed, hung>>

Next == Tick \/ Trigger \/ Load \/ JobEnds \/ Hang \/ EditConfig \/ Advance

Safe == Init /\ [][Next]_vars

\* Time passes and the ticker's goroutine goes on, whatever the executor does;
\* a pass ends in time because Advance waits for it.
Spec == Safe /\ WF_vars(Advance) /\ WF_vars(Tick)

-------------------------------------------------------------------------------
\* Properties.

\* A daemon that goes on working and has had no failed pass never probes
\* unhealthy: the lease outlasts every legal gap between two marker writes,
\* with any backlog of triggered passes, unless the document lost jobs while a
\* pass with more of them was running, or that pass's jobs together overran their
\* timeouts by more than the interval, which is all the lease has to spare.
NoFalseAlarm ==
    marker /\ ~hung /\ (cur # "none" => total <= doc) /\ over <= Interval => ProbeHealthy

\* "So a marker never refreshed eventually probes unhealthy": an executor that
\* hangs in built-in mode is noticed, as long as the document can be read.
HangIsNoticed ==
    <>[](hung /\ scheduleEnabled /\ doc # Unreadable) => <>[]~ProbeHealthy
===============================================================================
