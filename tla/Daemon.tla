-------------------------------- MODULE Daemon --------------------------------
(***************************************************************************)
(* The daemon process (daemon.go, health.go) through any number of lives of *)
(* its container: runDaemon's start and shutdown sequences, the trigger     *)
(* socket and its handlers, the interval ticker, the bounded queue they     *)
(* submit to, the single executor that runs one pass at a time, the health  *)
(* marker and the last-run record that survive the process.                 *)
(*                                                                          *)
(* A job is one step here, with the outcomes JobContract allows; RunJob     *)
(* shows that runJob implements that contract.                              *)
(***************************************************************************)
EXTENDS SyncPass, Sequences

CONSTANTS Clients,        \* concurrent `docker exec ... sync` invocations
          QueueCapacity,  \* queueCapacity
          Docs,           \* contents config.yaml may have
          JobCount        \* jobs of a document; 0: loadConfig rejects it

Ticker == "ticker"
NoReq  == "no request"
NoDoc  == "no document"

Requesters == Clients \cup {Ticker}

ASSUME ConstantsAssumption ==
    /\ Ticker \notin Clients /\ NoReq \notin Requesters
    /\ QueueCapacity \in Nat \ {0}
    /\ NoDoc \notin Docs
    /\ JobCount \in [Docs -> Nat]

VARIABLES
    main,             \* where runDaemon is
    scheduleEnabled,  \* SYNC_INTERVAL of this container: built-in or external
    ctxDone,          \* the signal-bound context
    marker,           \* the health marker file exists
    draining,         \* health.Latch after BeginDrain
    record,           \* /data/.docker-rsync-scheduler-last-run
    due,              \* startupDue
    doc,              \* config.yaml on disk
    advised,          \* daemon.advised
    listening,        \* the trigger socket accepts connections
    qOpen,            \* the queue takes submissions
    queue,            \* requests waiting for the executor, oldest first
    exec,             \* where the executor goroutine is
    cur,              \* the request it is running
    loaded,           \* the document its pass runs on
    i,                \* runPass's loop index
    pass,             \* passResult
    out,              \* trigger.Outcome of the pass
    logged,           \* the pass-level log line of this request
    ticker,           \* where the ticker goroutine is
    conn,             \* each client's connection and its handler
    result,           \* the answer in each requester's result channel
    \* History variables: no step depends on them.
    told,             \* the document this life's last advisories are about
    nagged,           \* advisories were repeated for the document they are about
    seen,             \* outcomes of the jobs of the current pass
    lastPass,         \* the last conclusive pass of this life
    lastSched,        \* the last conclusive scheduled pass of any life
    recordLost        \* that pass's outcome never reached the record

mainVars  == <<main, due, draining, listening, qOpen>>
diskVars  == <<scheduleEnabled, doc, record>>
adviceVars == <<advised, told, nagged>>
runVars   == <<loaded, i, pass, out, logged, seen>>
execVars  == <<exec, cur, adviceVars, runVars>>
truthVars == <<lastPass, lastSched, recordLost>>
vars == <<mainVars, diskVars, ctxDone, marker, queue, execVars, ticker, conn,
          result, truthVars>>

Results == {"none", "cancelled", "ok", "caveat", "failed", "reload"}

\* loadConfig succeeds on a document; what read, parse and validate reject has
\* no jobs here (an empty job list is itself rejected).
loadConfig(d) == JobCount[d] > 0

ProcessType ==
    /\ main \in {"down", "preflight", "decide", "serve", "run", "closeln",
                 "closequeue", "waitexec", "waitticker", "waitsrv"}
    /\ ctxDone \in BOOLEAN /\ draining \in BOOLEAN /\ due \in BOOLEAN
    /\ listening \in BOOLEAN /\ qOpen \in BOOLEAN
    /\ ticker \in {"off", "startup", "sleep", "wait", "done"}

DiskType ==
    /\ scheduleEnabled \in BOOLEAN /\ marker \in BOOLEAN
    /\ record \in {"none", "torn", "failed", "fresh", "stale"}
    /\ doc \in Docs
    /\ lastPass \in {"none", "clean", "broken"}
    /\ lastSched \in {"none", "clean", "broken"}
    /\ recordLost \in BOOLEAN

BrokerType ==
    /\ queue \in Seq(Requesters) /\ Len(queue) <= QueueCapacity
    /\ conn \in [Clients -> {"none", "backlog", "decoding", "waiting"}]
    /\ result \in [Requesters -> Results]

ExecType ==
    /\ exec \in {"off", "idle", "load", "advise", "loop", "job", "publish",
                 "record", "finish", "done"}
    /\ cur \in Requesters \cup {NoReq}
    /\ loaded \in Docs \cup {NoDoc} /\ advised \in Docs \cup {NoDoc}
    /\ told \in Docs \cup {NoDoc} /\ nagged \in BOOLEAN
    /\ i \in Nat /\ pass \in PassResults
    /\ out \in {"none", "ok", "caveat", "failed", "reload"}
    /\ logged \in {"none", "complete", "interrupted", "reload failed"}
    /\ seen \subseteq JobOutcomes

TypeOK == ProcessType /\ DiskType /\ BrokerType /\ ExecType

Init ==
    /\ main = "down" /\ scheduleEnabled \in BOOLEAN /\ ctxDone = FALSE
    /\ marker = FALSE /\ draining = FALSE /\ record = "none" /\ due = FALSE
    /\ doc \in Docs /\ advised = NoDoc /\ told = NoDoc /\ nagged = FALSE
    /\ listening = FALSE /\ qOpen = FALSE /\ queue = <<>>
    /\ exec = "off" /\ cur = NoReq /\ loaded = NoDoc /\ i = 0
    /\ pass = NewPass(0) /\ out = "none" /\ logged = "none"
    /\ ticker = "off" /\ conn = [c \in Clients |-> "none"]
    /\ result = [r \in Requesters |-> "none"]
    /\ seen = {} /\ lastPass = "none" /\ lastSched = "none"
    /\ recordLost = FALSE

-------------------------------------------------------------------------------
\* health.Latch (external): a healthy verdict after BeginDrain is dropped.

LatchSetUnlatched(ok) == marker' = ok

LatchSet(ok) == marker' = (ok /\ ~draining)

\* trigger.Queue (external): a closed or full queue refuses a submission.

AdmitsEvenFull == qOpen

AdmitsEvenClosed == Len(queue) < QueueCapacity

Admits == qOpen /\ Len(queue) < QueueCapacity

-------------------------------------------------------------------------------
\* runDaemon.

\* A start that leaves what an earlier life left in /tmp.
StartKeepsMarker ==
    /\ main = "down"
    /\ main' = "preflight"
    /\ UNCHANGED <<due, draining, listening, qOpen, diskVars, ctxDone, marker,
                   queue, execVars, ticker, conn, result, truthVars>>

\* The process starts (again); its first act is marker.Cleanup.
Start ==
    /\ main = "down"
    /\ main' = "preflight"
    /\ marker' = FALSE
    /\ UNCHANGED <<due, draining, listening, qOpen, diskVars, ctxDone, queue,
                   execVars, ticker, conn, result, truthVars>>

\* The config is refused, the host-key posture cannot be decided or the socket
\* cannot be bound: runDaemon returns, its deferred Cleanup runs.
PreflightFails ==
    /\ main = "preflight"
    /\ main' = "down" /\ ctxDone' = FALSE /\ marker' = FALSE
    /\ UNCHANGED <<due, draining, listening, qOpen, diskVars, queue, execVars,
                   ticker, conn, result, truthVars>>

\* adviseConfig logs what it has to say of a document.
adviseConfig(d) == told' = d /\ nagged' = (nagged \/ told = d)

\* loadConfig, adviseConfig, classifyKnownHosts and trigger.Listen succeed; the
\* document's digest is kept.
PreflightPasses ==
    /\ main = "preflight" /\ loadConfig(doc)
    /\ main' = "decide" /\ listening' = TRUE
    /\ adviseConfig(doc) /\ advised' = doc
    /\ UNCHANGED <<due, draining, qOpen, diskVars, ctxDone, marker, queue, exec,
                   cur, runVars, ticker, conn, result, truthVars>>

\* A failed pass's record still counts as a pass within the interval.
RemainingAfterFailure(writable) ==
    scheduleEnabled /\ record \in {"fresh", "failed"} /\ writable

\* stamp.Remaining under RetryFailed, believed only when the record can also
\* be rewritten.
Remaining(writable) == scheduleEnabled /\ record = "fresh" /\ writable

\* The startup decision, the first health verdict, and the executor started.
Decide ==
    /\ main = "decide"
    /\ \E writable \in BOOLEAN :
         /\ due' = ~Remaining(writable)
         /\ LatchSet(~scheduleEnabled \/ Remaining(writable))
    /\ main' = "serve" /\ qOpen' = TRUE /\ exec' = "idle"
    /\ UNCHANGED <<draining, listening, diskVars, ctxDone, queue, cur, adviceVars,
                   runVars, ticker, conn, result, truthVars>>

\* srv.Serve and startTicker.
Serve ==
    /\ main = "serve"
    /\ main' = "run"
    /\ ticker' = IF ~scheduleEnabled THEN "done"
                 ELSE IF due THEN "startup" ELSE "sleep"
    /\ UNCHANGED <<due, draining, listening, qOpen, diskVars, ctxDone, marker,
                   queue, execVars, conn, result, truthVars>>

\* <-ctx.Done(), then state.BeginDrain.
BeginDrain ==
    /\ main = "run" /\ ctxDone
    /\ main' = "closeln" /\ draining' = TRUE /\ marker' = FALSE
    /\ UNCHANGED <<due, listening, qOpen, diskVars, ctxDone, queue, execVars,
                   ticker, conn, result, truthVars>>

\* ln.Close: connections nobody accepted yet are reset by the kernel.
CloseListener ==
    /\ main = "closeln"
    /\ main' = "closequeue" /\ listening' = FALSE
    /\ conn' = [c \in Clients |->
                  IF conn[c] = "backlog" THEN "none" ELSE conn[c]]
    /\ UNCHANGED <<due, draining, qOpen, diskVars, ctxDone, marker, queue,
                   execVars, ticker, result, truthVars>>

\* A shutdown that only waits.
QueueLeftOpen ==
    /\ main = "closequeue"
    /\ main' = "waitexec"
    /\ UNCHANGED <<due, draining, listening, qOpen, diskVars, ctxDone, marker,
                   queue, execVars, ticker, conn, result, truthVars>>

CloseQueue ==
    /\ main = "closequeue"
    /\ main' = "waitexec" /\ qOpen' = FALSE
    /\ UNCHANGED <<due, draining, listening, diskVars, ctxDone, marker, queue,
                   execVars, ticker, conn, result, truthVars>>

AwaitExecutor ==
    /\ main = "waitexec" /\ exec = "done"
    /\ main' = "waitticker"
    /\ UNCHANGED <<due, draining, listening, qOpen, diskVars, ctxDone, marker,
                   queue, execVars, ticker, conn, result, truthVars>>

AwaitTicker ==
    /\ main = "waitticker" /\ ticker = "done"
    /\ main' = "waitsrv"
    /\ UNCHANGED <<due, draining, listening, qOpen, diskVars, ctxDone, marker,
                   queue, execVars, ticker, conn, result, truthVars>>

\* Everything in the process's memory is gone, and so are its connections.
Vanish ==
    /\ main' = "down" /\ ctxDone' = FALSE /\ draining' = FALSE /\ due' = FALSE
    /\ listening' = FALSE /\ qOpen' = FALSE /\ queue' = <<>>
    /\ exec' = "off" /\ cur' = NoReq /\ advised' = NoDoc /\ loaded' = NoDoc
    /\ told' = NoDoc /\ nagged' = FALSE
    /\ i' = 0 /\ pass' = NewPass(0) /\ out' = "none" /\ logged' = "none"
    /\ seen' = {} /\ ticker' = "off"
    /\ conn' = [c \in Clients |-> "none"]
    /\ result' = [r \in Requesters |-> "none"]
    /\ lastPass' = "none"
    /\ UNCHANGED <<scheduleEnabled, doc, lastSched>>

\* srv.Wait, then runDaemon returns; the deferred Cleanup runs.
AwaitServer ==
    /\ main = "waitsrv"
    /\ \A c \in Clients : conn[c] \notin {"decoding", "waiting"}
    /\ marker' = FALSE
    /\ Vanish
    /\ UNCHANGED <<record, recordLost>>

-------------------------------------------------------------------------------
\* The environment.

SigTerm ==
    /\ main # "down" /\ ~ctxDone
    /\ ctxDone' = TRUE
    /\ UNCHANGED <<mainVars, diskVars, marker, queue, execVars, ticker, conn,
                   result, truthVars>>

Recording == exec = "record" /\ cur = Ticker

\* SIGKILL, OOM or power loss, at any step.  The marker and the record stay
\* behind; a record being written may be left torn.
Crash ==
    /\ main # "down"
    /\ Vanish
    /\ record' \in IF Recording THEN {record, "torn"} ELSE {record}
    /\ recordLost' = (recordLost \/ Recording)
    /\ UNCHANGED marker

\* The container is recreated, perhaps with another SYNC_INTERVAL: /tmp is
\* new, and so is the record unless /data is mounted.
Recreate ==
    /\ main = "down"
    /\ marker' = FALSE /\ scheduleEnabled' \in BOOLEAN
    /\ record' \in {record, "none"}
    /\ UNCHANGED <<mainVars, doc, ctxDone, queue, execVars, ticker, conn,
                   result, truthVars>>

\* A success record grows older than the interval; a clock set back makes it
\* recent again.
ClockMoves ==
    /\ record \in {"fresh", "stale"}
    /\ record' \in {"fresh", "stale"} \ {record}
    /\ UNCHANGED <<mainVars, scheduleEnabled, doc, ctxDone, marker, queue,
                   execVars, ticker, conn, result, truthVars>>

EditConfig ==
    /\ doc' \in Docs \ {doc}
    /\ UNCHANGED <<mainVars, scheduleEnabled, record, ctxDone, marker, queue,
                   execVars, ticker, conn, result, truthVars>>

-------------------------------------------------------------------------------
\* Clients and the trigger server.

\* A `sync` invocation connects; with nobody listening it exits 1 at once.
\* One whose connection is closed under it, before or after it was accepted,
\* exits 1 as well: its slot is free for the next invocation.
Dial(c) ==
    /\ listening /\ conn[c] = "none"
    /\ conn' = [conn EXCEPT ![c] = "backlog"]
    /\ UNCHANGED <<mainVars, diskVars, ctxDone, marker, queue, execVars, ticker,
                   result, truthVars>>

Accept(c) ==
    /\ listening /\ main \in {"run", "closeln"} /\ conn[c] = "backlog"
    /\ conn' = [conn EXCEPT ![c] = "decoding"]
    /\ UNCHANGED <<mainVars, diskVars, ctxDone, marker, queue, execVars, ticker,
                   result, truthVars>>

\* The handler submits the decoded request or answers the refusal.
Submit(c) ==
    /\ conn[c] = "decoding"
    /\ IF Admits
         THEN /\ queue' = Append(queue, c)
              /\ conn' = [conn EXCEPT ![c] = "waiting"]
         ELSE /\ conn' = [conn EXCEPT ![c] = "none"]
              /\ UNCHANGED queue
    /\ UNCHANGED <<mainVars, diskVars, ctxDone, marker, execVars, ticker,
                   result, truthVars>>

\* The final event is on the wire.
Relay(c) ==
    /\ conn[c] = "waiting" /\ result[c] # "none"
    /\ conn' = [conn EXCEPT ![c] = "none"]
    /\ result' = [result EXCEPT ![c] = "none"]
    /\ UNCHANGED <<mainVars, diskVars, ctxDone, marker, queue, execVars, ticker,
                   truthVars>>

\* finishResult: a caveat still exits 0.
ExitCode(res) == IF res \in {"ok", "caveat"} THEN 0 ELSE 1

-------------------------------------------------------------------------------
\* The ticker.

\* A tick that submits and goes back to sleep.
TickWithoutWaiting(from) ==
    /\ ticker = from
    /\ ticker' = "sleep"
    /\ IF Admits
         THEN queue' = Append(queue, Ticker)
         ELSE UNCHANGED queue
    /\ UNCHANGED <<mainVars, diskVars, ctxDone, marker, execVars, conn, result,
                   truthVars>>

\* daemon.tick: a refused submission is skipped until the next interval.
Tick(from) ==
    /\ ticker = from
    /\ IF Admits
         THEN queue' = Append(queue, Ticker) /\ ticker' = "wait"
         ELSE ticker' = "sleep" /\ UNCHANGED queue
    /\ UNCHANGED <<mainVars, diskVars, ctxDone, marker, execVars, conn, result,
                   truthVars>>

StartupTick  == Tick("startup")
IntervalTick == Tick("sleep")

TickResult ==
    /\ ticker = "wait" /\ result[Ticker] # "none"
    /\ ticker' = "sleep"
    /\ result' = [result EXCEPT ![Ticker] = "none"]
    /\ UNCHANGED <<mainVars, diskVars, ctxDone, marker, queue, execVars, conn,
                   truthVars>>

\* scheduler.RunLoop returns once the context is done.
TickerStops ==
    /\ ticker = "sleep" /\ ctxDone
    /\ ticker' = "done"
    /\ UNCHANGED <<mainVars, diskVars, ctxDone, marker, queue, execVars, conn,
                   result, truthVars>>

-------------------------------------------------------------------------------
\* The executor: trigger.Execute (external) around daemon.run.

\* The newest request first.
DequeueNewest ==
    /\ exec = "idle" /\ queue # <<>>
    /\ queue' = SubSeq(queue, 1, Len(queue) - 1)
    /\ exec' = "load" /\ cur' = queue[Len(queue)]
    /\ UNCHANGED <<mainVars, diskVars, ctxDone, marker, adviceVars, runVars, result,
                   ticker, conn, truthVars>>

\* A request still queued at shutdown gets a cancellation result; any other
\* one is run.
Dequeue ==
    /\ exec = "idle" /\ queue # <<>>
    /\ queue' = Tail(queue)
    /\ IF ctxDone
         THEN /\ result' = [result EXCEPT ![Head(queue)] = "cancelled"]
              /\ UNCHANGED <<exec, cur>>
         ELSE /\ exec' = "load" /\ cur' = Head(queue)
              /\ UNCHANGED result
    /\ UNCHANGED <<mainVars, diskVars, ctxDone, marker, adviceVars, runVars,
                   ticker, conn, truthVars>>

ExecutorStops ==
    /\ exec = "idle" /\ queue = <<>> /\ ~qOpen
    /\ exec' = "done"
    /\ UNCHANGED <<mainVars, diskVars, ctxDone, marker, queue, cur, adviceVars,
                   runVars, ticker, conn, result, truthVars>>

\* A conclusive pass, for the history variables: what it was, and whether the
\* scheduler asked for it.
Concludes(verdict) ==
    /\ lastPass' = verdict
    /\ lastSched' = IF cur = Ticker THEN verdict ELSE lastSched
    /\ UNCHANGED recordLost

\* loadConfig fails on reload: unhealthy, recorded as a failed pass, answered
\* with its own reason.
ReloadFails ==
    /\ exec = "load" /\ ~loadConfig(doc)
    /\ LatchSet(FALSE)
    /\ logged' = "reload failed" /\ out' = "reload" /\ exec' = "record"
    /\ Concludes("broken")
    /\ UNCHANGED <<mainVars, diskVars, ctxDone, queue, cur, adviceVars, loaded, i,
                   pass, seen, ticker, conn, result>>

\* The pass gets the document as it is now.
Reloads ==
    /\ exec = "load" /\ loadConfig(doc)
    /\ loaded' = doc /\ pass' = NewPass(JobCount[doc]) /\ exec' = "advise"
    /\ UNCHANGED <<mainVars, diskVars, ctxDone, marker, queue, cur, adviceVars, i,
                   out, logged, seen, ticker, conn, result, truthVars>>

\* The digest kept is the start's.
AdviseKeepsDigest ==
    IF loaded # advised THEN adviseConfig(loaded) /\ UNCHANGED advised
                        ELSE UNCHANGED adviceVars

\* The digest kept is of the file as it is by now.
AdviseRereads ==
    IF loaded # advised THEN adviseConfig(loaded) /\ advised' = doc
                        ELSE UNCHANGED adviceVars

\* A document with another digest than the last one's is advised about.
AdviseIfNew ==
    IF loaded # advised THEN adviseConfig(loaded) /\ advised' = loaded
                        ELSE UNCHANGED adviceVars

\* Between the reload and runPass.
Advise ==
    /\ exec = "advise"
    /\ AdviseIfNew
    /\ exec' = "loop"
    /\ UNCHANGED <<mainVars, diskVars, ctxDone, marker, queue, cur, runVars,
                   ticker, conn, result, truthVars>>

\* runPass's loop head finds the context alive and starts the next job.
JobStarts ==
    /\ exec = "loop" /\ i < pass.total /\ ~ctxDone
    /\ exec' = "job"
    /\ UNCHANGED <<mainVars, diskVars, ctxDone, marker, queue, cur, adviceVars,
                   runVars, ticker, conn, result, truthVars>>

\* runJob returns (JobContract!End) and the loop body tallies it.
JobEnds ==
    /\ exec = "job"
    /\ \E outcome \in AllowedOutcomes(ctxDone) :
         /\ pass' = Tally(pass, outcome)
         /\ seen' = seen \cup {outcome}
    /\ i' = i + 1 /\ exec' = "loop"
    /\ UNCHANGED <<mainVars, diskVars, ctxDone, marker, queue, cur, adviceVars,
                   loaded, out, logged, ticker, conn, result, truthVars>>

\* The loop is over, or the shutdown landed before the next job.
PassEnds ==
    /\ exec = "loop" /\ (i = pass.total \/ ctxDone)
    /\ pass' = IF i < pass.total THEN CutShort(pass) ELSE pass
    /\ exec' = "publish"
    /\ UNCHANGED <<mainVars, diskVars, ctxDone, marker, queue, cur, adviceVars,
                   loaded, i, out, logged, seen, ticker, conn, result, truthVars>>

\* The heartbeat on every pass.
ReportAlwaysComplete == logged' = "complete"

reportPass ==
    logged' = IF pass.interrupted THEN "interrupted" ELSE "complete"

applyPassHealth ==
    IF vouchable(pass) THEN LatchSet(healthy(pass)) ELSE UNCHANGED marker

\* What the jobs really did, for the history variables.
Clean  == i = pass.total /\ seen \subseteq {"success", "skipped"}
Broken == "failed" \in seen

\* reportPass, applyPassHealth and the trigger.Outcome of daemon.run.
Publish ==
    /\ exec = "publish"
    /\ reportPass
    /\ applyPassHealth
    /\ out' = IF ~healthy(pass) THEN "failed"
              ELSE IF pass.interrupted THEN "caveat" ELSE "ok"
    /\ exec' = IF vouchable(pass) THEN "record" ELSE "finish"
    /\ IF Broken THEN Concludes("broken")
       ELSE IF Clean THEN Concludes("clean")
       ELSE UNCHANGED truthVars
    /\ UNCHANGED <<mainVars, diskVars, ctxDone, queue, cur, adviceVars, loaded, i,
                   pass, seen, ticker, conn, result>>

\* A triggered pass that also records.
RecordAnyTrigger ==
    /\ exec = "record"
    /\ record' = IF out = "ok" THEN "fresh" ELSE "failed"
    /\ recordLost' = FALSE
    /\ exec' = "finish"
    /\ UNCHANGED <<mainVars, scheduleEnabled, doc, ctxDone, marker, queue, cur,
                   adviceVars, runVars, ticker, conn, result, lastPass, lastSched>>

\* recordScheduled: only a scheduled pass records; an outcome that cannot be
\* written removes the record; when that fails too, the old one stays.
recordScheduled ==
    /\ exec = "record"
    /\ IF cur = Ticker
         THEN \/ /\ record' = IF out = "ok" THEN "fresh" ELSE "failed"
                 /\ recordLost' = FALSE
              \/ record' = "none" /\ recordLost' = FALSE
              \/ record' \in {record, "torn"} /\ recordLost' = TRUE
         ELSE UNCHANGED <<record, recordLost>>
    /\ exec' = "finish"
    /\ UNCHANGED <<mainVars, scheduleEnabled, doc, ctxDone, marker, queue, cur,
                   adviceVars, runVars, ticker, conn, result, lastPass, lastSched>>

\* daemon.run returns, Execute delivers the outcome and run's locals are gone.
Finish ==
    /\ exec = "finish"
    /\ result' = [result EXCEPT ![cur] = out]
    /\ exec' = "idle" /\ cur' = NoReq /\ loaded' = NoDoc /\ i' = 0
    /\ pass' = NewPass(0) /\ out' = "none" /\ logged' = "none" /\ seen' = {}
    /\ UNCHANGED <<mainVars, diskVars, ctxDone, marker, queue, adviceVars, ticker,
                   conn, truthVars>>

-------------------------------------------------------------------------------
Preflight == PreflightFails \/ PreflightPasses

Shutdown == BeginDrain \/ CloseListener \/ CloseQueue \/ AwaitExecutor
            \/ AwaitTicker \/ AwaitServer

Main == Preflight \/ Decide \/ Serve \/ Shutdown

Executor == Dequeue \/ ExecutorStops \/ ReloadFails \/ Reloads \/ Advise
            \/ JobStarts \/ JobEnds \/ PassEnds \/ Publish \/ recordScheduled
            \/ Finish

Handler(c) == Accept(c) \/ Submit(c) \/ Relay(c)

Environment == Start \/ SigTerm \/ Crash \/ Recreate \/ ClockMoves
               \/ EditConfig \/ (\E c \in Clients : Dial(c))

Next == \/ Main
        \/ Executor
        \/ StartupTick \/ IntervalTick \/ TickResult \/ TickerStops
        \/ \E c \in Clients : Handler(c)
        \/ Environment

Safe == Init /\ [][Next]_vars

\* Every goroutine of a running daemon goes on (a job too: RunJob's JobEnds);
\* nothing is assumed of clients, of the interval timer or of the operator.
Spec == /\ Safe
        /\ WF_vars(Main) /\ WF_vars(Executor)
        /\ WF_vars(StartupTick) /\ WF_vars(TickResult) /\ WF_vars(TickerStops)
        /\ \A c \in Clients : WF_vars(Handler(c))

-------------------------------------------------------------------------------
\* Properties.

\* Once the shutdown has begun, no late verdict turns the container healthy
\* again: not the pass that was running, not one whose jobs all succeeded.
DrainNeverHealthy == draining => ~marker

\* "Within one container lifetime, health reflects the last pass": while the
\* daemon serves, the marker says what the last conclusive pass was.  Before
\* the first one it stands only in external mode, or in built-in mode on the
\* record of a clean scheduled pass; never on what an earlier life left in
\* /tmp, and never on a pass that was cut short.
MarkerTruthful ==
    main # "down" =>
        /\ marker => /\ main \notin {"preflight", "decide"}
                     /\ \/ lastPass = "clean"
                        \/ /\ lastPass = "none"
                           /\ \/ ~scheduleEnabled
                              \/ ~due /\ (lastSched = "clean" \/ recordLost)
        /\ lastPass = "clean" /\ ~draining => marker

\* The record the next boot relies on tells the last conclusive scheduled
\* pass, whatever triggered passes, cuts and restarts came in between.  Two
\* events can leave an older one behind, and no other: a crash before
\* recordScheduled wrote, and a write and a removal that both failed.
RecordHonest ==
    \/ recordLost \/ Recording
    \/ /\ record \in {"fresh", "stale"} => lastSched = "clean"
       /\ record = "failed" => lastSched = "broken"

InQueue(r) == \E k \in 1..Len(queue) : queue[k] = r

Waiting(r) == IF r = Ticker THEN ticker = "wait" ELSE conn[r] = "waiting"

\* Every requester that waits without an answer has exactly its one request
\* queued or running, and nothing else is: no accepted request is dropped, no
\* answer is missed, ticks never pile up.
AcceptedIsHeld ==
    /\ \A r \in Requesters :
         /\ Waiting(r) /\ result[r] = "none" <=> InQueue(r) \/ cur = r
         /\ ~(InQueue(r) /\ cur = r)
    /\ \A j, k \in 1..Len(queue) : queue[j] = queue[k] => j = k

\* Whoever the queue admitted, however late in a shutdown, was run or cancelled
\* before the executor went: after it nobody waits for an answer that is not
\* there yet, so srv.Wait and the ticker's wait are for handlers that can end.
NobodyLeftBehind ==
    exec = "done" => \A r \in Requesters : Waiting(r) => result[r] # "none"

\* "sync cycle complete" is never logged for a pass that shutdown cut short,
\* so absence-based alerting does not count it.
HeartbeatMeansComplete ==
    logged = "complete" => i = pass.total /\ "interrupted" \notin seen

InPass == exec \in {"loop", "job", "publish"}

\* No job runs on a document other than the one the operator was last advised
\* about, and no document is advised about twice in a row: whatever edits come
\* between passes, between the load and the advisories or inside a pass, and
\* whatever documents that fail to load come in between.
AdvisedOnce == ~nagged /\ (InPass => loaded # NoDoc /\ told = loaded)

\* The exit code of `sync` is about the pass run for that very request: 0 only
\* when no job of it failed, without a caveat only when every job ran, and a
\* reported job failure only when one failed.
ExitCodeHonest ==
    [][\A c \in Clients : result'[c] \notin {result[c], "none"} =>
         /\ ExitCode(result'[c]) = 0 => cur = c /\ ~Broken
         /\ result'[c] = "ok" => Clean
         /\ result'[c] = "caveat" => ctxDone
         /\ result'[c] = "failed" => cur = c /\ Broken]_vars

\* A pass cut short with no failed job writes no marker and no record.
CutPassLeavesNoTrace ==
    [][InPass /\ ~Clean /\ ~Broken /\ exec' \in {"record", "finish"}
         => exec' = "finish" /\ UNCHANGED <<marker, record>>]_vars

\* SIGTERM ends the process: nothing the executor, the ticker, a handler or a
\* queued request waits for keeps it.
ShutdownCompletes == ctxDone ~> main = "down"

Server == INSTANCE PassServer WITH Capacity <- QueueCapacity, Nobody <- NoReq,
                                   line <- queue, running <- cur, answer <- result

\* The ticker and the clients are served as PassServer promises, in the order
\* they were accepted and each with one answer of its own: the queue, the
\* executor, the handlers and the cancellations of a shutdown amount to it.
ServesInOrder == Server!Safe

\* With PassServer's promise of progress: a request behind others is reached, a
\* pass ends, an answer is taken.  Whoever was accepted, ticker or client, is
\* answered unless the process dies.
ImplementsServer == Server!Spec

\* What the documentation says of the heartbeat: a line after every pass that
\* shutdown did not cut short.
HeartbeatAfterEveryPass ==
    exec = "finish" /\ ~pass.interrupted => logged = "complete"
===============================================================================
