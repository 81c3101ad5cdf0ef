----------------------------- MODULE DaemonProofs -----------------------------
(***************************************************************************)
(* Daemon's type invariant and its health, record and exit-code properties, *)
(* for every set of clients, every queue capacity and every set of          *)
(* documents with any number of jobs.                                       *)
(***************************************************************************)
EXTENDS Daemon, SequenceTheorems, TLAPS

\* The queue after an accepted submission, whoever submits.
LEMMA AppendType ==
    ASSUME NEW r \in Requesters, queue \in Seq(Requesters), Admits
    PROVE  /\ Append(queue, r) \in Seq(Requesters)
           /\ Len(Append(queue, r)) <= QueueCapacity
<1>1. /\ Append(queue, r) \in Seq(Requesters)
      /\ Len(Append(queue, r)) = Len(queue) + 1
  BY AppendProperties
<1>2. Len(queue) \in Nat /\ Len(queue) < QueueCapacity /\ QueueCapacity \in Nat
  BY LenProperties, ConstantsAssumption DEF Admits
<1> QED
  BY <1>1, <1>2

\* The queue after the executor took its oldest request.
LEMMA TailType ==
    ASSUME queue \in Seq(Requesters), queue # <<>>,
           Len(queue) <= QueueCapacity
    PROVE  /\ Head(queue) \in Requesters
           /\ Tail(queue) \in Seq(Requesters)
           /\ Len(Tail(queue)) <= QueueCapacity
<1>1. /\ Head(queue) \in Requesters
      /\ Tail(queue) \in Seq(Requesters)
      /\ Len(Tail(queue)) = Len(queue) - 1
  BY HeadTailProperties
<1>2. Len(queue) \in Nat /\ QueueCapacity \in Nat
  BY LenProperties, ConstantsAssumption
<1> QED
  BY <1>1, <1>2

\* A pass starts with every count at zero.
LEMMA NewPassType == \A n \in Nat : NewPass(n) \in PassResults
  BY DEF NewPass, PassResults

\* runPass's bookkeeping for one job, field by field.
LEMMA TallyFields ==
    ASSUME NEW p \in PassResults, NEW o \in JobOutcomes
    PROVE  /\ Tally(p, o) \in PassResults
           /\ Tally(p, o).total = p.total
           /\ Tally(p, o).failed > 0 <=> p.failed > 0 \/ o = "failed"
           /\ Tally(p, o).interrupted <=> p.interrupted \/ o = "interrupted"
<1> DEFINE cut == p.interrupted \/ o = "interrupted"
<1>1. cut \in BOOLEAN
  OBVIOUS
<1>2. p.failed + 1 \in Nat /\ p.ok + 1 \in Nat /\ p.emptySkipped + 1 \in Nat
  BY DEF PassResults
<1>3. Tally(p, o) \in PassResults
  <2> HIDE DEF cut
  <2>1. [p EXCEPT !.ok = IF o \in {"skipped", "success"} THEN @ + 1 ELSE @,
                  !.emptySkipped = IF o = "skipped" THEN @ + 1 ELSE @,
                  !.failed = IF o = "failed" THEN @ + 1 ELSE @,
                  !.interrupted = cut] \in PassResults
    BY <1>1, <1>2 DEF PassResults
  <2> QED
    BY <2>1 DEF Tally, cut
<1>4. Tally(p, o).total = p.total
  BY DEF Tally, PassResults
<1>5. Tally(p, o).failed > 0 <=> p.failed > 0 \/ o = "failed"
  BY DEF Tally, PassResults
<1>6. Tally(p, o).interrupted <=> p.interrupted \/ o = "interrupted"
  BY DEF Tally, PassResults
<1> QED
  BY <1>3, <1>4, <1>5, <1>6

\* Cutting a pass short changes its interrupted flag and nothing else.
LEMMA CutShortFields ==
    ASSUME NEW p \in PassResults
    PROVE  /\ CutShort(p) \in PassResults
           /\ CutShort(p).total = p.total
           /\ CutShort(p).failed = p.failed
           /\ CutShort(p).interrupted
  BY DEF CutShort, PassResults

\* A job can only have one of the outcomes runPass switches over.
LEMMA AllowedSubset == \A b : AllowedOutcomes(b) \subseteq JobOutcomes
  BY DEF AllowedOutcomes

\* Every variable has its type in the first life's initial states.
LEMMA InitType == Init => TypeOK
<1> SUFFICES ASSUME Init PROVE TypeOK
  OBVIOUS
<1>1. ProcessType /\ DiskType
  BY DEF Init, ProcessType, DiskType
<1>2. BrokerType
  BY ConstantsAssumption DEF Init, BrokerType, Results
<1>3. ExecType
  BY NewPassType DEF Init, ExecType
<1> QED
  BY <1>1, <1>2, <1>3 DEF TypeOK

-------------------------------------------------------------------------------
\* Type correctness, by groups of variables.

\* runDaemon's and the ticker's own state.
LEMMA ProcessStep == TypeOK /\ [Next]_vars => ProcessType'
<1> SUFFICES ASSUME ProcessType, [Next]_vars PROVE ProcessType'
  BY DEF TypeOK
<1> USE DEF ProcessType, mainVars
<1>1. CASE Start \/ PreflightFails \/ PreflightPasses
  BY <1>1 DEF Start, PreflightFails, PreflightPasses
<1>2. CASE Decide
  <2>1. /\ main' = "serve" /\ qOpen' = TRUE /\ due' \in BOOLEAN
        /\ UNCHANGED <<draining, listening, ctxDone, ticker>>
    BY <1>2 DEF Decide
  <2> QED
    BY <2>1
<1>3. CASE Serve \/ BeginDrain \/ CloseListener
  BY <1>3 DEF Serve, BeginDrain, CloseListener
<1>4. CASE CloseQueue \/ AwaitExecutor \/ AwaitTicker
  BY <1>4 DEF CloseQueue, AwaitExecutor, AwaitTicker
<1>5. CASE AwaitServer \/ Crash
  BY <1>5 DEF AwaitServer, Crash, Vanish
<1>6. CASE SigTerm \/ Recreate \/ ClockMoves \/ EditConfig
  <2>1. ctxDone' \in BOOLEAN /\ UNCHANGED <<mainVars, ticker>>
    BY <1>6 DEF SigTerm, Recreate, ClockMoves, EditConfig
  <2> QED
    BY <2>1
<1>7. CASE \E c \in Clients : Dial(c) \/ Handler(c)
  BY <1>7 DEF Dial, Handler, Accept, Submit, Relay
<1>8. CASE StartupTick \/ IntervalTick \/ TickResult \/ TickerStops
  BY <1>8 DEF StartupTick, IntervalTick, Tick, TickResult, TickerStops
<1>9. CASE Executor
  BY <1>9 DEF Executor, Dequeue, ExecutorStops, ReloadFails, Reloads, Advise, JobStarts,
              JobEnds, PassEnds, Publish, recordScheduled, Finish
<1>10. CASE UNCHANGED vars
  BY <1>10 DEF vars
<1> QED
  BY <1>1, <1>2, <1>3, <1>4, <1>5, <1>6, <1>7, <1>8, <1>9, <1>10
     DEF Next, Main, Preflight, Shutdown, Environment

\* The files that outlive the process, and the history of passes.
LEMMA DiskStep == TypeOK /\ [Next]_vars => DiskType'
<1> SUFFICES ASSUME DiskType, [Next]_vars PROVE DiskType'
  BY DEF TypeOK
<1> USE DEF DiskType, diskVars, truthVars
<1>1. CASE Start \/ PreflightFails \/ PreflightPasses
  BY <1>1 DEF Start, PreflightFails, PreflightPasses
<1>2. CASE Decide
  <2>1. marker' \in BOOLEAN /\ UNCHANGED <<diskVars, truthVars>>
    BY <1>2 DEF Decide, LatchSet
  <2> QED
    BY <2>1
<1>3. CASE Serve \/ BeginDrain \/ CloseListener
  BY <1>3 DEF Serve, BeginDrain, CloseListener
<1>4. CASE CloseQueue \/ AwaitExecutor \/ AwaitTicker
  BY <1>4 DEF CloseQueue, AwaitExecutor, AwaitTicker
<1>5. CASE AwaitServer
  BY <1>5 DEF AwaitServer, Vanish
<1>6. CASE Crash
  <2>1. recordLost' \in BOOLEAN /\ record' \in {record, "torn"}
    BY <1>6 DEF Crash
  <2>2. lastPass' = "none" /\ UNCHANGED <<scheduleEnabled, doc, lastSched, marker>>
    BY <1>6 DEF Crash, Vanish
  <2> QED
    BY <2>1, <2>2
<1>7. CASE SigTerm \/ Recreate \/ ClockMoves \/ EditConfig
  BY <1>7 DEF SigTerm, Recreate, ClockMoves, EditConfig
<1>8. CASE \E c \in Clients : Dial(c) \/ Handler(c)
  BY <1>8 DEF Dial, Handler, Accept, Submit, Relay
<1>9. CASE StartupTick \/ IntervalTick \/ TickResult \/ TickerStops
  BY <1>9 DEF StartupTick, IntervalTick, Tick, TickResult, TickerStops
<1>10. CASE ReloadFails
  BY <1>10 DEF ReloadFails, LatchSet, Concludes
<1>11. CASE Publish
  <2>1. marker' \in BOOLEAN
    BY <1>11 DEF Publish, applyPassHealth, LatchSet
  <2>2. /\ lastPass' \in {"none", "clean", "broken"}
        /\ lastSched' \in {"none", "clean", "broken"}
        /\ UNCHANGED <<diskVars, recordLost>>
    BY <1>11 DEF Publish, Concludes
  <2> QED
    BY <2>1, <2>2
<1>12. CASE recordScheduled
  BY <1>12 DEF recordScheduled
<1>13. CASE Dequeue \/ ExecutorStops \/ Reloads \/ Advise \/ JobStarts \/ JobEnds
            \/ PassEnds \/ Finish
  BY <1>13 DEF Dequeue, ExecutorStops, Reloads, Advise, JobStarts, JobEnds, PassEnds,
               Finish
<1>14. CASE UNCHANGED vars
  BY <1>14 DEF vars
<1> QED
  BY <1>1, <1>2, <1>3, <1>4, <1>5, <1>6, <1>7, <1>8, <1>9, <1>10, <1>11, <1>12,
     <1>13, <1>14 DEF Next, Main, Preflight, Shutdown, Executor, Environment

\* The queue, its bound, the handlers and the result channels.
LEMMA BrokerStep == TypeOK /\ [Next]_vars => BrokerType'
<1> SUFFICES ASSUME TypeOK, BrokerType, [Next]_vars PROVE BrokerType'
  BY DEF TypeOK
<1> USE DEF BrokerType
<1>1. CASE Start \/ PreflightFails \/ PreflightPasses \/ Decide \/ Serve
  BY <1>1 DEF Start, PreflightFails, PreflightPasses, Decide, Serve
<1>2. CASE BeginDrain \/ CloseQueue \/ AwaitExecutor \/ AwaitTicker
  BY <1>2 DEF BeginDrain, CloseQueue, AwaitExecutor, AwaitTicker
<1>3. CASE CloseListener
  BY <1>3 DEF CloseListener
<1>4. CASE AwaitServer \/ Crash
  <2>1. Vanish
    BY <1>4 DEF AwaitServer, Crash
  <2> QED
    BY <2>1, ConstantsAssumption DEF Vanish, Results
<1>5. CASE SigTerm \/ Recreate \/ ClockMoves \/ EditConfig
  BY <1>5 DEF SigTerm, Recreate, ClockMoves, EditConfig
<1>6. ASSUME NEW c \in Clients, Dial(c) \/ Accept(c) \/ Relay(c)
      PROVE  BrokerType'
  BY <1>6 DEF Dial, Accept, Relay, Results
<1>7. ASSUME NEW c \in Clients, Submit(c)
      PROVE  BrokerType'
  <2>1. CASE Admits
    BY <1>7, <2>1, AppendType DEF Submit, Requesters
  <2>2. CASE ~Admits
    BY <1>7, <2>2 DEF Submit
  <2> QED
    BY <2>1, <2>2
<1>8. CASE StartupTick \/ IntervalTick
  <2>1. PICK from \in {"startup", "sleep"} : Tick(from)
    BY <1>8 DEF StartupTick, IntervalTick
  <2>2. CASE Admits
    BY <2>1, <2>2, AppendType DEF Tick, Requesters
  <2>3. CASE ~Admits
    BY <2>1, <2>3 DEF Tick
  <2> QED
    BY <2>2, <2>3
<1>9. CASE TickResult \/ TickerStops
  BY <1>9 DEF TickResult, TickerStops, Results
<1>10. CASE Dequeue
  BY <1>10, TailType DEF Dequeue, Results
<1>11. CASE Finish
  BY <1>11 DEF Finish, TypeOK, ExecType, Results
<1>12. CASE ExecutorStops \/ ReloadFails \/ Reloads \/ Advise \/ JobStarts \/ JobEnds
            \/ PassEnds \/ Publish \/ recordScheduled
  BY <1>12 DEF ExecutorStops, ReloadFails, Reloads, Advise, JobStarts, JobEnds,
               PassEnds, Publish, recordScheduled
<1>13. CASE UNCHANGED vars
  BY <1>13 DEF vars
<1> QED
  BY <1>1, <1>2, <1>3, <1>4, <1>5, <1>6, <1>7, <1>8, <1>9, <1>10, <1>11, <1>12,
     <1>13 DEF Next, Main, Preflight, Shutdown, Executor, Handler, Environment

\* The executor's state and the locals of run and runPass.
LEMMA ExecStep == TypeOK /\ [Next]_vars => ExecType'
<1> SUFFICES ASSUME TypeOK, ExecType, [Next]_vars PROVE ExecType'
  BY DEF TypeOK
<1> USE DEF ExecType, execVars, adviceVars, runVars
<1>a. ASSUME NEW d \in Docs, adviseConfig(d) PROVE told' \in Docs /\ nagged' \in BOOLEAN
  BY <1>a DEF adviseConfig
<1> DEFINE Held == UNCHANGED <<exec, cur, advised, told, nagged, loaded, i, pass, out,
                               logged, seen>>
<1>b. Held => ExecType'
  OBVIOUS
<1>1. CASE PreflightPasses
  BY <1>1, <1>a DEF PreflightPasses, TypeOK, DiskType
<1>2. CASE Start \/ PreflightFails \/ Decide \/ Serve
  BY <1>2 DEF Start, PreflightFails, Decide, Serve
<1>3. CASE BeginDrain \/ CloseListener \/ CloseQueue \/ AwaitExecutor
           \/ AwaitTicker
  BY <1>3 DEF BeginDrain, CloseListener, CloseQueue, AwaitExecutor, AwaitTicker
<1>4. CASE AwaitServer \/ Crash
  <2>1. Vanish
    BY <1>4 DEF AwaitServer, Crash
  <2> QED
    BY <2>1, NewPassType DEF Vanish
<1>5. CASE SigTerm \/ Recreate \/ ClockMoves \/ EditConfig
  <2>1. CASE SigTerm
    BY <2>1, <1>b DEF SigTerm
  <2>2. CASE Recreate
    BY <2>2, <1>b DEF Recreate
  <2>3. CASE ClockMoves
    BY <2>3, <1>b DEF ClockMoves
  <2>4. CASE EditConfig
    BY <2>4, <1>b DEF EditConfig
  <2> QED
    BY <1>5, <2>1, <2>2, <2>3, <2>4
<1>6. CASE \E c \in Clients : Dial(c) \/ Handler(c)
  <2>1. Held
    BY <1>6 DEF Dial, Handler, Accept, Submit, Relay
  <2> QED
    BY <2>1, <1>b
<1>7. CASE StartupTick \/ IntervalTick \/ TickResult \/ TickerStops
  <2>1. Held
    BY <1>7 DEF StartupTick, IntervalTick, Tick, TickResult, TickerStops
  <2> QED
    BY <2>1, <1>b
<1>8. CASE Dequeue
  <2>1. Head(queue) \in Requesters
    BY <1>8, TailType DEF Dequeue, TypeOK, BrokerType
  <2> QED
    BY <1>8, <2>1 DEF Dequeue
<1>9. CASE ExecutorStops \/ ReloadFails \/ JobStarts \/ recordScheduled
  BY <1>9 DEF ExecutorStops, ReloadFails, JobStarts, recordScheduled
<1>10. CASE Reloads
  <2>1. doc \in Docs /\ NewPass(JobCount[doc]) \in PassResults
    BY NewPassType, ConstantsAssumption DEF TypeOK, DiskType
  <2> QED
    BY <1>10, <2>1 DEF Reloads
<1>16. CASE Advise
  <2>1. told' \in Docs \cup {NoDoc} /\ nagged' \in BOOLEAN /\ advised' \in Docs \cup {NoDoc}
    BY <1>16 DEF Advise, AdviseIfNew, adviseConfig
  <2> QED
    BY <1>16, <2>1 DEF Advise
<1>11. CASE JobEnds
  <2>1. PICK o \in AllowedOutcomes(ctxDone) :
             pass' = Tally(pass, o) /\ seen' = seen \cup {o}
    BY <1>11 DEF JobEnds
  <2>2. o \in JobOutcomes
    BY AllowedSubset
  <2>3. pass' \in PassResults
    BY <2>1, <2>2, TallyFields
  <2>4. seen' \subseteq JobOutcomes
    BY <2>1, <2>2
  <2>5. i' \in Nat
    <3>1. i' = i + 1
      BY <1>11 DEF JobEnds
    <3>2. i \in Nat
      OBVIOUS
    <3> QED
      BY ONLY <3>1, <3>2
  <2>6. exec' = "loop" /\ UNCHANGED <<cur, adviceVars, loaded, out, logged>>
    BY <1>11 DEF JobEnds
  <2> QED
    BY <2>3, <2>4, <2>5, <2>6
<1>12. CASE PassEnds
  <2>1. pass' \in PassResults
    BY <1>12, CutShortFields DEF PassEnds
  <2> QED
    BY <1>12, <2>1 DEF PassEnds
<1>13. CASE Publish
  BY <1>13 DEF Publish, reportPass
<1>14. CASE Finish
  BY <1>14, NewPassType DEF Finish
<1>15. CASE UNCHANGED vars
  <2>1. Held
    BY <1>15 DEF vars
  <2> QED
    BY <2>1, <1>b
<1> QED
  BY <1>1, <1>2, <1>3, <1>4, <1>5, <1>6, <1>7, <1>8, <1>9, <1>10, <1>11, <1>12,
     <1>13, <1>14, <1>15, <1>16 DEF Next, Main, Preflight, Shutdown, Executor,
     Environment

\* Every variable of the daemon keeps its type; in particular the queue never
\* grows past queueCapacity (daemon.go).
THEOREM TypeCorrect == Safe => []TypeOK
<1>1. Init => TypeOK
  BY InitType
<1>2. TypeOK /\ [Next]_vars => TypeOK'
  BY ProcessStep, DiskStep, BrokerStep, ExecStep DEF TypeOK
<1> QED
  BY <1>1, <1>2, PTL DEF Safe

-------------------------------------------------------------------------------
\* The inductive invariant behind the health, record and exit-code properties.

Stopping == {"closeln", "closequeue", "waitexec", "waitticker", "waitsrv"}

\* Which part of the process runs in which phase of runDaemon.
Lifecycle ==
    /\ main \in {"down", "preflight", "decide"} =>
         exec = "off" /\ lastPass = "none"
    /\ draining <=> main \in Stopping
    /\ main \in {"waitticker", "waitsrv"} => exec = "done"
    /\ cur = NoReq <=> exec \in {"off", "idle", "done"}

\* passResult against what the jobs really did: its counts and its flag lose
\* nothing, and only a shutdown cuts a pass short.
PassInv ==
    /\ exec \in {"off", "idle", "load", "done"} =>
         pass = NewPass(0) /\ i = 0 /\ seen = {}
    /\ i <= pass.total
    /\ exec = "job" => i < pass.total
    /\ pass.failed > 0 <=> Broken
    /\ exec \in {"advise", "loop", "job"} =>
         (pass.interrupted <=> "interrupted" \in seen)
    /\ exec \in {"publish", "record", "finish"} =>
         (pass.interrupted <=> "interrupted" \in seen \/ i < pass.total)
    /\ pass.interrupted => ctxDone

\* The outcome that waits to be recorded and delivered against the same truth.
OutInv ==
    exec \in {"record", "finish"} =>
        /\ out # "none"
        /\ out = "ok" => Clean
        /\ out = "caveat" => ~Broken /\ ctxDone
        /\ out = "failed" => Broken

\* A pass that is about to be recorded has been concluded, and when it was a
\* scheduled one, as what its outcome says.
RecordingInv ==
    /\ exec = "record" => lastPass # "none"
    /\ Recording => lastSched = IF out = "ok" THEN "clean" ELSE "broken"

IInv == /\ TypeOK /\ Lifecycle /\ PassInv /\ OutInv /\ RecordingInv
        /\ DrainNeverHealthy /\ MarkerTruthful /\ RecordHonest

\* A finished pass is one of three kinds, and healthy and vouchable tell them
\* apart: it had a failure, it was clean and complete, or it was cut short.
LEMMA PassKinds ==
    ASSUME TypeOK, PassInv, exec = "publish"
    PROVE  \/ Broken /\ ~healthy(pass) /\ vouchable(pass)
           \/ /\ ~Broken /\ Clean /\ healthy(pass) /\ vouchable(pass)
              /\ ~pass.interrupted
           \/ /\ ~Broken /\ ~Clean /\ healthy(pass) /\ ~vouchable(pass)
              /\ pass.interrupted
<1>1. /\ pass.failed \in Nat /\ pass.total \in Nat /\ i \in Nat
      /\ pass.interrupted \in BOOLEAN
  BY DEF TypeOK, ExecType, PassResults
<1>2. pass.interrupted <=> "interrupted" \in seen \/ i < pass.total
  BY DEF PassInv
<1>3. i <= pass.total /\ (pass.failed > 0 <=> Broken)
  BY DEF PassInv
<1>4. ~Broken => (Clean <=> ~pass.interrupted)
  <2>1. i = pass.total <=> ~(i < pass.total)
    BY <1>1, <1>3
  <2>2. seen \subseteq {"success", "skipped"}
          <=> "failed" \notin seen /\ "interrupted" \notin seen
    BY DEF TypeOK, ExecType, JobOutcomes
  <2> QED
    BY <1>2, <2>1, <2>2 DEF Broken, Clean
<1> QED
  BY <1>1, <1>3, <1>4 DEF healthy, vouchable

\* The phases of runDaemon and of the executor stay in step.
LEMMA LifecycleStep == IInv /\ [Next]_vars => Lifecycle'
<1> SUFFICES ASSUME TypeOK, Lifecycle, [Next]_vars PROVE Lifecycle'
  BY DEF IInv
<1> USE DEF Lifecycle, Stopping, mainVars, execVars, truthVars
<1>1. CASE Start \/ PreflightFails \/ PreflightPasses
  BY <1>1 DEF Start, PreflightFails, PreflightPasses
<1>2. CASE Decide \/ Serve
  BY <1>2 DEF Decide, Serve
<1>3. CASE BeginDrain \/ CloseListener \/ CloseQueue \/ AwaitExecutor
           \/ AwaitTicker
  BY <1>3 DEF BeginDrain, CloseListener, CloseQueue, AwaitExecutor, AwaitTicker
<1>4. CASE AwaitServer \/ Crash
  BY <1>4 DEF AwaitServer, Crash, Vanish
<1>5. CASE SigTerm \/ Recreate \/ ClockMoves \/ EditConfig
  BY <1>5 DEF SigTerm, Recreate, ClockMoves, EditConfig
<1>6. CASE \E c \in Clients : Dial(c) \/ Handler(c)
  BY <1>6 DEF Dial, Handler, Accept, Submit, Relay
<1>7. CASE StartupTick \/ IntervalTick \/ TickResult \/ TickerStops
  BY <1>7 DEF StartupTick, IntervalTick, Tick, TickResult, TickerStops
<1>8. CASE Dequeue
  <2>1. Head(queue) # NoReq
    BY <1>8, TailType, ConstantsAssumption DEF Dequeue, TypeOK, BrokerType
  <2> QED
    BY <1>8, <2>1 DEF Dequeue
<1>9. CASE ReloadFails
  BY <1>9 DEF ReloadFails, Concludes
<1>10. CASE Publish
  BY <1>10 DEF Publish, Concludes
<1>11. CASE ExecutorStops \/ Reloads \/ Advise \/ JobStarts \/ JobEnds \/ PassEnds
            \/ recordScheduled \/ Finish
  BY <1>11 DEF ExecutorStops, Reloads, Advise, JobStarts, JobEnds, PassEnds,
               recordScheduled, Finish
<1>12. CASE UNCHANGED vars
  BY <1>12 DEF vars
<1> QED
  BY <1>1, <1>2, <1>3, <1>4, <1>5, <1>6, <1>7, <1>8, <1>9, <1>10, <1>11, <1>12
     DEF Next, Main, Preflight, Shutdown, Executor, Environment

\* Nothing but the executor touches the pass, and no bookkeeping is lost.
LEMMA PassStep == IInv /\ [Next]_vars => PassInv'
<1> SUFFICES ASSUME TypeOK, Lifecycle, PassInv, [Next]_vars PROVE PassInv'
  BY DEF IInv
<1>a. /\ pass \in PassResults /\ i \in Nat /\ seen \subseteq JobOutcomes
      /\ pass.total \in Nat /\ pass.failed \in Nat
      /\ pass.interrupted \in BOOLEAN
  BY DEF TypeOK, ExecType, PassResults
<1>b. \A n : NewPass(n) = [total |-> n, ok |-> 0, emptySkipped |-> 0,
                           failed |-> 0, interrupted |-> FALSE]
  BY DEF NewPass
<1>c. ASSUME exec' \in {"off", "idle", "load", "done"},
             pass' = NewPass(0), i' = 0, seen' = {}
      PROVE  PassInv'
  BY <1>b, <1>c DEF PassInv, Broken
<1>d. ASSUME UNCHANGED <<exec, pass, i, seen>>, ctxDone => ctxDone'
      PROVE  PassInv'
  BY <1>d DEF PassInv, Broken
<1>1. CASE Start \/ PreflightPasses \/ Serve \/ BeginDrain \/ CloseListener
           \/ CloseQueue \/ AwaitExecutor \/ AwaitTicker
  BY <1>1, <1>d DEF Start, PreflightPasses, Serve, BeginDrain, CloseListener,
     CloseQueue, AwaitExecutor, AwaitTicker, execVars, runVars
<1>2. CASE PreflightFails
  BY <1>2, <1>c DEF PreflightFails, Lifecycle, PassInv, execVars, runVars
<1>3. CASE Decide
  BY <1>3, <1>c DEF Decide, Lifecycle, PassInv, runVars
<1>4. CASE AwaitServer \/ Crash
  BY <1>4, <1>c DEF AwaitServer, Crash, Vanish
<1>5. CASE SigTerm \/ Recreate \/ ClockMoves \/ EditConfig
  BY <1>5, <1>d DEF SigTerm, Recreate, ClockMoves, EditConfig, execVars, runVars
<1>6. CASE \E c \in Clients : Dial(c) \/ Handler(c)
  BY <1>6, <1>d DEF Dial, Handler, Accept, Submit, Relay, execVars, runVars
<1>7. CASE StartupTick \/ IntervalTick \/ TickResult \/ TickerStops
  BY <1>7, <1>d DEF StartupTick, IntervalTick, Tick, TickResult, TickerStops,
     execVars, runVars
<1>8. CASE Dequeue \/ ExecutorStops
  BY <1>8, <1>c DEF Dequeue, ExecutorStops, PassInv, runVars
<1>9. CASE ReloadFails
  <2>1. pass' = NewPass(0) /\ i' = 0 /\ seen' = {} /\ exec' = "record"
    BY <1>9 DEF ReloadFails, PassInv
  <2> QED
    BY <2>1, <1>b DEF PassInv, Broken
<1>10. CASE Reloads
  <2>1. JobCount[doc] \in Nat
    BY ConstantsAssumption DEF TypeOK, DiskType
  <2>2. pass' = NewPass(JobCount[doc]) /\ i' = 0 /\ seen' = {} /\ exec' = "advise"
    BY <1>10 DEF Reloads, PassInv
  <2> QED
    BY <2>1, <2>2, <1>b DEF PassInv, Broken
<1>11. CASE Advise \/ JobStarts
  BY <1>11, <1>a DEF Advise, JobStarts, PassInv, Broken, runVars
<1>12. CASE JobEnds
  <2>1. PICK o \in AllowedOutcomes(ctxDone) :
             pass' = Tally(pass, o) /\ seen' = seen \cup {o}
    BY <1>12 DEF JobEnds
  <2>2. o \in JobOutcomes /\ (o = "interrupted" => ctxDone)
    BY <2>1, AllowedSubset DEF AllowedOutcomes
  <2>3. /\ pass'.total = pass.total
        /\ pass'.failed > 0 <=> pass.failed > 0 \/ o = "failed"
        /\ pass'.interrupted <=> pass.interrupted \/ o = "interrupted"
    BY <1>a, <2>1, <2>2, TallyFields
  <2>4. exec = "job" /\ i' = i + 1 /\ exec' = "loop" /\ UNCHANGED ctxDone
    BY <1>12 DEF JobEnds
  <2>5. i' <= pass'.total
    BY <1>a, <2>3, <2>4 DEF PassInv
  <2>6. pass'.failed > 0 <=> Broken'
    BY <2>1, <2>3 DEF PassInv, Broken
  <2>7. /\ pass'.interrupted <=> "interrupted" \in seen'
        /\ pass'.interrupted => ctxDone'
    BY <2>1, <2>2, <2>3, <2>4 DEF PassInv
  <2> QED
    BY <2>4, <2>5, <2>6, <2>7 DEF PassInv
<1>13. CASE PassEnds
  <2>1. exec = "loop" /\ exec' = "publish" /\ UNCHANGED <<i, seen, ctxDone>>
    BY <1>13 DEF PassEnds
  <2>2. CASE i < pass.total
    <3>1. ctxDone /\ pass' = CutShort(pass)
      BY <1>a, <1>13, <2>2 DEF PassEnds
    <3>2. /\ pass'.total = pass.total /\ pass'.failed = pass.failed
          /\ pass'.interrupted
      BY <1>a, <3>1, CutShortFields
    <3> QED
      BY <2>1, <2>2, <3>1, <3>2 DEF PassInv, Broken
  <2>3. CASE ~(i < pass.total)
    BY <1>13, <2>1, <2>3 DEF PassEnds, PassInv, Broken
  <2> QED
    BY <2>2, <2>3
<1>14. CASE Publish \/ recordScheduled
  BY <1>14 DEF Publish, recordScheduled, PassInv, Broken, runVars
<1>15. CASE Finish
  BY <1>15, <1>c DEF Finish
<1>16. CASE UNCHANGED vars
  BY <1>16, <1>d DEF vars, execVars, runVars
<1> QED
  BY <1>1, <1>2, <1>3, <1>4, <1>5, <1>6, <1>7, <1>8, <1>9, <1>10, <1>11, <1>12,
     <1>13, <1>14, <1>15, <1>16
     DEF Next, Main, Preflight, Shutdown, Executor, Environment

\* The outcome daemon.run computes tells the truth until it is delivered.
LEMMA OutStep == IInv /\ [Next]_vars => OutInv'
<1> SUFFICES ASSUME TypeOK, Lifecycle, PassInv, OutInv, [Next]_vars PROVE OutInv'
  BY DEF IInv
<1>a. ASSUME exec' \notin {"record", "finish"} PROVE OutInv'
  BY <1>a DEF OutInv
<1>b. ASSUME UNCHANGED <<exec, out, pass, i, seen>>, ctxDone => ctxDone'
      PROVE  OutInv'
  BY <1>b DEF OutInv, Clean, Broken
<1>1. CASE Start \/ PreflightPasses \/ Serve \/ BeginDrain \/ CloseListener
           \/ CloseQueue \/ AwaitExecutor \/ AwaitTicker
  BY <1>1, <1>b DEF Start, PreflightPasses, Serve, BeginDrain, CloseListener,
     CloseQueue, AwaitExecutor, AwaitTicker, execVars, runVars
<1>2. CASE PreflightFails \/ Decide \/ AwaitServer \/ Crash
  BY <1>2, <1>a DEF PreflightFails, Decide, AwaitServer, Crash, Vanish,
     Lifecycle, execVars
<1>3. CASE SigTerm \/ Recreate \/ ClockMoves \/ EditConfig
  BY <1>3, <1>b DEF SigTerm, Recreate, ClockMoves, EditConfig, execVars, runVars
<1>4. CASE \E c \in Clients : Dial(c) \/ Handler(c)
  BY <1>4, <1>b DEF Dial, Handler, Accept, Submit, Relay, execVars, runVars
<1>5. CASE StartupTick \/ IntervalTick \/ TickResult \/ TickerStops
  BY <1>5, <1>b DEF StartupTick, IntervalTick, Tick, TickResult, TickerStops,
     execVars, runVars
<1>6. CASE Dequeue \/ ExecutorStops \/ Reloads \/ Advise \/ JobStarts \/ JobEnds
           \/ PassEnds \/ Finish
  BY <1>6, <1>a DEF Dequeue, ExecutorStops, Reloads, Advise, JobStarts, JobEnds,
     PassEnds, Finish
<1>7. CASE ReloadFails
  BY <1>7 DEF ReloadFails, OutInv
<1>8. CASE Publish
  <2>1. /\ exec = "publish"
        /\ out' = IF ~healthy(pass) THEN "failed"
                  ELSE IF pass.interrupted THEN "caveat" ELSE "ok"
        /\ UNCHANGED <<pass, i, seen, ctxDone>>
    BY <1>8 DEF Publish
  <2>2. (Clean' <=> Clean) /\ (Broken' <=> Broken)
    BY <2>1 DEF Clean, Broken
  <2>3. pass.interrupted => ctxDone
    BY DEF PassInv
  <2> QED
    BY <2>1, <2>2, <2>3, PassKinds DEF OutInv
<1>9. CASE recordScheduled
  <2>1. exec = "record" /\ UNCHANGED <<out, pass, i, seen, ctxDone>>
    BY <1>9 DEF recordScheduled, runVars
  <2> QED
    BY <2>1 DEF OutInv, Clean, Broken
<1>10. CASE UNCHANGED vars
  BY <1>10, <1>b DEF vars, execVars, runVars
<1> QED
  BY <1>1, <1>2, <1>3, <1>4, <1>5, <1>6, <1>7, <1>8, <1>9, <1>10
     DEF Next, Main, Preflight, Shutdown, Executor, Environment

\* What recordScheduled is about to write is the verdict of the pass.
LEMMA RecordingStep == IInv /\ [Next]_vars => RecordingInv'
<1> SUFFICES ASSUME TypeOK, Lifecycle, PassInv, RecordingInv, [Next]_vars
             PROVE  RecordingInv'
  BY DEF IInv
<1>a. ASSUME exec' # "record" PROVE RecordingInv'
  BY <1>a DEF RecordingInv, Recording
<1>b. ASSUME UNCHANGED <<exec, cur, out, lastPass, lastSched>>
      PROVE  RecordingInv'
  BY <1>b DEF RecordingInv, Recording
<1>1. CASE Start \/ PreflightPasses \/ Serve \/ BeginDrain \/ CloseListener
           \/ CloseQueue \/ AwaitExecutor \/ AwaitTicker
  BY <1>1, <1>b DEF Start, PreflightPasses, Serve, BeginDrain, CloseListener,
     CloseQueue, AwaitExecutor, AwaitTicker, execVars, runVars, truthVars
<1>2. CASE PreflightFails \/ Decide \/ AwaitServer \/ Crash
  BY <1>2, <1>a DEF PreflightFails, Decide, AwaitServer, Crash, Vanish,
     Lifecycle, execVars
<1>3. CASE SigTerm \/ Recreate \/ ClockMoves \/ EditConfig
  BY <1>3, <1>b DEF SigTerm, Recreate, ClockMoves, EditConfig, execVars,
     runVars, truthVars
<1>4. CASE \E c \in Clients : Dial(c) \/ Handler(c)
  BY <1>4, <1>b DEF Dial, Handler, Accept, Submit, Relay, execVars, runVars,
     truthVars
<1>5. CASE StartupTick \/ IntervalTick \/ TickResult \/ TickerStops
  BY <1>5, <1>b DEF StartupTick, IntervalTick, Tick, TickResult, TickerStops,
     execVars, runVars, truthVars
<1>6. CASE Dequeue \/ ExecutorStops \/ Reloads \/ Advise \/ JobStarts \/ JobEnds
           \/ PassEnds \/ Finish \/ recordScheduled
  BY <1>6, <1>a DEF Dequeue, ExecutorStops, Reloads, Advise, JobStarts, JobEnds,
     PassEnds, Finish, recordScheduled
<1>7. CASE ReloadFails
  BY <1>7 DEF ReloadFails, Concludes, RecordingInv, Recording
<1>8. CASE Publish
  <2>1. /\ exec = "publish" /\ UNCHANGED cur
        /\ out' = IF ~healthy(pass) THEN "failed"
                  ELSE IF pass.interrupted THEN "caveat" ELSE "ok"
        /\ exec' = IF vouchable(pass) THEN "record" ELSE "finish"
    BY <1>8 DEF Publish
  <2>2. Broken => lastPass' = "broken" /\ (cur = Ticker => lastSched' = "broken")
    BY <1>8 DEF Publish, Concludes
  <2>3. ~Broken /\ Clean =>
          lastPass' = "clean" /\ (cur = Ticker => lastSched' = "clean")
    BY <1>8 DEF Publish, Concludes
  <2> QED
    BY <2>1, <2>2, <2>3, PassKinds DEF RecordingInv, Recording
<1>9. CASE UNCHANGED vars
  BY <1>9, <1>b DEF vars, execVars, runVars, truthVars
<1> QED
  BY <1>1, <1>2, <1>3, <1>4, <1>5, <1>6, <1>7, <1>8, <1>9
     DEF Next, Main, Preflight, Shutdown, Executor, Environment

\* The health marker: written at start and at the end of a conclusive pass,
\* cleared for good when the drain begins.
LEMMA HealthStep == IInv /\ [Next]_vars => DrainNeverHealthy' /\ MarkerTruthful'
<1> SUFFICES ASSUME IInv, [Next]_vars
             PROVE  DrainNeverHealthy' /\ MarkerTruthful'
  OBVIOUS
<1> USE DEF DrainNeverHealthy, MarkerTruthful
<1>a. TypeOK /\ Lifecycle /\ DrainNeverHealthy /\ MarkerTruthful
  BY DEF IInv
<1>b. /\ marker \in BOOLEAN /\ draining \in BOOLEAN /\ recordLost \in BOOLEAN
      /\ scheduleEnabled \in BOOLEAN /\ due \in BOOLEAN
  BY <1>a DEF TypeOK, ProcessType, DiskType
<1>c. ASSUME UNCHANGED <<main, marker, draining, scheduleEnabled, due, truthVars>>
      PROVE  DrainNeverHealthy' /\ MarkerTruthful'
  BY <1>a, <1>c DEF truthVars
<1>1. CASE Start \/ PreflightFails
  <2>1. /\ marker' = FALSE /\ main' \in {"preflight", "down"}
        /\ UNCHANGED <<draining, lastPass>> /\ lastPass = "none"
    BY <1>1, <1>a DEF Start, PreflightFails, Lifecycle, truthVars
  <2> QED
    BY <2>1
<1>2. CASE PreflightPasses
  <2>1. /\ main = "preflight" /\ main' = "decide" /\ lastPass = "none"
        /\ UNCHANGED <<marker, draining, lastPass>>
    BY <1>2, <1>a DEF PreflightPasses, Lifecycle, truthVars
  <2> QED
    BY <1>a, <2>1
<1>3. CASE Decide
  <2>1. PICK writable \in BOOLEAN :
             /\ due' = ~Remaining(writable)
             /\ LatchSet(~scheduleEnabled \/ Remaining(writable))
    BY <1>3 DEF Decide
  <2>2. /\ main' = "serve" /\ lastPass = "none" /\ exec = "off" /\ ~draining
        /\ UNCHANGED <<draining, scheduleEnabled, lastPass, lastSched, recordLost>>
    BY <1>3, <1>a DEF Decide, Lifecycle, Stopping, truthVars, diskVars
  <2>3. record = "fresh" => lastSched = "clean" \/ recordLost
    BY <2>2 DEF IInv, RecordHonest, Recording
  <2>4. marker' => ~scheduleEnabled
                   \/ (~due' /\ (lastSched = "clean" \/ recordLost))
    <3>1. CASE Remaining(writable)
      <4>1. ~due'
        BY <2>1, <3>1
      <4>2. lastSched = "clean" \/ recordLost
        BY <2>3, <3>1 DEF Remaining
      <4> QED
        BY <4>1, <4>2
    <3>2. CASE ~Remaining(writable)
      <4>1. marker' => ~scheduleEnabled \/ Remaining(writable)
        BY <2>1 DEF LatchSet
      <4> QED
        BY <3>2, <4>1
    <3> QED
      BY <3>1, <3>2
  <2> QED
    BY <2>2, <2>4
<1>4. CASE Serve
  <2>1. /\ main = "serve" /\ main' = "run"
        /\ UNCHANGED <<marker, draining, scheduleEnabled, due, lastPass,
                       lastSched, recordLost>>
    BY <1>4 DEF Serve, diskVars, truthVars
  <2> QED
    BY <1>a, <2>1
<1>5. CASE BeginDrain
  BY <1>5 DEF BeginDrain
<1>6. CASE CloseListener \/ CloseQueue \/ AwaitExecutor \/ AwaitTicker
  <2>1. /\ main \in Stopping /\ main' \in Stopping
        /\ UNCHANGED <<marker, draining, scheduleEnabled, due, lastPass,
                       lastSched, recordLost>>
    BY <1>6 DEF CloseListener, CloseQueue, AwaitExecutor, AwaitTicker, diskVars,
       truthVars, Stopping
  <2> QED
    BY <1>a, <2>1 DEF Stopping
<1>7. CASE AwaitServer \/ Crash
  BY <1>7 DEF AwaitServer, Crash, Vanish
<1>8. CASE SigTerm \/ ClockMoves \/ EditConfig
  BY <1>8, <1>c DEF SigTerm, ClockMoves, EditConfig, mainVars, diskVars
<1>9. CASE Recreate
  <2>1. main = "down" /\ marker' = FALSE /\ UNCHANGED <<main, draining>>
    BY <1>9 DEF Recreate, mainVars
  <2> QED
    BY <2>1
<1>10. CASE \E c \in Clients : Dial(c) \/ Handler(c)
  BY <1>10, <1>c DEF Dial, Handler, Accept, Submit, Relay, mainVars, diskVars
<1>11. CASE StartupTick \/ IntervalTick \/ TickResult \/ TickerStops
  BY <1>11, <1>c DEF StartupTick, IntervalTick, Tick, TickResult, TickerStops,
     mainVars, diskVars
<1>12. CASE Dequeue \/ ExecutorStops \/ Reloads \/ Advise \/ JobStarts \/ JobEnds
            \/ PassEnds \/ Finish
  BY <1>12, <1>c DEF Dequeue, ExecutorStops, Reloads, Advise, JobStarts, JobEnds,
     PassEnds, Finish, mainVars, diskVars
<1>13. CASE ReloadFails
  <2>1. marker' = FALSE /\ lastPass' = "broken" /\ UNCHANGED <<main, draining>>
    BY <1>13 DEF ReloadFails, LatchSet, Concludes, mainVars
  <2> QED
    BY <2>1
<1>14. CASE Publish
  <2>1. exec = "publish" /\ UNCHANGED <<main, draining, scheduleEnabled, due>>
    BY <1>14 DEF Publish, mainVars, diskVars
  <2>2. main \notin {"down", "preflight", "decide"}
    BY <1>a, <2>1 DEF Lifecycle
  <2>3. \/ Broken /\ ~healthy(pass) /\ vouchable(pass)
        \/ /\ ~Broken /\ Clean /\ healthy(pass) /\ vouchable(pass)
        \/ ~Broken /\ ~Clean /\ ~vouchable(pass)
    BY <2>1, PassKinds DEF IInv
  <2>4. CASE Broken /\ ~healthy(pass) /\ vouchable(pass)
    <3>1. marker' = FALSE /\ lastPass' = "broken"
      BY <1>14, <2>4 DEF Publish, applyPassHealth, LatchSet, Concludes
    <3> QED
      BY <3>1
  <2>5. CASE ~Broken /\ Clean /\ healthy(pass) /\ vouchable(pass)
    <3>1. (marker' <=> ~draining) /\ lastPass' = "clean"
      BY <1>14, <2>5 DEF Publish, applyPassHealth, LatchSet, Concludes
    <3> QED
      BY <2>1, <2>2, <3>1
  <2>6. CASE ~Broken /\ ~Clean /\ ~vouchable(pass)
    <3>1. UNCHANGED <<marker, truthVars>>
      BY <1>14, <2>6 DEF Publish, applyPassHealth
    <3> QED
      BY <1>c, <2>1, <3>1
  <2> QED
    BY <2>3, <2>4, <2>5, <2>6
<1>15. CASE recordScheduled
  <2>1. /\ lastPass # "none"
        /\ UNCHANGED <<main, marker, draining, scheduleEnabled, due, lastPass>>
    BY <1>15 DEF recordScheduled, mainVars, IInv, RecordingInv
  <2> QED
    BY <1>a, <2>1
<1>16. CASE UNCHANGED vars
  BY <1>16, <1>c DEF vars, mainVars, diskVars
<1> QED
  BY <1>1, <1>2, <1>3, <1>4, <1>5, <1>6, <1>7, <1>8, <1>9, <1>10, <1>11, <1>12,
     <1>13, <1>14, <1>15, <1>16
     DEF Next, Main, Preflight, Shutdown, Executor, Environment

\* The record: written only by recordScheduled, for the pass that concluded
\* last, or left behind by a crash or a failed write that recordLost marks.
LEMMA RecordStep == IInv /\ [Next]_vars => RecordHonest'
<1> SUFFICES ASSUME IInv, [Next]_vars PROVE RecordHonest'
  OBVIOUS
<1>a. TypeOK /\ Lifecycle /\ RecordHonest /\ RecordingInv
  BY DEF IInv
<1>b. ASSUME UNCHANGED <<record, lastSched, recordLost>>, Recording => Recording'
      PROVE  RecordHonest'
  BY <1>a, <1>b DEF RecordHonest
<1>c. ASSUME UNCHANGED <<record, lastSched, recordLost>>, exec # "record"
      PROVE  RecordHonest'
  BY <1>b, <1>c DEF Recording
<1>1. CASE Start \/ PreflightFails \/ PreflightPasses \/ Serve \/ BeginDrain
           \/ CloseListener \/ CloseQueue \/ AwaitExecutor \/ AwaitTicker
  BY <1>1, <1>b DEF Start, PreflightFails, PreflightPasses, Serve, BeginDrain,
     CloseListener, CloseQueue, AwaitExecutor, AwaitTicker, Recording, execVars,
     diskVars, truthVars
<1>2. CASE Decide
  BY <1>2, <1>a, <1>c DEF Decide, Lifecycle, diskVars, truthVars
<1>3. CASE AwaitServer
  <2>1. UNCHANGED <<record, lastSched, recordLost>>
    BY <1>3 DEF AwaitServer, Vanish
  <2> QED
    BY <1>3, <1>a, <1>c, <2>1 DEF AwaitServer, Lifecycle
<1>4. CASE Crash
  <2>1. CASE Recording
    BY <1>4, <2>1 DEF Crash, RecordHonest
  <2>2. CASE ~Recording
    <3>1. UNCHANGED <<record, lastSched>> /\ (recordLost' <=> recordLost)
      BY <1>4, <2>2 DEF Crash, Vanish
    <3> QED
      BY <1>a, <2>2, <3>1 DEF RecordHonest
  <2> QED
    BY <2>1, <2>2
<1>5. CASE Recreate \/ ClockMoves
  <2>1. /\ UNCHANGED <<lastSched, recordLost>> /\ (Recording' <=> Recording)
        /\ record' \in {"fresh", "stale"} => record \in {"fresh", "stale"}
        /\ record' = "failed" => record = "failed"
    BY <1>5 DEF Recreate, ClockMoves, Recording, execVars, truthVars
  <2> QED
    BY <1>a, <2>1 DEF RecordHonest
<1>6. CASE SigTerm \/ EditConfig
  BY <1>6, <1>b DEF SigTerm, EditConfig, Recording, execVars, diskVars, truthVars
<1>7. CASE \E c \in Clients : Dial(c) \/ Handler(c)
  BY <1>7, <1>b DEF Dial, Handler, Accept, Submit, Relay, Recording, execVars,
     diskVars, truthVars
<1>8. CASE StartupTick \/ IntervalTick \/ TickResult \/ TickerStops
  BY <1>8, <1>b DEF StartupTick, IntervalTick, Tick, TickResult, TickerStops,
     Recording, execVars, diskVars, truthVars
<1>9. CASE Dequeue \/ ExecutorStops \/ Reloads \/ Advise \/ JobStarts \/ JobEnds
           \/ PassEnds \/ Finish
  BY <1>9, <1>c DEF Dequeue, ExecutorStops, Reloads, Advise, JobStarts, JobEnds,
     PassEnds, Finish, diskVars, truthVars
<1>10. CASE ReloadFails
  <2>1. /\ exec = "load" /\ exec' = "record" /\ UNCHANGED <<cur, record, recordLost>>
        /\ cur # Ticker => lastSched' = lastSched
    BY <1>10 DEF ReloadFails, Concludes, diskVars
  <2> QED
    BY <1>a, <2>1 DEF RecordHonest, Recording
<1>11. CASE Publish
  <2>1. exec = "publish" /\ UNCHANGED <<cur, record, recordLost>>
    BY <1>11 DEF Publish, Concludes, diskVars, truthVars
  <2>2. \/ vouchable(pass)
        \/ ~Broken /\ ~Clean
    BY <2>1, PassKinds DEF IInv
  <2>3. CASE vouchable(pass)
    <3>1. exec' = "record" /\ (cur # Ticker => lastSched' = lastSched)
      BY <1>11, <2>3 DEF Publish, Concludes, truthVars
    <3> QED
      BY <1>a, <2>1, <3>1 DEF RecordHonest, Recording
  <2>4. CASE ~Broken /\ ~Clean
    BY <1>11, <1>c, <2>1, <2>4 DEF Publish, truthVars
  <2> QED
    BY <2>2, <2>3, <2>4
<1>12. CASE recordScheduled
  <2>1. CASE cur = Ticker
    <3>1. lastSched = IF out = "ok" THEN "clean" ELSE "broken"
      BY <1>12, <1>a, <2>1 DEF recordScheduled, RecordingInv, Recording
    <3>2. UNCHANGED lastSched
      BY <1>12 DEF recordScheduled
    <3>3. \/ record' = IF out = "ok" THEN "fresh" ELSE "failed"
          \/ record' = "none"
          \/ recordLost'
      BY <1>12, <2>1 DEF recordScheduled
    <3> QED
      BY <3>1, <3>2, <3>3 DEF RecordHonest
  <2>2. CASE cur # Ticker
    <3>1. UNCHANGED <<record, lastSched, recordLost>>
      BY <1>12, <2>2 DEF recordScheduled
    <3> QED
      BY <1>b, <2>2, <3>1 DEF Recording
  <2> QED
    BY <2>1, <2>2
<1>13. CASE UNCHANGED vars
  BY <1>13, <1>b DEF vars, Recording, execVars, diskVars, truthVars
<1> QED
  BY <1>1, <1>2, <1>3, <1>4, <1>5, <1>6, <1>7, <1>8, <1>9, <1>10, <1>11, <1>12,
     <1>13 DEF Next, Main, Preflight, Shutdown, Executor, Environment

\* The invariant holds before the first start.
LEMMA InitIInv == Init => IInv
<1> SUFFICES ASSUME Init PROVE IInv
  OBVIOUS
<1>1. TypeOK
  BY InitType
<1>2. Lifecycle
  BY DEF Init, Lifecycle, Stopping
<1>3. PassInv
  BY DEF Init, PassInv, NewPass, Broken
<1>4. OutInv /\ RecordingInv
  BY DEF Init, OutInv, RecordingInv, Recording
<1>5. DrainNeverHealthy /\ MarkerTruthful /\ RecordHonest
  BY DEF Init, DrainNeverHealthy, MarkerTruthful, RecordHonest
<1> QED
  BY <1>1, <1>2, <1>3, <1>4, <1>5 DEF IInv

\* The inductive invariant holds through any number of lives of the daemon.
THEOREM Invariance == Safe => []IInv
<1>1. Init => IInv
  BY InitIInv
<1>2. IInv /\ [Next]_vars => IInv'
  <2> SUFFICES ASSUME IInv, [Next]_vars PROVE IInv'
    OBVIOUS
  <2>1. TypeOK'
    BY ProcessStep, DiskStep, BrokerStep, ExecStep DEF TypeOK, IInv
  <2>2. Lifecycle' /\ PassInv' /\ OutInv' /\ RecordingInv'
    BY LifecycleStep, PassStep, OutStep, RecordingStep
  <2>3. DrainNeverHealthy' /\ MarkerTruthful' /\ RecordHonest'
    BY HealthStep, RecordStep
  <2> QED
    BY <2>1, <2>2, <2>3 DEF IInv
<1> QED
  BY <1>1, <1>2, PTL DEF Safe

-------------------------------------------------------------------------------
\* The results.

\* Once the drain has begun no verdict, however late, makes the container
\* healthy again (applyPassHealth, health.Latch).
THEOREM DrainProved == Safe => []DrainNeverHealthy
<1>1. IInv => DrainNeverHealthy
  BY DEF IInv
<1> QED
  BY <1>1, Invariance, PTL

\* The health marker says what the last conclusive pass of this life was, or
\* what the start was entitled to say (runDaemon, daemon.run).
THEOREM MarkerProved == Safe => []MarkerTruthful
<1>1. IInv => MarkerTruthful
  BY DEF IInv
<1> QED
  BY <1>1, Invariance, PTL

\* The last-run record tells the last conclusive scheduled pass, but for the
\* two named ways to lose it (recordScheduled).
THEOREM RecordProved == Safe => []RecordHonest
<1>1. IInv => RecordHonest
  BY DEF IInv
<1> QED
  BY <1>1, Invariance, PTL

\* The exit code of a `sync` client is the truth about the pass run for it
\* (daemon.run, finishResult).
THEOREM ExitCodeProved == Safe => ExitCodeHonest
<1> DEFINE Honest ==
      \A c \in Clients : result'[c] \notin {result[c], "none"} =>
         /\ ExitCode(result'[c]) = 0 => cur = c /\ ~Broken
         /\ result'[c] = "ok" => Clean
         /\ result'[c] = "caveat" => ctxDone
         /\ result'[c] = "failed" => cur = c /\ Broken
<1>1. IInv /\ [Next]_vars => [Honest]_vars
  <2> SUFFICES ASSUME IInv, Next PROVE Honest
    OBVIOUS
  <2>a. TypeOK /\ OutInv
    BY DEF IInv
  <2>b. ASSUME UNCHANGED result PROVE Honest
    BY <2>b
  <2>1. CASE Finish
    <3> SUFFICES ASSUME NEW c \in Clients, result'[c] \notin {result[c], "none"}
                 PROVE  /\ ExitCode(result'[c]) = 0 => cur = c /\ ~Broken
                        /\ result'[c] = "ok" => Clean
                        /\ result'[c] = "caveat" => ctxDone
                        /\ result'[c] = "failed" => cur = c /\ Broken
      OBVIOUS
    <3>1. cur = c /\ result'[c] = out
      BY <2>1, <2>a DEF Finish, TypeOK, BrokerType, Requesters
    <3>2. /\ out = "ok" => Clean
          /\ out = "caveat" => ~Broken /\ ctxDone
          /\ out = "failed" => Broken
      BY <2>1, <2>a DEF Finish, OutInv
    <3>3. Clean => ~Broken
      BY DEF Clean, Broken
    <3> QED
      BY <3>1, <3>2, <3>3 DEF ExitCode
  <2>2. CASE Dequeue
    <3>1. \A c \in Clients : result'[c] \in {result[c], "cancelled"}
      BY <2>2, <2>a DEF Dequeue, TypeOK, BrokerType, Requesters
    <3> QED
      BY <3>1 DEF ExitCode
  <2>3. CASE AwaitServer \/ Crash
    <3>1. \A c \in Clients : result'[c] = "none"
      BY <2>3 DEF AwaitServer, Crash, Vanish, Requesters
    <3> QED
      BY <3>1
  <2>4. ASSUME NEW d \in Clients, Dial(d) \/ Handler(d) PROVE Honest
    <3>1. \A c \in Clients : result'[c] \in {result[c], "none"}
      BY <2>4, <2>a DEF Dial, Handler, Accept, Submit, Relay, TypeOK, BrokerType,
         Requesters
    <3> QED
      BY <3>1
  <2>5. CASE StartupTick \/ IntervalTick \/ TickResult \/ TickerStops
    <3>1. \A c \in Clients : result'[c] \in {result[c], "none"}
      BY <2>5, <2>a DEF StartupTick, IntervalTick, Tick, TickResult, TickerStops,
         TypeOK, BrokerType, Requesters
    <3> QED
      BY <3>1
  <2>6. CASE Start \/ PreflightFails \/ PreflightPasses \/ Decide \/ Serve
    BY <2>6, <2>b DEF Start, PreflightFails, PreflightPasses, Decide, Serve
  <2>7. CASE BeginDrain \/ CloseListener \/ CloseQueue \/ AwaitExecutor
             \/ AwaitTicker
    BY <2>7, <2>b DEF BeginDrain, CloseListener, CloseQueue, AwaitExecutor,
       AwaitTicker
  <2>8. CASE SigTerm \/ Recreate \/ ClockMoves \/ EditConfig
    BY <2>8, <2>b DEF SigTerm, Recreate, ClockMoves, EditConfig
  <2>9. CASE ExecutorStops \/ ReloadFails \/ Reloads \/ Advise \/ JobStarts \/ JobEnds
             \/ PassEnds \/ Publish \/ recordScheduled
    BY <2>9, <2>b DEF ExecutorStops, ReloadFails, Reloads, Advise, JobStarts, JobEnds,
       PassEnds, Publish, recordScheduled
  <2> HIDE DEF Honest
  <2> QED
    BY <2>1, <2>2, <2>3, <2>4, <2>5, <2>6, <2>7, <2>8, <2>9
       DEF Next, Main, Preflight, Shutdown, Executor, Environment
<1> QED
  BY <1>1, Invariance, PTL DEF Safe, ExitCodeHonest

-------------------------------------------------------------------------------
\* The pass and its log line, on top of IInv.

\* The pass-level log line is written when the pass is published and is gone
\* when its request is.
LogInv ==
    /\ exec \notin {"record", "finish"} => logged = "none"
    /\ HeartbeatMeansComplete

\* Only Publish writes the log line.
LEMMA LogStep == IInv /\ LogInv /\ [Next]_vars => LogInv'
<1> SUFFICES ASSUME IInv, LogInv, [Next]_vars PROVE LogInv'
  OBVIOUS
<1>a. TypeOK /\ Lifecycle /\ PassInv
  BY DEF IInv
<1>b. i \in Nat /\ pass.total \in Nat /\ pass.interrupted \in BOOLEAN
  BY <1>a DEF TypeOK, ExecType, PassResults
<1>c. ASSUME UNCHANGED <<exec, pass, i, logged, seen>> PROVE LogInv'
  BY <1>c DEF LogInv, HeartbeatMeansComplete
<1>d. ASSUME exec' \notin {"record", "finish"}, logged' = "none" PROVE LogInv'
  BY <1>d DEF LogInv, HeartbeatMeansComplete
<1>1. CASE Start \/ PreflightFails \/ PreflightPasses \/ Serve \/ BeginDrain
           \/ CloseListener \/ CloseQueue \/ AwaitExecutor \/ AwaitTicker
  BY <1>1, <1>c DEF Start, PreflightFails, PreflightPasses, Serve, BeginDrain,
     CloseListener, CloseQueue, AwaitExecutor, AwaitTicker, execVars, runVars
<1>2. CASE Decide
  <2>1. exec' = "idle" /\ exec = "off" /\ logged' = logged
    BY <1>2, <1>a DEF Decide, Lifecycle, runVars
  <2> QED
    BY <1>d, <2>1 DEF LogInv
<1>3. CASE AwaitServer \/ Crash
  BY <1>3, <1>d DEF AwaitServer, Crash, Vanish
<1>4. CASE SigTerm \/ Recreate \/ ClockMoves \/ EditConfig
  BY <1>4, <1>c DEF SigTerm, Recreate, ClockMoves, EditConfig, execVars, runVars
<1>5. CASE \E c \in Clients : Dial(c) \/ Handler(c)
  BY <1>5, <1>c DEF Dial, Handler, Accept, Submit, Relay, execVars, runVars
<1>6. CASE StartupTick \/ IntervalTick \/ TickResult \/ TickerStops
  BY <1>6, <1>c DEF StartupTick, IntervalTick, Tick, TickResult, TickerStops,
     execVars, runVars
<1>7. CASE Dequeue \/ ExecutorStops \/ Reloads \/ Advise \/ JobStarts \/ JobEnds
           \/ PassEnds
  <2>1. /\ exec \notin {"record", "finish"} /\ exec' \notin {"record", "finish"}
        /\ logged' = logged
    BY <1>7 DEF Dequeue, ExecutorStops, Reloads, Advise, JobStarts, JobEnds,
       PassEnds, runVars
  <2> QED
    BY <1>d, <2>1 DEF LogInv
<1>8. CASE ReloadFails
  BY <1>8 DEF ReloadFails, LogInv, HeartbeatMeansComplete
<1>9. CASE Publish
  <2>1. /\ exec = "publish" /\ exec' \in {"record", "finish"}
        /\ logged' = IF pass.interrupted THEN "interrupted" ELSE "complete"
        /\ UNCHANGED <<pass, i, seen>>
    BY <1>9 DEF Publish, reportPass
  <2>2. ~pass.interrupted => "interrupted" \notin seen /\ i = pass.total
    BY <1>a, <1>b, <2>1 DEF PassInv
  <2> QED
    BY <2>1, <2>2 DEF LogInv, HeartbeatMeansComplete
<1>10. CASE recordScheduled
  BY <1>10 DEF recordScheduled, runVars, LogInv, HeartbeatMeansComplete
<1>11. CASE Finish
  BY <1>11, <1>d DEF Finish
<1>12. CASE UNCHANGED vars
  BY <1>12, <1>c DEF vars, execVars, runVars
<1> QED
  BY <1>1, <1>2, <1>3, <1>4, <1>5, <1>6, <1>7, <1>8, <1>9, <1>10, <1>11, <1>12
     DEF Next, Main, Preflight, Shutdown, Executor, Environment

\* The digest kept is of the document the last advisories are about; a process
\* that has not passed its preflight has none, and what is about to be advised
\* on has been loaded.
AdviceInv ==
    /\ told = advised
    /\ main \in {"down", "preflight"} => advised = NoDoc
    /\ exec = "advise" => loaded # NoDoc
    /\ AdvisedOnce

\* Only the preflight and the step between a reload and its pass advise, and a
\* pass keeps the document it was loaded with.
LEMMA AdviceStep == IInv /\ AdviceInv /\ [Next]_vars => AdviceInv'
<1> SUFFICES ASSUME IInv, AdviceInv, [Next]_vars PROVE AdviceInv'
  OBVIOUS
<1>a. TypeOK /\ Lifecycle
  BY DEF IInv
<1>b. doc \in Docs /\ doc # NoDoc
  BY <1>a, ConstantsAssumption DEF TypeOK, DiskType
<1>c. ASSUME UNCHANGED <<exec, loaded, adviceVars>>,
             main' \in {"down", "preflight"} => main \in {"down", "preflight"}
      PROVE  AdviceInv'
  BY <1>c DEF AdviceInv, AdvisedOnce, InPass, adviceVars
\* A step of the executor: main is past its preflight and stays where it is.
<1>d. ASSUME UNCHANGED main, UNCHANGED adviceVars,
             exec' \in {"advise", "loop", "job", "publish"} =>
               loaded' # NoDoc /\ (exec' # "advise" => told = loaded')
      PROVE  AdviceInv'
  BY <1>d DEF AdviceInv, AdvisedOnce, InPass, adviceVars
<1>1. CASE Start \/ PreflightFails \/ Serve \/ BeginDrain \/ CloseListener
           \/ CloseQueue \/ AwaitExecutor \/ AwaitTicker
  <2>1. /\ UNCHANGED <<exec, loaded, adviceVars>>
        /\ main' \in {"down", "preflight"} => main \in {"down", "preflight"}
    BY <1>1 DEF Start, PreflightFails, Serve, BeginDrain, CloseListener,
       CloseQueue, AwaitExecutor, AwaitTicker, execVars, runVars
  <2> QED
    BY <1>c, <2>1
<1>2. CASE PreflightPasses
  <2>1. main = "preflight" /\ main' = "decide" /\ exec' = exec /\ exec = "off"
    BY <1>2, <1>a DEF PreflightPasses, Lifecycle
  <2>2. told' = doc /\ nagged' = (nagged \/ told = doc) /\ advised' = doc
    BY <1>2 DEF PreflightPasses, adviseConfig
  <2>3. told = NoDoc /\ ~nagged
    BY <2>1 DEF AdviceInv, AdvisedOnce
  <2> QED
    BY <1>b, <2>1, <2>2, <2>3 DEF AdviceInv, AdvisedOnce, InPass
<1>3. CASE Decide
  <2>1. /\ main = "decide" /\ main' = "serve" /\ exec' = "idle"
        /\ UNCHANGED adviceVars
    BY <1>3 DEF Decide
  <2> QED
    BY <2>1 DEF AdviceInv, AdvisedOnce, InPass, adviceVars
<1>4. CASE AwaitServer \/ Crash
  <2>1. /\ main' = "down" /\ exec' = "off" /\ advised' = NoDoc
        /\ told' = NoDoc /\ nagged' = FALSE
    BY <1>4 DEF AwaitServer, Crash, Vanish
  <2> QED
    BY <2>1 DEF AdviceInv, AdvisedOnce, InPass
<1>5. CASE SigTerm \/ Recreate \/ ClockMoves \/ EditConfig
  BY <1>5, <1>c DEF SigTerm, Recreate, ClockMoves, EditConfig, execVars, runVars,
     mainVars
<1>6. CASE \E c \in Clients : Dial(c) \/ Handler(c)
  BY <1>6, <1>c DEF Dial, Handler, Accept, Submit, Relay, execVars, runVars,
     mainVars
<1>7. CASE StartupTick \/ IntervalTick \/ TickResult \/ TickerStops
  BY <1>7, <1>c DEF StartupTick, IntervalTick, Tick, TickResult, TickerStops,
     execVars, runVars, mainVars
<1>8. CASE Dequeue \/ ExecutorStops \/ ReloadFails \/ Publish \/ recordScheduled
           \/ Finish
  <2>1. /\ exec' \notin {"advise", "loop", "job", "publish"}
        /\ UNCHANGED <<main, adviceVars>>
    BY <1>8 DEF Dequeue, ExecutorStops, ReloadFails, Publish, recordScheduled,
       Finish, mainVars
  <2> QED
    BY <1>d, <2>1
<1>9. CASE Reloads
  <2>1. loaded' = doc /\ exec' = "advise" /\ UNCHANGED <<main, adviceVars>>
    BY <1>9 DEF Reloads, mainVars
  <2> QED
    BY <1>b, <1>d, <2>1
<1>10. CASE Advise
  <2>1. /\ exec = "advise" /\ exec' = "loop" /\ UNCHANGED <<main, loaded>>
        /\ AdviseIfNew
    BY <1>10 DEF Advise, mainVars, runVars
  <2>2. told = advised /\ ~nagged /\ loaded # NoDoc
    BY <2>1 DEF AdviceInv, AdvisedOnce
  <2>3. main \notin {"down", "preflight"}
    BY <1>a, <2>1 DEF Lifecycle
  <2>4. told' = loaded /\ advised' = loaded /\ ~nagged'
    <3>1. CASE loaded # advised
      BY <2>1, <2>2, <3>1 DEF AdviseIfNew, adviseConfig
    <3>2. CASE loaded = advised
      BY <2>1, <2>2, <3>2 DEF AdviseIfNew, adviceVars
    <3> QED
      BY <3>1, <3>2
  <2> QED
    BY <2>1, <2>2, <2>3, <2>4 DEF AdviceInv, AdvisedOnce, InPass
<1>11. CASE JobStarts \/ JobEnds \/ PassEnds
  <2>1. /\ exec \in {"loop", "job"} /\ exec' \in {"loop", "job", "publish"}
        /\ UNCHANGED <<main, loaded, adviceVars>>
    BY <1>11 DEF JobStarts, JobEnds, PassEnds, mainVars, runVars
  <2>2. loaded # NoDoc /\ told = loaded
    BY <2>1 DEF AdviceInv, AdvisedOnce, InPass
  <2> QED
    BY <1>d, <2>1, <2>2
<1>12. CASE UNCHANGED vars
  BY <1>12, <1>c DEF vars, execVars, runVars, mainVars
<1> QED
  BY <1>1, <1>2, <1>3, <1>4, <1>5, <1>6, <1>7, <1>8, <1>9, <1>10, <1>11, <1>12
     DEF Next, Main, Preflight, Shutdown, Executor, Environment

\* Every pass runs on the document the operator was last advised about, and no
\* document is advised about twice in a row, whatever edits config.yaml sees
\* (runDaemon, daemon.run).
THEOREM AdviceProved == Safe => []AdvisedOnce
<1>1. Init => AdviceInv
  BY DEF Init, AdviceInv, AdvisedOnce, InPass
<1>2. AdviceInv => AdvisedOnce
  BY DEF AdviceInv
<1> QED
  BY <1>1, <1>2, AdviceStep, Invariance, PTL DEF Safe

\* "sync cycle complete" is logged only for a pass in which every job was
\* reached and none was interrupted (reportPass).
THEOREM HeartbeatProved == Safe => []HeartbeatMeansComplete
<1>1. Init => LogInv
  BY DEF Init, LogInv, HeartbeatMeansComplete
<1>2. LogInv => HeartbeatMeansComplete
  BY DEF LogInv
<1> QED
  BY <1>1, <1>2, LogStep, Invariance, PTL DEF Safe

\* A pass that was cut short with no failed job leaves the marker and the
\* record as they were (applyPassHealth, recordScheduled).
THEOREM CutPassProved == Safe => CutPassLeavesNoTrace
<1> DEFINE NoTrace ==
      InPass /\ ~Clean /\ ~Broken /\ exec' \in {"record", "finish"}
        => exec' = "finish" /\ UNCHANGED <<marker, record>>
<1>1. IInv /\ [Next]_vars => [NoTrace]_vars
  <2> SUFFICES ASSUME IInv, Next, InPass, ~Clean, ~Broken,
                      exec' \in {"record", "finish"}
               PROVE  exec' = "finish" /\ UNCHANGED <<marker, record>>
    OBVIOUS
  <2>1. CASE Publish
    <3>1. ~vouchable(pass)
      BY <2>1, PassKinds DEF IInv, Publish
    <3> QED
      BY <2>1, <3>1 DEF Publish, applyPassHealth, diskVars
  <2>2. CASE Executor
    <3>1. ~(Dequeue \/ ExecutorStops \/ ReloadFails \/ Reloads \/ Advise \/ JobStarts
            \/ JobEnds \/ PassEnds \/ recordScheduled \/ Finish)
      BY DEF InPass, Dequeue, ExecutorStops, ReloadFails, Reloads, Advise, JobStarts,
         JobEnds, PassEnds, recordScheduled, Finish
    <3> QED
      BY <2>1, <2>2, <3>1 DEF Executor
  <2>3. ~Main
    <3>1. ~(PreflightFails \/ PreflightPasses \/ Decide \/ Serve)
      BY DEF InPass, PreflightFails, PreflightPasses, Decide, Serve, execVars
    <3>2. ~(BeginDrain \/ CloseListener \/ CloseQueue \/ AwaitExecutor
            \/ AwaitTicker \/ AwaitServer)
      BY DEF InPass, BeginDrain, CloseListener, CloseQueue, AwaitExecutor,
         AwaitTicker, AwaitServer, Vanish, execVars
    <3> QED
      BY <3>1, <3>2 DEF Main, Preflight, Shutdown
  <2>4. ~(StartupTick \/ IntervalTick \/ TickResult \/ TickerStops)
    BY DEF InPass, StartupTick, IntervalTick, Tick, TickResult, TickerStops,
       execVars
  <2>5. \A c \in Clients : ~(Dial(c) \/ Handler(c))
    BY DEF InPass, Dial, Handler, Accept, Submit, Relay, execVars
  <2>6. ~(Start \/ SigTerm \/ Crash \/ Recreate \/ ClockMoves \/ EditConfig)
    BY DEF InPass, Start, SigTerm, Crash, Vanish, Recreate, ClockMoves,
       EditConfig, execVars
  <2> QED
    BY <2>2, <2>3, <2>4, <2>5, <2>6 DEF Next, Environment
<1> QED
  BY <1>1, Invariance, PTL DEF Safe, CutPassLeavesNoTrace

-------------------------------------------------------------------------------
\* The broker: who waits, what is queued, and the refinement of PassServer.

\* Who is in a queue after a submission.
LEMMA AppendMembers ==
    ASSUME NEW q \in Seq(Requesters), NEW x \in Requesters, NEW r
    PROVE  (\E k \in 1..Len(Append(q, x)) : Append(q, x)[k] = r)
             <=> (\E k \in 1..Len(q) : q[k] = r) \/ r = x
<1>1. /\ Len(q) \in Nat /\ Len(Append(q, x)) = Len(q) + 1
      /\ \A k \in 1..Len(q) : Append(q, x)[k] = q[k]
      /\ Append(q, x)[Len(q) + 1] = x
  BY AppendProperties, LenProperties
<1> QED
  BY <1>1

\* A submission by somebody who is not in the queue leaves no doubles in it.
LEMMA AppendDistinct ==
    ASSUME NEW q \in Seq(Requesters), NEW x \in Requesters,
           \A j, k \in 1..Len(q) : q[j] = q[k] => j = k,
           \A k \in 1..Len(q) : q[k] # x
    PROVE  \A j, k \in 1..Len(Append(q, x)) :
               Append(q, x)[j] = Append(q, x)[k] => j = k
<1>1. /\ Len(q) \in Nat /\ Len(Append(q, x)) = Len(q) + 1
      /\ \A k \in 1..Len(q) : Append(q, x)[k] = q[k]
      /\ Append(q, x)[Len(q) + 1] = x
  BY AppendProperties, LenProperties
<1> QED
  BY <1>1

\* Who is left after the executor took the oldest request: all the others.
LEMMA TailMembers ==
    ASSUME NEW q \in Seq(Requesters), q # <<>>, NEW r,
           \A j, k \in 1..Len(q) : q[j] = q[k] => j = k
    PROVE  /\ Head(q) = q[1] /\ 1 \in 1..Len(q)
           /\ (\E k \in 1..Len(Tail(q)) : Tail(q)[k] = r)
                <=> (\E k \in 1..Len(q) : q[k] = r) /\ r # Head(q)
<1>1. /\ Len(q) \in Nat \ {0} /\ Len(Tail(q)) = Len(q) - 1
      /\ \A k \in 1..Len(Tail(q)) : Tail(q)[k] = q[k + 1]
      /\ Head(q) = q[1]
  BY HeadTailProperties, EmptySeq
<1>2. ASSUME NEW k \in 1..Len(Tail(q)), Tail(q)[k] = r
      PROVE  (\E j \in 1..Len(q) : q[j] = r) /\ r # Head(q)
  <2>1. k + 1 \in 1..Len(q) /\ k + 1 # 1 /\ 1 \in 1..Len(q) /\ q[k + 1] = r
    BY <1>1, <1>2
  <2> QED
    BY <1>1, <2>1
<1>3. ASSUME NEW k \in 1..Len(q), q[k] = r, r # Head(q)
      PROVE  \E j \in 1..Len(Tail(q)) : Tail(q)[j] = r
  <2>1. k # 1 /\ k - 1 \in 1..Len(Tail(q)) /\ (k - 1) + 1 = k
    BY <1>1, <1>3
  <2> QED
    BY <1>1, <1>3, <2>1
<1>4. Head(q) = q[1] /\ 1 \in 1..Len(q)
  BY <1>1
<1>5. (\E k \in 1..Len(Tail(q)) : Tail(q)[k] = r)
        <=> (\E k \in 1..Len(q) : q[k] = r) /\ r # Head(q)
  BY ONLY <1>2, <1>3, Zenon
<1> QED
  BY <1>4, <1>5

\* ... and they stay distinct.
LEMMA TailDistinct ==
    ASSUME NEW q \in Seq(Requesters), q # <<>>,
           \A j, k \in 1..Len(q) : q[j] = q[k] => j = k
    PROVE  \A j, k \in 1..Len(Tail(q)) : Tail(q)[j] = Tail(q)[k] => j = k
<1>1. /\ Len(q) \in Nat \ {0} /\ Len(Tail(q)) = Len(q) - 1
      /\ \A k \in 1..Len(Tail(q)) : Tail(q)[k] = q[k + 1]
  BY HeadTailProperties, EmptySeq
<1> SUFFICES ASSUME NEW j \in 1..Len(Tail(q)), NEW k \in 1..Len(Tail(q)),
                    Tail(q)[j] = Tail(q)[k]
             PROVE  j = k
  OBVIOUS
<1>2. j + 1 \in 1..Len(q) /\ k + 1 \in 1..Len(q) /\ q[j + 1] = q[k + 1]
  BY <1>1
<1>3. j + 1 = k + 1
  BY <1>2
<1> QED
  BY <1>1, <1>3

\* AcceptedIsHeld is not inductive alone: a handler that submits must find no
\* answer left over from an earlier request, and the ticker must not exist
\* before startTicker.
BrokerInv ==
    /\ AcceptedIsHeld
    /\ \A r \in Requesters : result[r] # "none" => Waiting(r)
    /\ main \in {"down", "preflight", "decide", "serve"} => ticker = "off"

\* Waiting, the queue, the running request and the answers move together.
LEMMA BrokerInvStep == IInv /\ BrokerInv /\ [Next]_vars => BrokerInv'
<1> SUFFICES ASSUME IInv, BrokerInv, [Next]_vars PROVE BrokerInv'
  OBVIOUS
<1>a. TypeOK /\ Lifecycle /\ OutInv
  BY DEF IInv
<1>b. /\ queue \in Seq(Requesters) /\ result \in [Requesters -> Results]
      /\ conn \in [Clients -> {"none", "backlog", "decoding", "waiting"}]
      /\ cur \in Requesters \cup {NoReq}
  BY <1>a DEF TypeOK, BrokerType, ExecType
<1>c. Ticker \notin Clients /\ NoReq \notin Requesters
  BY ConstantsAssumption
<1>d. /\ \A r \in Requesters :
           /\ Waiting(r) /\ result[r] = "none" <=> InQueue(r) \/ cur = r
           /\ ~(InQueue(r) /\ cur = r)
           /\ result[r] # "none" => Waiting(r)
      /\ \A j, k \in 1..Len(queue) : queue[j] = queue[k] => j = k
  BY DEF BrokerInv, AcceptedIsHeld
\* A step that moves nobody into or out of the waiting state.
<1>e. ASSUME UNCHANGED <<queue, result, cur>>,
             \A r \in Requesters : Waiting(r)' <=> Waiting(r),
             main' \in {"down", "preflight", "decide", "serve"} => ticker' = "off"
      PROVE  BrokerInv'
  <2>1. \A r \in Requesters : InQueue(r)' <=> InQueue(r)
    BY <1>e DEF InQueue
  <2> QED
    BY <1>d, <1>e, <2>1 DEF BrokerInv, AcceptedIsHeld
<1>f. ASSUME UNCHANGED <<ticker, conn>>
      PROVE  \A r \in Requesters : Waiting(r)' <=> Waiting(r)
  BY <1>f DEF Waiting
<1>g. \A c \in Clients : c \in Requesters /\ c # Ticker
  BY <1>c DEF Requesters
<1>1. CASE Start \/ PreflightFails \/ PreflightPasses \/ Decide
  <2>1. UNCHANGED <<queue, result, cur, ticker, conn>> /\ ticker = "off"
    BY <1>1 DEF Start, PreflightFails, PreflightPasses, Decide, execVars,
       BrokerInv
  <2> QED
    BY <1>e, <1>f, <2>1
<1>2. CASE Serve
  <2>1. /\ UNCHANGED <<queue, result, cur, conn>> /\ main' = "run"
        /\ ticker = "off" /\ ticker' # "wait"
    BY <1>2 DEF Serve, execVars, BrokerInv
  <2>2. \A r \in Requesters : Waiting(r)' <=> Waiting(r)
    BY <2>1 DEF Waiting
  <2> QED
    BY <1>e, <2>1, <2>2 DEF BrokerInv
<1>3. CASE BeginDrain \/ CloseQueue \/ AwaitExecutor \/ AwaitTicker
  <2>1. /\ UNCHANGED <<queue, result, cur, ticker, conn>>
        /\ main' \notin {"down", "preflight", "decide", "serve"}
    BY <1>3 DEF BeginDrain, CloseQueue, AwaitExecutor, AwaitTicker, execVars
  <2> QED
    BY <1>e, <1>f, <2>1
<1>4. CASE CloseListener
  <2>1. UNCHANGED <<queue, result, cur, ticker>> /\ main' = "closequeue"
    BY <1>4 DEF CloseListener, execVars
  <2>2. \A c \in Clients : conn'[c] = "waiting" <=> conn[c] = "waiting"
    BY <1>4, <1>b DEF CloseListener
  <2>3. \A r \in Requesters : Waiting(r)' <=> Waiting(r)
    BY <2>1, <2>2 DEF Waiting, Requesters
  <2> QED
    BY <1>e, <2>1, <2>2, <2>3
<1>5. CASE AwaitServer \/ Crash
  <2>1. Vanish
    BY <1>5 DEF AwaitServer, Crash
  <2>2. /\ queue' = <<>> /\ cur' = NoReq /\ ticker' = "off"
        /\ result' = [r \in Requesters |-> "none"]
        /\ conn' = [c \in Clients |-> "none"]
    BY <2>1 DEF Vanish
  <2>3. \A c \in Clients : conn'[c] # "waiting"
    BY <2>2
  <2>4. \A r \in Requesters : ~Waiting(r)' /\ ~InQueue(r)'
    BY <2>2, <2>3 DEF Waiting, InQueue, Requesters
  <2>5. \A j, k \in 1..Len(queue') : queue'[j] = queue'[k] => j = k
    BY <2>2
  <2> QED
    BY <1>c, <2>2, <2>3, <2>4, <2>5 DEF BrokerInv, AcceptedIsHeld
<1>6. CASE SigTerm \/ Recreate \/ ClockMoves \/ EditConfig
  <2>1. UNCHANGED <<queue, result, cur, ticker, conn, main>>
    BY <1>6 DEF SigTerm, Recreate, ClockMoves, EditConfig, execVars, mainVars
  <2> QED
    BY <1>e, <1>f, <2>1 DEF BrokerInv
<1>7. ASSUME NEW c \in Clients, Dial(c) \/ Accept(c) PROVE BrokerInv'
  <2>1. /\ UNCHANGED <<queue, result, cur, ticker, main>>
        /\ conn[c] \in {"none", "backlog"}
        /\ \E s \in {"backlog", "decoding"} : conn' = [conn EXCEPT ![c] = s]
    BY <1>7 DEF Dial, Accept, execVars, mainVars
  <2>2. \A r \in Requesters : Waiting(r)' <=> Waiting(r)
    BY <1>b, <2>1 DEF Waiting, Requesters
  <2> QED
    BY <1>e, <2>1, <2>2 DEF BrokerInv
<1>8. ASSUME NEW c \in Clients, Submit(c) PROVE BrokerInv'
  <2>1. conn[c] = "decoding" /\ UNCHANGED <<result, cur, ticker, main>>
    BY <1>8 DEF Submit, execVars, mainVars
  <2>2. CASE Admits
    <3>1. /\ queue' = Append(queue, c)
          /\ conn' = [conn EXCEPT ![c] = "waiting"]
      BY <1>8, <2>2 DEF Submit
    <3>2. ~Waiting(c) /\ ~InQueue(c) /\ cur # c /\ result[c] = "none"
      BY <1>d, <1>g, <2>1 DEF Waiting
    <3>3. \A r \in Requesters : InQueue(r)' <=> InQueue(r) \/ r = c
      BY <1>b, <1>g, <3>1, AppendMembers DEF InQueue
    <3>4. \A j, k \in 1..Len(queue') : queue'[j] = queue'[k] => j = k
      BY <1>b, <1>d, <1>g, <3>1, <3>2, AppendDistinct DEF InQueue
    <3>5. \A r \in Requesters : Waiting(r)' <=> Waiting(r) \/ r = c
      BY <1>b, <1>g, <2>1, <3>1 DEF Waiting, Requesters
    <3> QED
      BY <1>d, <2>1, <3>2, <3>3, <3>4, <3>5
         DEF BrokerInv, AcceptedIsHeld
  <2>3. CASE ~Admits
    <3>1. UNCHANGED queue /\ conn' = [conn EXCEPT ![c] = "none"]
      BY <1>8, <2>3 DEF Submit
    <3>2. \A r \in Requesters : Waiting(r)' <=> Waiting(r)
      BY <1>b, <2>1, <3>1 DEF Waiting, Requesters
    <3> QED
      BY <1>e, <2>1, <3>1, <3>2 DEF BrokerInv
  <2> QED
    BY <2>2, <2>3
<1>9. ASSUME NEW c \in Clients, Relay(c) PROVE BrokerInv'
  <2>1. /\ conn[c] = "waiting" /\ result[c] # "none"
        /\ conn' = [conn EXCEPT ![c] = "none"]
        /\ result' = [result EXCEPT ![c] = "none"]
        /\ UNCHANGED <<queue, cur, ticker, main>>
    BY <1>9 DEF Relay, execVars, mainVars
  <2>2. ~InQueue(c) /\ cur # c
    BY <1>d, <1>g, <2>1
  <2>3. \A r \in Requesters : /\ InQueue(r)' <=> InQueue(r)
                              /\ Waiting(r)' <=> Waiting(r) /\ r # c
                              /\ r # c => result'[r] = result[r]
    BY <1>b, <1>g, <2>1 DEF InQueue, Waiting, Requesters
  <2>4. result'[c] = "none"
    BY <1>b, <1>g, <2>1
  <2> QED
    BY <1>d, <2>1, <2>2, <2>3, <2>4 DEF BrokerInv, AcceptedIsHeld
<1>10. CASE StartupTick \/ IntervalTick
  <2>1. PICK from \in {"startup", "sleep"} : Tick(from)
    BY <1>10 DEF StartupTick, IntervalTick
  <2>2. /\ ticker \in {"startup", "sleep"}
        /\ UNCHANGED <<result, cur, conn, main>>
    BY <2>1 DEF Tick, execVars, mainVars
  <2>3. main \notin {"down", "preflight", "decide", "serve"}
    BY <2>2 DEF BrokerInv
  <2>4. Ticker \in Requesters
    BY DEF Requesters
  <2>5. CASE Admits
    <3>1. queue' = Append(queue, Ticker) /\ ticker' = "wait"
      BY <2>1, <2>5 DEF Tick
    <3>2. /\ ~Waiting(Ticker) /\ ~InQueue(Ticker) /\ cur # Ticker
          /\ result[Ticker] = "none"
      BY <1>d, <2>2, <2>4 DEF Waiting
    <3>3. \A r \in Requesters : InQueue(r)' <=> InQueue(r) \/ r = Ticker
      BY <1>b, <2>4, <3>1, AppendMembers DEF InQueue
    <3>4. \A j, k \in 1..Len(queue') : queue'[j] = queue'[k] => j = k
      BY <1>b, <1>d, <2>4, <3>1, <3>2, AppendDistinct DEF InQueue
    <3>5. \A r \in Requesters : Waiting(r)' <=> Waiting(r) \/ r = Ticker
      BY <2>2, <3>1 DEF Waiting
    <3> QED
      BY <1>d, <2>2, <2>3, <3>2, <3>3, <3>4, <3>5
         DEF BrokerInv, AcceptedIsHeld
  <2>6. CASE ~Admits
    <3>1. UNCHANGED queue /\ ticker' = "sleep"
      BY <2>1, <2>6 DEF Tick
    <3>2. \A r \in Requesters : Waiting(r)' <=> Waiting(r)
      BY <2>2, <3>1 DEF Waiting
    <3> QED
      BY <1>e, <2>2, <2>3, <3>1, <3>2 DEF BrokerInv
  <2> QED
    BY <2>5, <2>6
<1>11. CASE TickResult
  <2>1. /\ ticker = "wait" /\ ticker' = "sleep" /\ result[Ticker] # "none"
        /\ result' = [result EXCEPT ![Ticker] = "none"]
        /\ UNCHANGED <<queue, cur, conn, main>>
    BY <1>11 DEF TickResult, execVars, mainVars
  <2>2. Ticker \in Requesters
    BY DEF Requesters
  <2>3. ~InQueue(Ticker) /\ cur # Ticker
    BY <1>d, <2>1, <2>2
  <2>4. \A r \in Requesters : /\ InQueue(r)' <=> InQueue(r)
                              /\ Waiting(r)' <=> Waiting(r) /\ r # Ticker
                              /\ r # Ticker => result'[r] = result[r]
    BY <1>b, <2>1 DEF InQueue, Waiting
  <2>5. result'[Ticker] = "none"
    BY <1>b, <2>1, <2>2
  <2> QED
    BY <1>d, <2>1, <2>3, <2>4, <2>5 DEF BrokerInv, AcceptedIsHeld
<1>12. CASE TickerStops
  <2>1. /\ ticker = "sleep" /\ ticker' = "done"
        /\ UNCHANGED <<queue, result, cur, conn, main>>
    BY <1>12 DEF TickerStops, execVars, mainVars
  <2>2. \A r \in Requesters : Waiting(r)' <=> Waiting(r)
    BY <2>1 DEF Waiting
  <2> QED
    BY <1>e, <2>1, <2>2 DEF BrokerInv
<1>13. CASE Dequeue
  <2>1. /\ exec = "idle" /\ queue # <<>> /\ queue' = Tail(queue)
        /\ UNCHANGED <<ticker, conn, main>>
    BY <1>13 DEF Dequeue, mainVars
  <2>2. cur = NoReq
    BY <1>a, <2>1 DEF Lifecycle
  <2>3. Head(queue) \in Requesters /\ InQueue(Head(queue))
    BY <1>b, <1>d, <2>1, HeadTailProperties, TailMembers DEF InQueue
  <2>4. \A r \in Requesters : InQueue(r)' <=> InQueue(r) /\ r # Head(queue)
    BY ZenonT(40), <1>b, <1>d, <2>1, TailMembers DEF InQueue
  <2>5. \A j, k \in 1..Len(queue') : queue'[j] = queue'[k] => j = k
    BY <1>b, <1>d, <2>1, TailDistinct
  <2>6. Waiting(Head(queue)) /\ result[Head(queue)] = "none"
    BY <1>d, <2>3
  <2>7. CASE ctxDone
    <3>1. result' = [result EXCEPT ![Head(queue)] = "cancelled"] /\ cur' = cur
      BY <1>13, <2>7 DEF Dequeue
    <3>2. /\ result'[Head(queue)] = "cancelled"
          /\ \A r \in Requesters : r # Head(queue) => result'[r] = result[r]
      BY <1>b, <2>3, <3>1
    <3> QED
      BY <1>c, <1>d, <1>f, <2>1, <2>2, <2>4, <2>5, <2>6, <3>1, <3>2
         DEF BrokerInv, AcceptedIsHeld
  <2>8. CASE ~ctxDone
    <3>1. cur' = Head(queue) /\ result' = result
      BY <1>13, <2>8 DEF Dequeue
    <3> QED
      BY <1>c, <1>d, <1>f, <2>1, <2>2, <2>3, <2>4, <2>5, <2>6, <3>1
         DEF BrokerInv, AcceptedIsHeld
  <2> QED
    BY <2>7, <2>8
<1>14. CASE Finish
  <2>1. /\ exec = "finish" /\ result' = [result EXCEPT ![cur] = out]
        /\ cur' = NoReq /\ UNCHANGED <<queue, ticker, conn, main>>
    BY <1>14 DEF Finish, mainVars
  <2>2. cur \in Requesters /\ out # "none"
    BY <1>a, <1>b, <2>1 DEF Lifecycle, OutInv
  <2>3. Waiting(cur) /\ ~InQueue(cur)
    BY <1>d, <2>2
  <2>4. /\ result'[cur] = out
        /\ \A r \in Requesters : r # cur => result'[r] = result[r]
    BY <1>b, <2>1, <2>2
  <2>5. \A r \in Requesters : InQueue(r)' <=> InQueue(r)
    BY <2>1 DEF InQueue
  <2> QED
    BY <1>c, <1>d, <1>f, <2>1, <2>2, <2>3, <2>4, <2>5
       DEF BrokerInv, AcceptedIsHeld
<1>15. CASE ExecutorStops \/ ReloadFails \/ Reloads \/ Advise \/ JobStarts \/ JobEnds
            \/ PassEnds \/ Publish \/ recordScheduled
  <2>1. UNCHANGED <<queue, result, cur, ticker, conn, main>>
    BY <1>15 DEF ExecutorStops, ReloadFails, Reloads, Advise, JobStarts, JobEnds,
       PassEnds, Publish, recordScheduled, mainVars
  <2> QED
    BY <1>e, <1>f, <2>1 DEF BrokerInv
<1>16. CASE UNCHANGED vars
  <2>1. UNCHANGED <<queue, result, cur, ticker, conn, main>>
    BY <1>16 DEF vars, execVars, mainVars
  <2> QED
    BY <1>e, <1>f, <2>1 DEF BrokerInv
<1> QED
  BY <1>1, <1>2, <1>3, <1>4, <1>5, <1>6, <1>7, <1>8, <1>9, <1>10, <1>11, <1>12,
     <1>13, <1>14, <1>15, <1>16
     DEF Next, Main, Preflight, Shutdown, Executor, Handler, Environment

\* It holds through any number of lives.
LEMMA BrokerInvariance == Safe => []BrokerInv
<1>1. Init => BrokerInv
  <2> SUFFICES ASSUME Init PROVE BrokerInv
    OBVIOUS
  <2>1. \A r \in Requesters : /\ ~Waiting(r) /\ ~InQueue(r)
                              /\ result[r] = "none" /\ cur # r
    BY ConstantsAssumption DEF Init, Waiting, InQueue, Requesters
  <2> QED
    BY <2>1 DEF Init, BrokerInv, AcceptedIsHeld
<1> QED
  BY <1>1, BrokerInvStep, Invariance, PTL DEF Safe

\* Whoever waits without an answer has exactly one request, queued or running,
\* and nobody else has any (trigger.Queue, tick, daemon.run).
THEOREM HeldProved == Safe => []AcceptedIsHeld
<1>1. BrokerInv => AcceptedIsHeld
  BY DEF BrokerInv
<1> QED
  BY <1>1, BrokerInvariance, PTL

\* An executor that is gone left an empty queue behind, and a closed one, so
\* that nothing comes after it.
DoneInv == exec = "done" => queue = <<>> /\ ~qOpen

\* Only a closed and empty queue ends the executor, and no submission, however
\* late, gets into it then.
LEMMA DoneStep == IInv /\ DoneInv /\ [Next]_vars => DoneInv'
<1> SUFFICES ASSUME IInv, DoneInv, [Next]_vars, exec' = "done" PROVE queue' = <<>> /\ ~qOpen'
  BY DEF DoneInv
<1>a. Lifecycle
  BY DEF IInv
<1> USE DEF mainVars, execVars
<1>1. CASE Start \/ PreflightFails \/ PreflightPasses \/ Serve \/ BeginDrain
           \/ CloseListener \/ CloseQueue \/ AwaitExecutor \/ AwaitTicker
  BY <1>1 DEF Start, PreflightFails, PreflightPasses, Serve, BeginDrain,
     CloseListener, CloseQueue, AwaitExecutor, AwaitTicker, DoneInv
<1>2. CASE SigTerm \/ Recreate \/ ClockMoves \/ EditConfig
  BY <1>2 DEF SigTerm, Recreate, ClockMoves, EditConfig, DoneInv
<1>3. ~(Decide \/ AwaitServer \/ Crash)
  BY DEF Decide, AwaitServer, Crash, Vanish
<1>4. ASSUME NEW c \in Clients, Dial(c) \/ Accept(c) \/ Relay(c)
      PROVE  queue' = <<>> /\ ~qOpen'
  BY <1>4 DEF Dial, Accept, Relay, DoneInv
<1>5. ASSUME NEW c \in Clients, Submit(c) PROVE queue' = <<>> /\ ~qOpen'
  BY <1>5 DEF Submit, Admits, DoneInv
<1>6. CASE StartupTick \/ IntervalTick
  BY <1>6 DEF StartupTick, IntervalTick, Tick, Admits, DoneInv
<1>7. CASE TickResult \/ TickerStops
  BY <1>7 DEF TickResult, TickerStops, DoneInv
<1>8. CASE ExecutorStops
  BY <1>8 DEF ExecutorStops
<1>9. ~(Dequeue \/ ReloadFails \/ Reloads \/ Advise \/ JobStarts \/ JobEnds
        \/ PassEnds \/ Publish \/ recordScheduled \/ Finish)
  BY DEF Dequeue, ReloadFails, Reloads, Advise, JobStarts, JobEnds, PassEnds,
     Publish, recordScheduled, Finish
<1>10. CASE UNCHANGED vars
  BY <1>10 DEF vars, DoneInv
<1> QED
  BY <1>1, <1>2, <1>3, <1>4, <1>5, <1>6, <1>7, <1>8, <1>9, <1>10
     DEF Next, Main, Preflight, Shutdown, Executor, Handler, Environment

\* After the executor nobody waits for an answer that is not there yet: whoever
\* was admitted was run or cancelled first (runDaemon's order of cancelling,
\* closing and waiting, with trigger.Queue and trigger.Execute).
THEOREM LeftBehindProved == Safe => []NobodyLeftBehind
<1>1. Init => DoneInv
  BY DEF Init, DoneInv
<1>2. IInv /\ BrokerInv /\ DoneInv => NobodyLeftBehind
  <2> SUFFICES ASSUME IInv, BrokerInv, DoneInv, exec = "done",
                      NEW r \in Requesters, Waiting(r)
               PROVE  result[r] # "none"
    BY DEF NobodyLeftBehind
  <2>1. cur = NoReq /\ NoReq # r
    BY ConstantsAssumption DEF IInv, Lifecycle
  <2>2. ~InQueue(r)
    BY DEF DoneInv, InQueue
  <2> QED
    BY <2>1, <2>2 DEF BrokerInv, AcceptedIsHeld
<1> QED
  BY <1>1, <1>2, DoneStep, Invariance, BrokerInvariance, PTL DEF Safe

\* The daemon implements the safety part of PassServer: every step of it serves
\* the oldest request, answers the running one, cancels, accepts, hands an
\* answer over or loses everything, and all others are invisible.
THEOREM ServesProved == Safe => ServesInOrder
<1>1. Init => Server!Init
  BY DEF Init, Server!Init
<1>2. IInv /\ BrokerInv /\ [Next]_vars => [Server!Next]_(Server!vars)
  <2> SUFFICES ASSUME IInv, BrokerInv, [Next]_vars
               PROVE  [Server!Next]_(Server!vars)
    OBVIOUS
  <2>a. TypeOK /\ Lifecycle /\ OutInv
    BY DEF IInv
  <2>b. ASSUME UNCHANGED <<queue, result, cur>>
        PROVE  [Server!Next]_(Server!vars)
    BY <2>b DEF Server!vars
  <2>c. \A r \in Requesters :
          ~Waiting(r) => ~Server!Waits(r) /\ cur # r /\ result[r] = "none"
    BY DEF BrokerInv, AcceptedIsHeld, InQueue, Server!Waits
  <2>1. ASSUME NEW c \in Clients, Submit(c)
        PROVE  [Server!Next]_(Server!vars)
    <3>1. CASE Admits
      <4>1. c \in Requesters /\ ~Waiting(c)
        BY <2>1, ConstantsAssumption DEF Requesters, Waiting, Submit
      <4>2. Server!Accept(c)
        BY <2>1, <2>c, <3>1, <4>1 DEF Submit, Server!Accept, Admits, execVars
      <4> QED
        BY <4>1, <4>2 DEF Server!Next
    <3>2. CASE ~Admits
      BY <2>1, <2>b, <3>2 DEF Submit, execVars
    <3> QED
      BY <3>1, <3>2
  <2>2. ASSUME NEW c \in Clients, Relay(c)
        PROVE  [Server!Next]_(Server!vars)
    <3>1. c \in Requesters /\ Server!Take(c)
      BY <2>2 DEF Relay, Requesters, Server!Take, execVars
    <3> QED
      BY <3>1 DEF Server!Next
  <2>3. CASE StartupTick \/ IntervalTick
    <3>1. PICK from \in {"startup", "sleep"} : Tick(from)
      BY <2>3 DEF StartupTick, IntervalTick
    <3>2. CASE Admits
      <4>1. Ticker \in Requesters /\ ~Waiting(Ticker)
        BY <3>1 DEF Requesters, Waiting, Tick
      <4>2. Server!Accept(Ticker)
        BY <2>c, <3>1, <3>2, <4>1 DEF Tick, Server!Accept, Admits, execVars
      <4> QED
        BY <4>1, <4>2 DEF Server!Next
    <3>3. CASE ~Admits
      BY <2>b, <3>1, <3>3 DEF Tick, execVars
    <3> QED
      BY <3>2, <3>3
  <2>4. CASE TickResult
    <3>1. Ticker \in Requesters /\ Server!Take(Ticker)
      BY <2>4 DEF TickResult, Requesters, Server!Take, execVars
    <3> QED
      BY <3>1 DEF Server!Next
  <2>5. CASE Dequeue
    <3>1. cur = NoReq /\ queue # <<>>
      BY <2>5, <2>a DEF Dequeue, Lifecycle
    <3>2. Server!Begin \/ Server!Cancel
      BY <2>5, <3>1 DEF Dequeue, Server!Begin, Server!Cancel
    <3> QED
      BY <3>2 DEF Server!Next
  <2>6. CASE Finish
    <3>1. cur # NoReq /\ out \in Server!PassAnswers
      BY <2>6, <2>a DEF Finish, Lifecycle, OutInv, TypeOK, ExecType,
         Server!PassAnswers
    <3>2. Server!Answer(out)
      BY <2>6, <3>1 DEF Finish, Server!Answer
    <3> QED
      BY <3>1, <3>2 DEF Server!Next
  <2>7. CASE AwaitServer \/ Crash
    <3>1. Server!Lose
      BY <2>7 DEF AwaitServer, Crash, Vanish, Server!Lose
    <3> QED
      BY <3>1 DEF Server!Next
  <2>8. CASE Start \/ PreflightFails \/ PreflightPasses \/ Decide \/ Serve
             \/ BeginDrain \/ CloseListener \/ CloseQueue \/ AwaitExecutor
             \/ AwaitTicker
    BY <2>8, <2>b DEF Start, PreflightFails, PreflightPasses, Decide, Serve,
       BeginDrain, CloseListener, CloseQueue, AwaitExecutor, AwaitTicker,
       execVars
  <2>9. CASE SigTerm \/ Recreate \/ ClockMoves \/ EditConfig \/ TickerStops
    BY <2>9, <2>b DEF SigTerm, Recreate, ClockMoves, EditConfig, TickerStops,
       execVars
  <2>10. CASE \E c \in Clients : Dial(c) \/ Accept(c)
    BY <2>10, <2>b DEF Dial, Accept, execVars
  <2>11. CASE ExecutorStops \/ ReloadFails \/ Reloads \/ Advise \/ JobStarts \/ JobEnds
              \/ PassEnds \/ Publish \/ recordScheduled
    BY <2>11, <2>b DEF ExecutorStops, ReloadFails, Reloads, Advise, JobStarts, JobEnds,
       PassEnds, Publish, recordScheduled
  <2>12. CASE UNCHANGED vars
    BY <2>12, <2>b DEF vars, execVars
  <2> QED
    BY <2>1, <2>2, <2>3, <2>4, <2>5, <2>6, <2>7, <2>8, <2>9, <2>10, <2>11, <2>12
       DEF Next, Main, Preflight, Shutdown, Executor, Handler, Environment
<1> QED
  BY <1>1, <1>2, Invariance, BrokerInvariance, PTL
     DEF Safe, ServesInOrder, Server!Safe
===============================================================================
