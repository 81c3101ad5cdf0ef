--------------------------- MODULE HealthLeaseProofs ---------------------------
(***************************************************************************)
(* The lease of the healthcheck outlasts every legal gap between two writes *)
(* of the marker, for every interval, timeout, number of jobs and queue.    *)
(***************************************************************************)
EXTENDS HealthLease, SequenceTheorems, TLAPS

\* The longest a job can take.
JobTime == Timeout + Overrun

TypeOK ==
    /\ scheduleEnabled \in BOOLEAN /\ doc \in 0..Unreadable
    /\ marker \in BOOLEAN /\ hung \in BOOLEAN /\ age \in Nat
    /\ ticker \in {"off", "sleep", "wait"} /\ timer \in 0..Interval
    /\ queue \in Seq({"tick", "trigger"}) /\ cur \in {"none", "tick", "trigger"}
    /\ cur # "none" => total \in 1..MaxJobs /\ left \in 1..total
                       /\ elapsed \in 0..JobTime
    /\ elapsed \in Nat /\ over \in Nat

\* A tick that waits has its request in the queue or running.
TickInv ==
    scheduleEnabled =>
        /\ ticker # "off"
        /\ ticker = "wait" => cur = "tick" \/ \E k \in 1..Len(queue) : queue[k] = "tick"

\* What the current job has used of its timeout.
Used == IF elapsed <= Timeout THEN elapsed ELSE Timeout

\* The time since the last write: at most one interval until the next pass
\* begins, and from then on what its jobs had, and what they took beyond that.
AgeInv ==
    scheduleEnabled /\ ~hung =>
        /\ cur = "none" => age <= Interval
        /\ cur = "none" /\ queue = <<>> => timer <= Interval - age
        /\ cur # "none" => age <= Interval + (total - left) * Timeout + Used + over

IInv == TypeOK /\ TickInv /\ AgeInv

\* loadSyncTimeout never yields zero or less, so a job's time is positive.
LEMMA JobTimeType == Timeout \in Nat \ {0} /\ JobTime \in Nat \ {0}
<1>1. Timeout \in Nat \ {0}
  BY LeaseAssumption DEF Timeout
<1> QED
  BY <1>1, LeaseAssumption DEF JobTime

\* One job more is one job's time more.
LEMMA OneMoreJob ==
    ASSUME NEW n \in Nat, NEW t \in Nat
    PROVE  (n + 1) * t = n * t + t /\ n * t \in Nat
  OBVIOUS

\* What the jobs of a pass may take fits into the lease of a document with at
\* least as many: the second interval pays for their overruns.
LEMMA PassFitsLease ==
    ASSUME NEW n \in Nat, NEW d \in Nat, n <= d, NEW o \in Nat, o <= Interval
    PROVE  Interval + n * Timeout + o <= Lease(d)
<1>a. Timeout \in Nat /\ Interval \in Nat
  BY JobTimeType, LeaseAssumption
<1>1. n * Timeout <= d * Timeout /\ n * Timeout \in Nat /\ d * Timeout \in Nat
  BY <1>a
<1> QED
  BY <1>a, <1>1 DEF Lease

\* A job never uses more of its timeout than there is.
LEMMA UsedType ==
    ASSUME elapsed \in Nat
    PROVE  Used \in 0..Timeout /\ (elapsed = 0 => Used = 0)
  BY JobTimeType DEF Used

\* A request that joins the queue pushes out no tick.
LEMMA TickStaysQueued ==
    ASSUME NEW q \in Seq({"tick", "trigger"}), NEW x \in {"tick", "trigger"}
    PROVE  /\ Append(q, x) \in Seq({"tick", "trigger"}) /\ Append(q, x) # <<>>
           /\ (\E k \in 1..Len(q) : q[k] = "tick") \/ x = "tick" =>
                \E k \in 1..Len(Append(q, x)) : Append(q, x)[k] = "tick"
<1>1. /\ Len(q) \in Nat /\ Len(Append(q, x)) = Len(q) + 1
      /\ \A k \in 1..Len(q) : Append(q, x)[k] = q[k]
      /\ Append(q, x)[Len(q) + 1] = x
      /\ Append(q, x) \in Seq({"tick", "trigger"}) /\ Append(q, x) # <<>>
  BY AppendProperties, LenProperties
<1> QED
  BY <1>1

\* The tick is the request the executor takes, or stays queued behind it.
LEMMA TickTaken ==
    ASSUME NEW q \in Seq({"tick", "trigger"}), q # <<>>
    PROVE  /\ Head(q) \in {"tick", "trigger"} /\ Tail(q) \in Seq({"tick", "trigger"})
           /\ (\E k \in 1..Len(q) : q[k] = "tick") =>
                \/ Head(q) = "tick"
                \/ \E k \in 1..Len(Tail(q)) : Tail(q)[k] = "tick"
<1>1. /\ Len(q) \in Nat \ {0} /\ Len(Tail(q)) = Len(q) - 1
      /\ \A k \in 1..Len(Tail(q)) : Tail(q)[k] = q[k + 1]
      /\ Head(q) = q[1] /\ Head(q) \in {"tick", "trigger"}
      /\ Tail(q) \in Seq({"tick", "trigger"})
  BY HeadTailProperties, EmptySeq
<1>2. ASSUME NEW k \in 1..Len(q), q[k] = "tick", Head(q) # "tick"
      PROVE  \E j \in 1..Len(Tail(q)) : Tail(q)[j] = "tick"
  <2>1. k # 1 /\ k - 1 \in 1..Len(Tail(q)) /\ (k - 1) + 1 = k
    BY <1>1, <1>2
  <2> QED
    BY <1>1, <1>2, <2>1
<1> QED
  BY <1>1, <1>2

\* Every step keeps the age of the marker within what is left of the interval
\* and of the jobs' time.
LEMMA IInvStep == IInv /\ [Next]_vars => IInv'
<1> SUFFICES ASSUME IInv, [Next]_vars PROVE IInv'
  OBVIOUS
<1>a. /\ Interval \in Nat \ {0} /\ MaxJobs \in Nat \ {0} /\ QueueCapacity \in Nat \ {0}
      /\ JobTime \in Nat \ {0} /\ Timeout \in Nat \ {0}
  BY LeaseAssumption, JobTimeType
<1>b. TypeOK /\ TickInv /\ AgeInv
  BY DEF IInv
<1>1. CASE Tick
  <2>1. /\ ticker = "sleep" /\ timer = 0
        /\ UNCHANGED <<scheduleEnabled, doc, marker, age, cur, total, left, elapsed,
                       failed, hung, over>>
    BY <1>1 DEF Tick, passVars
  <2>2. CASE Admits
    <3>1. ticker' = "wait" /\ queue' = Append(queue, "tick") /\ timer' = timer
      BY <1>1, <2>2 DEF Tick
    <3>2. /\ queue' \in Seq({"tick", "trigger"}) /\ queue' # <<>>
          /\ \E k \in 1..Len(queue') : queue'[k] = "tick"
      BY <1>b, <3>1, TickStaysQueued DEF TypeOK
    <3> QED
      BY <1>b, <2>1, <3>1, <3>2 DEF IInv, TypeOK, TickInv, AgeInv, Used
  <2>3. CASE ~Admits
    <3>1. timer' \in 1..Interval /\ UNCHANGED <<ticker, queue>>
      BY <1>1, <2>3 DEF Tick
    <3>2. queue # <<>>
      BY <1>a, <2>3, EmptySeq DEF Admits
    <3>3. TypeOK' /\ TickInv'
      BY <1>a, <1>b, <2>1, <3>1 DEF TypeOK, TickInv
    <3>4. AgeInv'
      BY <1>b, <2>1, <3>1, <3>2 DEF AgeInv, Used
    <3> QED
      BY <3>3, <3>4 DEF IInv
  <2> QED
    BY <2>2, <2>3
<1>2. CASE Trigger
  <2>1. /\ queue' = Append(queue, "trigger")
        /\ UNCHANGED <<scheduleEnabled, doc, marker, age, ticker, timer, cur, total,
                       left, elapsed, failed, hung, over>>
    BY <1>2 DEF Trigger, passVars, tickVars
  <2>2. /\ queue' \in Seq({"tick", "trigger"}) /\ queue' # <<>>
        /\ (\E k \in 1..Len(queue) : queue[k] = "tick") =>
             \E k \in 1..Len(queue') : queue'[k] = "tick"
    BY <1>b, <2>1, TickStaysQueued DEF TypeOK
  <2> QED
    BY <1>b, <2>1, <2>2 DEF IInv, TypeOK, TickInv, AgeInv, Used
<1>3. CASE Load
  <2>1. /\ cur = "none" /\ queue # <<>> /\ queue' = Tail(queue)
        /\ UNCHANGED <<scheduleEnabled, doc, hung>>
    BY <1>3 DEF Load
  <2>2. PICK h : h = Head(queue)
    OBVIOUS
  <2>3. /\ h \in {"tick", "trigger"} /\ queue' \in Seq({"tick", "trigger"})
        /\ (\E k \in 1..Len(queue) : queue[k] = "tick") =>
             h = "tick" \/ \E k \in 1..Len(queue') : queue'[k] = "tick"
    BY <1>b, <2>1, <2>2, TickTaken DEF TypeOK
  <2>4. CASE doc \in 1..MaxJobs
    <3>1. /\ cur' = h /\ total' = doc /\ left' = doc /\ elapsed' = 0 /\ over' = 0
          /\ UNCHANGED <<marker, age, ticker, timer>>
      BY <1>3, <2>2, <2>4 DEF Load, tickVars
    <3>2. (total' - left') * Timeout = 0 /\ Used' = 0
      BY <1>a, <2>4, <3>1 DEF Used
    <3>3. TypeOK' /\ TickInv'
      BY <1>a, <1>b, <2>1, <2>3, <2>4, <3>1 DEF TypeOK, TickInv
    <3>4. AgeInv'
      <4> SUFFICES ASSUME scheduleEnabled, ~hung
                   PROVE  age <= Interval + (total' - left') * Timeout + Used' + over'
        BY <2>1, <2>3, <3>1 DEF AgeInv
      <4>1. age <= Interval /\ age \in Nat
        BY <1>b, <2>1 DEF AgeInv, TypeOK
      <4> QED
        BY <1>a, <3>1, <3>2, <4>1
    <3> QED
      BY <3>3, <3>4 DEF IInv
  <2>5. CASE doc \notin 1..MaxJobs
    <3>1. /\ marker' = FALSE /\ age' = 0
          /\ IF h = "tick" THEN ticker' = "sleep" /\ timer' \in 1..Interval
                           ELSE UNCHANGED <<ticker, timer>>
          /\ UNCHANGED <<cur, total, left, elapsed, over>>
      BY <1>3, <2>2, <2>5 DEF Load, Set, TickReturns, tickVars, passVars
    <3>2. timer' \in 0..Interval /\ ticker' \in {"off", "sleep", "wait"}
      BY <1>a, <1>b, <3>1 DEF TypeOK
    <3>3. TypeOK'
      BY <1>a, <1>b, <2>1, <2>3, <3>1, <3>2 DEF TypeOK
    <3>4. TickInv'
      BY <1>b, <2>1, <2>3, <3>1 DEF TickInv
    <3>5. age' <= Interval /\ timer' <= Interval - age' /\ cur' = "none"
      <4>1. age' = 0 /\ cur' = "none" /\ timer' \in 0..Interval /\ Interval \in Nat
        BY <1>a, <2>1, <3>1, <3>2
      <4> QED
        BY <4>1
    <3>6. AgeInv'
      BY <3>5 DEF AgeInv
    <3> QED
      BY <3>3, <3>4, <3>6 DEF IInv
  <2> QED
    BY <2>4, <2>5
<1>4. CASE JobEnds
  <2>1. /\ cur # "none" /\ ~hung /\ elapsed' = 0
        /\ UNCHANGED <<scheduleEnabled, doc, queue, hung>>
    BY <1>4 DEF JobEnds
  <2>2. CASE left = 1
    <3>1. /\ cur' = "none" /\ marker' \in BOOLEAN /\ age' = 0 /\ over' = 0
          /\ IF cur = "tick" THEN ticker' = "sleep" /\ timer' \in 1..Interval
                             ELSE UNCHANGED <<ticker, timer>>
      BY <1>4, <2>2 DEF JobEnds, PassEnds, Set, TickReturns, tickVars
    <3>2. timer' \in 0..Interval /\ ticker' \in {"off", "sleep", "wait"}
      BY <1>a, <1>b, <3>1 DEF TypeOK
    <3>3. TypeOK'
      BY <1>a, <1>b, <2>1, <3>1, <3>2 DEF TypeOK
    <3>4. TickInv'
      BY <1>b, <2>1, <3>1 DEF TickInv
    <3>5. age' <= Interval /\ timer' <= Interval - age' /\ cur' = "none"
      <4>1. age' = 0 /\ cur' = "none" /\ timer' \in 0..Interval /\ Interval \in Nat
        BY <1>a, <2>1, <3>1, <3>2
      <4> QED
        BY <4>1
    <3>6. AgeInv'
      BY <3>5 DEF AgeInv
    <3> QED
      BY <3>3, <3>4, <3>6 DEF IInv
  <2>3. CASE left # 1
    <3>1. /\ left' = left - 1 /\ UNCHANGED <<cur, total, over, marker, age, ticker, timer>>
      BY <1>4, <2>3 DEF JobEnds, tickVars
    <3>2. /\ total \in 1..MaxJobs /\ left \in 2..total /\ elapsed \in 0..JobTime
          /\ age \in Nat /\ over \in Nat
      BY <1>a, <1>b, <2>1, <2>3 DEF TypeOK
    <3>3. TypeOK' /\ TickInv'
      BY <1>a, <1>b, <2>1, <3>1, <3>2 DEF TypeOK, TickInv
    <3>4. AgeInv'
      <4> SUFFICES ASSUME scheduleEnabled
                   PROVE  age <= Interval + (total - left') * Timeout + Used' + over
        BY <2>1, <3>1 DEF AgeInv
      <4>1. total - left \in Nat /\ total - left' = (total - left) + 1
        BY <1>a, <3>1, <3>2
      <4>2. /\ (total - left') * Timeout = (total - left) * Timeout + Timeout
            /\ (total - left) * Timeout \in Nat
        BY <1>a, <4>1, OneMoreJob
      <4>3. age <= Interval + (total - left) * Timeout + Used + over
        BY <1>b, <2>1 DEF AgeInv
      <4>4. Used \in 0..Timeout /\ Used' = 0
        BY <1>a, <1>b, <2>1, UsedType DEF TypeOK, Used
      <4> QED
        BY <1>a, <3>2, <4>2, <4>3, <4>4
    <3> QED
      BY <3>3, <3>4 DEF IInv
  <2> QED
    BY <2>2, <2>3
<1>5. CASE Hang
  BY <1>5, <1>b DEF Hang, IInv, TypeOK, TickInv, AgeInv, Used, passVars, tickVars
<1>6. CASE EditConfig
  BY <1>6, <1>b DEF EditConfig, IInv, TypeOK, TickInv, AgeInv, Used, passVars, tickVars
<1>7. CASE Advance
  <2>1. /\ ~Due /\ age' \in {age, age + 1}
        /\ timer' = IF ticker = "sleep" /\ timer > 0 THEN timer - 1 ELSE timer
        /\ elapsed' = IF cur # "none" /\ ~hung THEN elapsed + 1 ELSE elapsed
        /\ over' = IF cur # "none" /\ ~hung /\ elapsed >= Timeout THEN over + 1 ELSE over
        /\ UNCHANGED <<scheduleEnabled, doc, marker, ticker, queue, cur, total, left,
                       hung>>
    BY <1>7 DEF Advance
  <2>2. cur # "none" /\ ~hung => elapsed # JobTime
    BY <2>1 DEF Due, JobTime
  <2>3. TypeOK'
    BY <1>a, <1>b, <2>1, <2>2 DEF TypeOK
  <2>4. TickInv'
    BY <1>b, <2>1 DEF TickInv
  <2>5. AgeInv'
    <3> SUFFICES ASSUME scheduleEnabled, ~hung
                 PROVE  /\ cur = "none" => age' <= Interval
                        /\ cur = "none" /\ queue = <<>> => timer' <= Interval - age'
                        /\ cur # "none" =>
                             age' <= Interval + (total - left) * Timeout + Used' + over'
      BY <2>1 DEF AgeInv
    <3>1. CASE cur = "none"
      <4>1. queue = <<>>
        BY <2>1, <3>1 DEF Due
      <4>2. ticker = "sleep"
        BY <1>b, <3>1, <4>1, EmptySeq DEF TypeOK, TickInv
      <4>3. timer # 0
        BY <2>1, <4>2 DEF Due
      <4>4. timer' = timer - 1 /\ timer \in 1..Interval /\ age \in Nat
            /\ timer <= Interval - age
        BY <1>a, <1>b, <2>1, <3>1, <4>1, <4>2, <4>3 DEF TypeOK, AgeInv
      <4>5. age' <= Interval /\ timer' <= Interval - age'
        <5>1. age' \in {age, age + 1} /\ Interval \in Nat
          BY <1>a, <2>1
        <5>2. \A a \in Nat, t \in 1..Interval : t <= Interval - a =>
                 /\ a <= Interval /\ t - 1 <= Interval - a
                 /\ a + 1 <= Interval /\ t - 1 <= Interval - (a + 1)
          BY <5>1
        <5> QED
          BY <4>4, <5>1, <5>2
      <4> QED
        BY <3>1, <4>5
    <3>2. CASE cur # "none"
      <4>1. /\ age \in Nat /\ elapsed \in Nat /\ elapsed' = elapsed + 1
            /\ total - left \in Nat
        BY <1>a, <1>b, <2>1, <3>2 DEF TypeOK
      <4>2. (total - left) * Timeout \in Nat
        BY <1>a, <4>1, OneMoreJob
      <4>3. age <= Interval + (total - left) * Timeout + Used + over
        BY <1>b, <3>2 DEF AgeInv
      <4>4. /\ Used' + over' = Used + over + 1
            /\ Used \in Nat /\ over \in Nat /\ Used' \in Nat /\ over' \in Nat
        <5>1. over \in Nat /\ elapsed \in Nat /\ Timeout \in Nat
          BY <1>a, <1>b, <4>1 DEF TypeOK
        <5>2. CASE elapsed >= Timeout
          BY <2>1, <3>2, <4>1, <5>1, <5>2 DEF Used
        <5>3. CASE ~(elapsed >= Timeout)
          BY <2>1, <3>2, <4>1, <5>1, <5>3 DEF Used
        <5> QED
          BY <5>2, <5>3
      <4> QED
        <5>1. PICK n \in Nat : n = (total - left) * Timeout
          BY <4>2
        <5>2. age' \in {age, age + 1} /\ Interval \in Nat
          BY <1>a, <2>1
        <5>3. PICK u \in Nat, o \in Nat, u2 \in Nat, o2 \in Nat :
                 u = Used /\ o = over /\ u2 = Used' /\ o2 = over'
          BY <4>4, Zenon
        <5>4. u2 + o2 = u + o + 1
          BY <4>4, <5>3, Zenon
        <5>5. age <= Interval + n + u + o
          BY <4>3, <5>1, <5>3, Zenon
        <5>6. age' <= Interval + n + u2 + o2
          BY <4>1, <5>2, <5>4, <5>5
        <5>7. age' <= Interval + n + Used' + over'
          BY <5>3, <5>6, Zenon
        <5> QED
          BY <3>2, <5>1, <5>7
    <3> QED
      BY <3>1, <3>2
  <2> QED
    BY <2>3, <2>4, <2>5 DEF IInv
<1>8. CASE UNCHANGED vars
  BY <1>8, <1>b DEF vars, IInv, TypeOK, TickInv, AgeInv, Used, passVars, tickVars
<1> QED
  BY <1>1, <1>2, <1>3, <1>4, <1>5, <1>6, <1>7, <1>8 DEF Next

\* IInv is inductive.
LEMMA Invariance == Safe => []IInv
<1>1. Init => IInv
  <2> SUFFICES ASSUME Init PROVE IInv
    OBVIOUS
  <2>a. /\ Interval \in Nat \ {0} /\ MaxJobs \in Nat \ {0}
    BY LeaseAssumption
  <2>b. marker \in BOOLEAN /\ ticker \in {"off", "sleep"}
    BY DEF Init
  <2>c. queue \in Seq({"tick", "trigger"}) /\ doc \in 0..Unreadable
    BY <2>a, EmptySeq DEF Init, Unreadable
  <2>1. TypeOK
    BY <2>a, <2>b, <2>c DEF Init, TypeOK
  <2>2. TickInv /\ AgeInv
    BY <2>1, LeaseAssumption DEF Init, TypeOK, TickInv, AgeInv
  <2> QED
    BY <2>1, <2>2 DEF IInv
<1> QED
  BY <1>1, IInvStep, PTL DEF Safe

\* probeOptions' deadline raises no false alarm: whatever the queue in front of
\* a tick, the timeouts its jobs use up and the edits of config.yaml, a daemon
\* that goes on working and whose last pass was good probes healthy, as long as
\* the running pass has not overrun its timeouts by a whole interval and no edit
\* has taken jobs from under it.
THEOREM AlarmProved == Safe => []NoFalseAlarm
<1>1. IInv => NoFalseAlarm
  <2> SUFFICES ASSUME IInv, marker, ~hung, cur # "none" => total <= doc, over <= Interval,
                      scheduleEnabled, doc # Unreadable
               PROVE  age <= Lease(doc)
    BY DEF NoFalseAlarm, ProbeHealthy, Armed
  <2>a. /\ Interval \in Nat /\ Timeout \in Nat /\ MaxJobs \in Nat
    BY LeaseAssumption, JobTimeType
  <2>b. doc \in Nat /\ age \in Nat /\ over \in Nat
    BY <2>a DEF IInv, TypeOK, Unreadable
  <2>1. CASE cur = "none"
    <3>1. age <= Interval /\ doc * Timeout \in Nat
      BY <2>1, <2>a, <2>b, OneMoreJob DEF IInv, AgeInv
    <3> QED
      BY <2>a, <2>b, <3>1 DEF Lease
  <2>2. CASE cur # "none"
    <3>1. /\ total \in 1..MaxJobs /\ left \in 1..total /\ Used \in 0..Timeout
          /\ age <= Interval + (total - left) * Timeout + Used + over
      BY <2>2, UsedType DEF IInv, TypeOK, AgeInv
    <3>2. (total - left) * Timeout + Timeout <= total * Timeout
      <4>1. total - left \in Nat /\ total - left + 1 <= total
        BY <2>a, <3>1
      <4>2. (total - left + 1) * Timeout <= total * Timeout
        BY <2>a, <3>1, <4>1
      <4> QED
        BY <2>a, <4>1, <4>2, OneMoreJob
    <3>3. Interval + total * Timeout + over <= Lease(doc)
      <4>1. total \in Nat /\ total <= doc
        BY <2>2, <2>a, <3>1
      <4> QED
        BY <2>b, <4>1, PassFitsLease
    <3>4. /\ (total - left) * Timeout \in Nat /\ total * Timeout \in Nat
          /\ doc * Timeout \in Nat
      BY <2>a, <2>b, <3>1, OneMoreJob
    <3> QED
      BY <2>a, <2>b, <3>1, <3>2, <3>3, <3>4 DEF Lease
  <2> QED
    BY <2>1, <2>2
<1> QED
  BY <1>1, Invariance, PTL
===============================================================================
