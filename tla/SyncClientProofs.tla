--------------------------- MODULE SyncClientProofs ---------------------------
(***************************************************************************)
(* What a `sync` invocation reports, for every number of invocations and    *)
(* every queue capacity.                                                    *)
(***************************************************************************)
EXTENDS SyncClient, SequenceTheorems, TLAPS

Parties == Clients \cup {Ticker}

Events == Finals \cup {"queued", "started"}

Links == [open: BOOLEAN, wire: Seq(Events),
          handler: {"none", "decoding", "serving"}]

TypeOK ==
    /\ pc \in [Clients -> {"start", "dial", "send", "wait", "exited"}]
    /\ signalled \in [Clients -> BOOLEAN] /\ accepted \in [Clients -> BOOLEAN]
    /\ enqueued \in [Clients -> BOOLEAN]
    /\ report \in [Clients -> {"none", "usage", "unreachable", "send failed",
                               "complete", "caveat", "failed", "no result",
                               "observed", "unknown"}]
    /\ link \in [Clients -> Links]
    /\ life \in {"up", "draining", "down"}
    /\ line \in Seq(Parties) /\ running \in Parties \cup {Nobody}
    /\ answer \in [Parties -> Server!PassAnswers \cup {"none", "cancelled"}]
    /\ verdict \in [Clients -> Finals \cup {"none", "lost"}]

\* A party has its request in one place at most: in line, running, or answered.
ServerInv ==
    /\ \A j, k \in 1..Len(line) : line[j] = line[k] => j = k
    /\ \A r \in Parties : /\ Server!Waits(r) => running # r /\ answer[r] = "none"
                          /\ running = r => answer[r] = "none"

\* The daemon has the party's request.
Held(r) == Server!Waits(r) \/ running = r \/ answer[r] # "none"

\* The daemon has heard nothing of the invocation.
Untouched(c) ==
    /\ link[c].handler = "none" /\ link[c].wire = <<>>
    /\ verdict[c] = "none" /\ ~enqueued[c] /\ ~accepted[c]

\* A request is with the daemon only while its handler serves it.
HandlerInv(c) == Held(c) => link[c].handler = "serving"

\* What is on the wire is true: a final event is the verdict on the request and
\* comes from a handler that is gone; "queued" is about a request that was taken.
WireInv(c) ==
    /\ \A k \in 1..Len(link[c].wire) :
         /\ link[c].wire[k] \in Finals =>
              link[c].wire[k] = verdict[c] /\ link[c].handler = "none"
         /\ link[c].wire[k] = "queued" => enqueued[c]
    /\ accepted[c] => enqueued[c]

\* What each last line was said of.
ReportInv(c) ==
    /\ pc[c] \in {"start", "dial", "send"} => Untouched(c)
    /\ report[c] = "none" <=> pc[c] # "exited"
    /\ report[c] \in {"usage", "unreachable", "send failed"} => Untouched(c)
    /\ report[c] \in {"complete", "caveat", "failed"} =>
         /\ link[c].handler = "none"
         /\ verdict[c] \in Finals /\ report[c] = finishResult(verdict[c])
    /\ report[c] \in {"observed", "unknown"} => signalled[c]
    /\ report[c] = "observed" => enqueued[c]

ClientInv(c) == HandlerInv(c) /\ WireInv(c) /\ ReportInv(c)

IInv == TypeOK /\ ServerInv /\ \A c \in Clients : ClientInv(c)

USE DEF Parties

\* A connection with one of its fields replaced is a connection.
LEMMA LinkType ==
    ASSUME link \in [Clients -> Links], NEW c \in Clients
    PROVE  /\ link[c].wire \in Seq(Events)
           /\ [link EXCEPT ![c].open = TRUE] \in [Clients -> Links]
           /\ [link EXCEPT ![c].handler = "decoding"] \in [Clients -> Links]
           /\ \A w \in Seq(Events) :
                /\ [link EXCEPT ![c].wire = w] \in [Clients -> Links]
                /\ [link EXCEPT ![c].wire = w, ![c].handler = "serving"]
                     \in [Clients -> Links]
                /\ [open |-> FALSE, wire |-> w, handler |-> "none"] \in Links
<1>1. link[c] \in Links
  OBVIOUS
<1> QED
  BY <1>1 DEF Links

\* What a handler writes is a stream of events.
LEMMA WriteType ==
    ASSUME link \in [Clients -> Links], NEW c \in Clients, NEW ev \in Events
    PROVE  Write(c, ev) \in Seq(Events)
<1>1. link[c].wire \in Seq(Events)
  BY LinkType
<1>2. Append(link[c].wire, ev) \in Seq(Events) /\ <<>> \in Seq(Events)
  BY <1>1, AppendProperties, EmptySeq
<1> QED
  BY <1>2 DEF Write

\* The clients' own variables.
LEMMA ClientTypeStep ==
    ASSUME TypeOK, [Next]_vars
    PROVE  /\ (pc \in [Clients -> {"start", "dial", "send", "wait", "exited"}])'
           /\ (signalled \in [Clients -> BOOLEAN])'
           /\ (accepted \in [Clients -> BOOLEAN])'
           /\ (report \in [Clients -> {"none", "usage", "unreachable",
                "send failed", "complete", "caveat", "failed", "no result",
                "observed", "unknown"}])'
<1> USE DEF TypeOK, clientVars
<1>1. ASSUME NEW c \in Clients,
             Dispatch(c) \/ Dial(c) \/ Send(c) \/ Finish(c) \/ Lost(c)
             \/ Interrupted(c)
      PROVE  /\ (pc \in [Clients -> {"start", "dial", "send", "wait", "exited"}])'
             /\ (report \in [Clients -> {"none", "usage", "unreachable",
                  "send failed", "complete", "caveat", "failed", "no result",
                  "observed", "unknown"}])'
             /\ UNCHANGED <<signalled, accepted>>
  BY ZenonT(40), <1>1 DEF Dispatch, Dial, Send, Finish, Lost, Interrupted, Goto, Exit,
     finishResult
<1>2. ASSUME NEW c \in Clients, OnEvent(c)
      PROVE  accepted' \in [Clients -> BOOLEAN] /\ UNCHANGED <<pc, signalled, report>>
  BY <1>2 DEF OnEvent
<1>3. ASSUME NEW c \in Clients, Signal(c)
      PROVE  signalled' \in [Clients -> BOOLEAN] /\ UNCHANGED <<pc, accepted, report>>
  BY <1>3 DEF Signal
<1>4. ASSUME NEW c \in Clients, Handler(c) PROVE UNCHANGED clientVars
  BY <1>4 DEF Handler, Handle, Deliver
<1>5. CASE Begin \/ Broker \/ Drain \/ StopOrStart \/ Crash
  BY <1>5 DEF Begin, Broker, Drain, StopOrStart, Crash
<1>6. CASE UNCHANGED vars
  BY <1>6 DEF vars
<1> QED
  BY <1>1, <1>2, <1>3, <1>4, <1>5, <1>6 DEF Next, Client

\* The connections.
LEMMA LinkTypeStep == TypeOK /\ [Next]_vars => (link \in [Clients -> Links])'
<1> SUFFICES ASSUME TypeOK, [Next]_vars PROVE (link \in [Clients -> Links])'
  OBVIOUS
<1>a. link \in [Clients -> Links] /\ <<>> \in Seq(Events)
  BY EmptySeq DEF TypeOK
<1>1. ASSUME NEW c \in Clients, Dial(c) \/ Send(c)
      PROVE  (link \in [Clients -> Links])'
  <2>1. \/ link' = link \/ link' = [link EXCEPT ![c].open = TRUE]
        \/ link' = [link EXCEPT ![c].handler = "decoding"]
    BY <1>1 DEF Dial, Send
  <2> QED
    BY ZenonT(40), <1>a, <2>1, LinkType
<1>2. ASSUME NEW c \in Clients, OnEvent(c) PROVE (link \in [Clients -> Links])'
  <2>1. Tail(link[c].wire) \in Seq(Events)
    BY <1>2, <1>a, LinkType, HeadTailProperties DEF OnEvent, Arrived
  <2>2. link' = [link EXCEPT ![c].wire = Tail(link[c].wire)]
    BY <1>2 DEF OnEvent
  <2> QED
    BY <1>a, <2>1, <2>2, LinkType
<1>3. ASSUME NEW c \in Clients, Finish(c) \/ Interrupted(c)
      PROVE  (link \in [Clients -> Links])'
  <2>1. link' = [link EXCEPT ![c].wire = <<>>]
    BY <1>3 DEF Finish, Interrupted
  <2> QED
    BY <1>a, <2>1, LinkType
<1>4. ASSUME NEW c \in Clients, Handle(c) PROVE (link \in [Clients -> Links])'
  <2>1. "queued" \in Events /\ "rejected" \in Events
    BY DEF Events, Finals
  <2>2. Write(c, "queued") \in Seq(Events) /\ Write(c, "rejected") \in Seq(Events)
    BY <1>a, <2>1, WriteType
  <2>3. Closed(c, "rejected") \in Links
    BY <1>a, <2>2, LinkType DEF Closed
  <2>4. \/ link' = [link EXCEPT ![c].wire = Write(c, "queued"),
                                ![c].handler = "serving"]
        \/ link' = [link EXCEPT ![c] = Closed(c, "rejected")]
    BY <1>4 DEF Handle
  <2>5. CASE link' = [link EXCEPT ![c].wire = Write(c, "queued"),
                                  ![c].handler = "serving"]
    BY <1>a, <2>2, <2>5, LinkType
  <2>6. CASE link' = [link EXCEPT ![c] = Closed(c, "rejected")]
    BY <1>a, <2>3, <2>6
  <2> QED
    BY <2>4, <2>5, <2>6
<1>5. ASSUME NEW c \in Clients, Deliver(c) PROVE (link \in [Clients -> Links])'
  <2>1. answer[c] \in Events
    BY <1>5 DEF Deliver, Server!Take, TypeOK, Events, Finals
  <2>2. Closed(c, answer[c]) \in Links
    BY <1>a, <2>1, WriteType, LinkType DEF Closed
  <2> QED
    BY <1>5, <1>a, <2>2 DEF Deliver
<1>6. CASE Begin
  <2>1. Head(line) \in Parties
    BY <1>6, HeadTailProperties DEF Begin, Server!Begin, TypeOK
  <2>2. CASE Head(line) = Ticker
    BY <1>6, <1>a, <2>2 DEF Begin
  <2>3. CASE Head(line) # Ticker
    <3>1. Head(line) \in Clients /\ "started" \in Events
      BY <2>1, <2>3 DEF Events
    <3>2. Write(Head(line), "started") \in Seq(Events)
      BY <1>a, <3>1, WriteType
    <3>3. link' = [link EXCEPT ![Head(line)].wire = Write(Head(line), "started")]
      BY <1>6, <2>3 DEF Begin
    <3> QED
      BY <1>a, <3>1, <3>2, <3>3, LinkType
  <2> QED
    BY <2>2, <2>3
<1>7. ASSUME NEW those, link' = Hangup(those) PROVE (link \in [Clients -> Links])'
  BY <1>7, <1>a DEF Hangup, Links
<1>8. CASE Drain \/ StopOrStart
  BY <1>7, <1>8 DEF Drain, StopOrStart
<1>9. CASE Crash
  <2>1. PICK kept \in BOOLEAN :
           link' = [c \in Clients |->
                      [NoLink EXCEPT !.wire = IF kept THEN link[c].wire ELSE <<>>]]
    BY <1>9 DEF Crash
  <2>2. \A c \in Clients : link[c].wire \in Seq(Events)
    BY <1>a, LinkType
  <2> QED
    BY <1>a, <2>1, <2>2 DEF NoLink, Links
<1>10. ASSUME NEW c \in Clients, Dispatch(c) \/ Lost(c) \/ Signal(c)
       PROVE  (link \in [Clients -> Links])'
  BY <1>10, <1>a DEF Dispatch, Lost, Signal
<1>11. CASE Broker \/ UNCHANGED vars
  BY <1>11, <1>a DEF Broker, vars
<1> QED
  BY <1>1, <1>2, <1>3, <1>4, <1>5, <1>6, <1>8, <1>9, <1>10, <1>11
     DEF Next, Client, Handler

\* The server's variables and the history.
LEMMA ServerTypeStep ==
    ASSUME TypeOK, [Next]_vars
    PROVE  /\ (life \in {"up", "draining", "down"})'
           /\ (line \in Seq(Parties) /\ running \in Parties \cup {Nobody})'
           /\ (answer \in [Parties -> Server!PassAnswers \cup {"none", "cancelled"}])'
           /\ (enqueued \in [Clients -> BOOLEAN])'
           /\ (verdict \in [Clients -> Finals \cup {"none", "lost"}])'
<1> USE DEF TypeOK, serverVars, truthVars
<1>1. ASSUME NEW c \in Clients, Dispatch(c) \/ Client(c) \/ Signal(c)
      PROVE  UNCHANGED <<life, serverVars, truthVars>>
  BY <1>1 DEF Dispatch, Client, Signal, Dial, Send, OnEvent, Finish, Lost,
     Interrupted
<1>2. ASSUME NEW c \in Clients, Handle(c)
      PROVE  /\ line' \in Seq(Parties) /\ UNCHANGED <<life, running, answer>>
             /\ enqueued' \in [Clients -> BOOLEAN]
             /\ verdict' \in [Clients -> Finals \cup {"none", "lost"}]
  <2>1. Append(line, c) \in Seq(Parties)
    BY AppendProperties
  <2> QED
    BY <1>2, <2>1 DEF Handle, Finals
<1>3. ASSUME NEW c \in Clients, Deliver(c)
      PROVE  /\ answer' \in [Parties -> Server!PassAnswers \cup {"none", "cancelled"}]
             /\ verdict' \in [Clients -> Finals \cup {"none", "lost"}]
             /\ UNCHANGED <<life, line, running, enqueued>>
  BY <1>3 DEF Deliver, Server!Take, Finals
<1>4. ASSUME line # <<>> PROVE Head(line) \in Parties /\ Tail(line) \in Seq(Parties)
  BY <1>4, HeadTailProperties
<1>5. CASE Begin
  BY <1>4, <1>5 DEF Begin, Server!Begin
<1>6. CASE Broker
  <2>1. UNCHANGED <<life, truthVars>>
    BY <1>6 DEF Broker
  <2>2. CASE Server!Accept(Ticker)
    BY <2>1, <2>2, AppendProperties DEF Server!Accept
  <2>3. CASE Server!Cancel
    BY <1>4, <2>1, <2>3 DEF Server!Cancel
  <2>4. ASSUME NEW a \in Server!PassAnswers, Server!Answer(a)
        PROVE  /\ answer' \in [Parties -> Server!PassAnswers \cup {"none", "cancelled"}]
               /\ running' = Nobody /\ UNCHANGED line
    BY <2>4 DEF Server!Answer
  <2>5. CASE Server!Take(Ticker)
    BY <2>1, <2>5 DEF Server!Take
  <2> QED
    BY <1>6, <2>1, <2>2, <2>3, <2>4, <2>5 DEF Broker
<1>7. CASE Drain
  BY <1>7 DEF Drain
<1>8. CASE StopOrStart
  BY <1>8 DEF StopOrStart
<1>9. CASE Crash
  BY <1>9, EmptySeq DEF Crash, Server!Lose
<1>10. CASE UNCHANGED vars
  BY <1>10 DEF vars
<1> QED
  BY <1>1, <1>2, <1>3, <1>5, <1>6, <1>7, <1>8, <1>9, <1>10
     DEF Next, Handler

\* Every variable keeps its type.
LEMMA TypeStep == TypeOK /\ [Next]_vars => TypeOK'
  BY ClientTypeStep, LinkTypeStep, ServerTypeStep DEF TypeOK

-------------------------------------------------------------------------------
\* Where the requests are.

\* Who is in line after a request joined it.
LEMMA AppendMembers ==
    ASSUME NEW q \in Seq(Parties), NEW x \in Parties, NEW r
    PROVE  (\E k \in 1..Len(Append(q, x)) : Append(q, x)[k] = r)
             <=> (\E k \in 1..Len(q) : q[k] = r) \/ r = x
<1>1. /\ Len(q) \in Nat /\ Len(Append(q, x)) = Len(q) + 1
      /\ \A k \in 1..Len(q) : Append(q, x)[k] = q[k]
      /\ Append(q, x)[Len(q) + 1] = x
  BY AppendProperties, LenProperties
<1> QED
  BY <1>1

\* A newcomer leaves no doubles in the line.
LEMMA AppendDistinct ==
    ASSUME NEW q \in Seq(Parties), NEW x \in Parties,
           \A j, k \in 1..Len(q) : q[j] = q[k] => j = k,
           \A k \in 1..Len(q) : q[k] # x
    PROVE  \A j, k \in 1..Len(Append(q, x)) :
               Append(q, x)[j] = Append(q, x)[k] => j = k
<1>1. /\ Len(q) \in Nat /\ Len(Append(q, x)) = Len(q) + 1
      /\ \A k \in 1..Len(q) : Append(q, x)[k] = q[k]
      /\ Append(q, x)[Len(q) + 1] = x
  BY AppendProperties, LenProperties
<1> QED
  BY <1>1

\* The head of a line without doubles is not in its tail; the others are, and
\* they stay distinct.
LEMMA TailMembers ==
    ASSUME NEW q \in Seq(Parties), q # <<>>,
           \A j, k \in 1..Len(q) : q[j] = q[k] => j = k
    PROVE  /\ Head(q) \in Parties /\ \E k \in 1..Len(q) : q[k] = Head(q)
           /\ \A k \in 1..Len(Tail(q)) :
                Tail(q)[k] # Head(q) /\ \E j \in 1..Len(q) : q[j] = Tail(q)[k]
           /\ \A j, k \in 1..Len(Tail(q)) : Tail(q)[j] = Tail(q)[k] => j = k
<1>1. /\ Len(q) \in Nat \ {0} /\ Len(Tail(q)) = Len(q) - 1
      /\ \A k \in 1..Len(Tail(q)) : Tail(q)[k] = q[k + 1]
      /\ Head(q) = q[1] /\ Head(q) \in Parties
  BY HeadTailProperties, EmptySeq
<1>2. 1 \in 1..Len(q)
  BY <1>1
<1>3. ASSUME NEW k \in 1..Len(Tail(q))
      PROVE  Tail(q)[k] # Head(q) /\ \E j \in 1..Len(q) : q[j] = Tail(q)[k]
  <2>1. k + 1 \in 1..Len(q) /\ k + 1 # 1 /\ Tail(q)[k] = q[k + 1]
    BY <1>1
  <2> QED
    BY <1>1, <1>2, <2>1
<1>4. ASSUME NEW j \in 1..Len(Tail(q)), NEW k \in 1..Len(Tail(q)),
             Tail(q)[j] = Tail(q)[k]
      PROVE  j = k
  <2>1. j + 1 \in 1..Len(q) /\ k + 1 \in 1..Len(q) /\ q[j + 1] = q[k + 1]
    BY <1>1, <1>4
  <2>2. j + 1 = k + 1
    BY <2>1
  <2> QED
    BY <1>1, <2>2
<1> QED
  BY <1>1, <1>2, <1>3, <1>4

\* A step of the server proper keeps every request in one place and takes up
\* nobody's but the one it accepts.
LEMMA ServerMoves ==
    ASSUME TypeOK, ServerInv
    PROVE  /\ \A r \in Parties : ~Held(r) /\ line' = Append(line, r)
                                 /\ UNCHANGED <<running, answer>> =>
                /\ ServerInv' /\ \A d \in Clients : Held(d)' => Held(d) \/ d = r
           /\ \A r \in Parties : Server!Take(r) =>
                /\ ServerInv' /\ \A d \in Clients : Held(d)' => Held(d) /\ d # r
           /\ Server!Begin \/ Server!Cancel
              \/ (\E a \in Server!PassAnswers : Server!Answer(a)) =>
                /\ ServerInv' /\ \A d \in Clients : Held(d)' => Held(d)
           /\ Server!Lose => ServerInv' /\ \A d \in Clients : ~Held(d)'
<1> USE DEF Server!Waits, Held
<1>a. /\ line \in Seq(Parties) /\ running \in Parties \cup {Nobody}
      /\ answer \in [Parties -> Server!PassAnswers \cup {"none", "cancelled"}]
  BY DEF TypeOK
<1>b. Nobody \notin Parties
  BY ClientsAssumption DEF Ticker, Nobody
<1>1. ASSUME NEW r \in Parties, ~Held(r), line' = Append(line, r),
             UNCHANGED <<running, answer>>
      PROVE  ServerInv' /\ \A d \in Clients : Held(d)' => Held(d) \/ d = r
  <2>1. \A s : Server!Waits(s)' <=> Server!Waits(s) \/ s = r
    BY <1>1, <1>a, AppendMembers
  <2>2. (\A j, k \in 1..Len(line) : line[j] = line[k] => j = k)'
    BY <1>1, <1>a, AppendDistinct DEF ServerInv
  <2> QED
    BY <1>1, <2>1, <2>2 DEF ServerInv
<1>2. ASSUME NEW r \in Parties, Server!Take(r)
      PROVE  ServerInv' /\ \A d \in Clients : Held(d)' => Held(d) /\ d # r
  BY <1>2, <1>a DEF Server!Take, ServerInv
<1>3. ASSUME line # <<>>, line' = Tail(line), NEW h, h = Head(line)
      PROVE  /\ h \in Parties /\ Server!Waits(h) /\ ~Server!Waits(h)'
             /\ \A s : Server!Waits(s)' => Server!Waits(s)
             /\ \A j, k \in 1..Len(line') : line'[j] = line'[k] => j = k
  <2>1. \A j, k \in 1..Len(line) : line[j] = line[k] => j = k
    BY DEF ServerInv
  <2>2. /\ h \in Parties /\ \E k \in 1..Len(line) : line[k] = h
        /\ \A k \in 1..Len(Tail(line)) :
             /\ Tail(line)[k] # h
             /\ \E j \in 1..Len(line) : line[j] = Tail(line)[k]
        /\ \A j, k \in 1..Len(Tail(line)) : Tail(line)[j] = Tail(line)[k] => j = k
    BY <1>3, <1>a, <2>1, TailMembers
  <2> QED
    BY <1>3, <2>2
<1>4. ASSUME Server!Begin
      PROVE  ServerInv' /\ \A d \in Clients : Held(d)' => Held(d)
  <2>1. PICK h : h = Head(line)
    OBVIOUS
  <2>2. /\ line # <<>> /\ line' = Tail(line) /\ running' = h /\ answer' = answer
    BY <1>4, <2>1 DEF Server!Begin
  <2>3. /\ h \in Parties /\ Server!Waits(h) /\ ~Server!Waits(h)'
        /\ \A s : Server!Waits(s)' => Server!Waits(s)
        /\ \A j, k \in 1..Len(line') : line'[j] = line'[k] => j = k
    BY <1>3, <2>1, <2>2
  <2> HIDE DEF Server!Waits
  <2> QED
    BY <1>a, <2>2, <2>3 DEF ServerInv
<1>5. ASSUME Server!Cancel
      PROVE  ServerInv' /\ \A d \in Clients : Held(d)' => Held(d)
  <2>1. PICK h : h = Head(line)
    OBVIOUS
  <2>2. /\ line # <<>> /\ line' = Tail(line) /\ running' = running
        /\ running = Nobody /\ answer' = [answer EXCEPT ![h] = "cancelled"]
    BY <1>5, <2>1 DEF Server!Cancel
  <2>3. /\ h \in Parties /\ Server!Waits(h) /\ ~Server!Waits(h)'
        /\ \A s : Server!Waits(s)' => Server!Waits(s)
        /\ \A j, k \in 1..Len(line') : line'[j] = line'[k] => j = k
    BY <1>3, <2>1, <2>2
  <2> HIDE DEF Server!Waits
  <2> QED
    BY <1>a, <1>b, <2>2, <2>3 DEF ServerInv
<1>6. ASSUME NEW a \in Server!PassAnswers, Server!Answer(a)
      PROVE  ServerInv' /\ \A d \in Clients : Held(d)' => Held(d)
  BY <1>6, <1>a, <1>b DEF Server!Answer, ServerInv
<1>7. ASSUME Server!Lose PROVE ServerInv' /\ \A d \in Clients : ~Held(d)'
  <2>1. line' = <<>> /\ running' = Nobody /\ \A r \in Parties : answer'[r] = "none"
    BY <1>7 DEF Server!Lose
  <2>2. \A s : ~Server!Waits(s)'
    BY <2>1, EmptySeq
  <2> QED
    BY <1>b, <2>1, <2>2, EmptySeq DEF ServerInv
<1> QED
  BY <1>1, <1>2, <1>4, <1>5, <1>6, <1>7

-------------------------------------------------------------------------------
\* What the invocations know.

\* Connection c has the given unread events and handler, the others what they had.
LinkMoved(c, w, h) ==
    /\ link'[c].wire = w /\ link'[c].handler = h
    /\ \A d \in Clients \ {c} : link'[d] = link[d]

\* What the updates of a connection leave in its fields.
LEMMA LinkFields ==
    ASSUME link \in [Clients -> Links], NEW c \in Clients, NEW w, NEW h
    PROVE  /\ link' = [link EXCEPT ![c].open = TRUE] =>
                LinkMoved(c, link[c].wire, link[c].handler)
           /\ link' = [link EXCEPT ![c].wire = w] => LinkMoved(c, w, link[c].handler)
           /\ link' = [link EXCEPT ![c].handler = h] => LinkMoved(c, link[c].wire, h)
           /\ link' = [link EXCEPT ![c].wire = w, ![c].handler = h] =>
                LinkMoved(c, w, h)
           /\ link' = [link EXCEPT ![c] = [open |-> FALSE, wire |-> w, handler |-> h]] =>
                LinkMoved(c, w, h)
<1>1. link[c] \in Links
  OBVIOUS
<1> QED
  BY <1>1 DEF Links, LinkMoved

\* An invocation that a step does not concern keeps its invariant.
LEMMA Frame ==
    ASSUME NEW d \in Clients, ClientInv(d), Held(d)' => Held(d),
           link'[d].wire = link[d].wire, link'[d].handler = link[d].handler,
           pc'[d] = pc[d], signalled'[d] = signalled[d], accepted'[d] = accepted[d],
           report'[d] = report[d], enqueued'[d] = enqueued[d],
           verdict'[d] = verdict[d]
    PROVE  ClientInv(d)'
  BY DEF ClientInv, HandlerInv, WireInv, ReportInv, Untouched

\* The events on the wire of a request that is still with its handler are not
\* final, and those the handler adds are true.
LEMMA WriteTrue ==
    ASSUME TypeOK, NEW c \in Clients, ClientInv(c), link[c].handler # "none",
           NEW ev \in Events
    PROVE  \A k \in 1..Len(Write(c, ev)) :
               \/ Write(c, ev)[k] = ev
               \/ /\ Write(c, ev)[k] \notin Finals
                  /\ Write(c, ev)[k] = "queued" => enqueued[c]
<1>1. link[c].wire \in Seq(Events)
  BY LinkType DEF TypeOK
<1>2. /\ Len(link[c].wire) \in Nat
      /\ Len(Append(link[c].wire, ev)) = Len(link[c].wire) + 1
      /\ \A k \in 1..Len(link[c].wire) :
           Append(link[c].wire, ev)[k] = link[c].wire[k]
      /\ Append(link[c].wire, ev)[Len(link[c].wire) + 1] = ev
  BY <1>1, AppendProperties, LenProperties
<1>3. \A k \in 1..Len(link[c].wire) :
         /\ link[c].wire[k] \notin Finals
         /\ link[c].wire[k] = "queued" => enqueued[c]
  BY DEF ClientInv, WireInv
<1>4. CASE pc[c] = "wait"
  <2>1. Write(c, ev) = Append(link[c].wire, ev)
    BY <1>4 DEF Write
  <2>2. ASSUME NEW k \in 1..Len(Write(c, ev))
        PROVE  \/ Write(c, ev)[k] = ev
               \/ /\ Write(c, ev)[k] \notin Finals
                  /\ Write(c, ev)[k] = "queued" => enqueued[c]
    <3>1. k \in 1..Len(link[c].wire) \/ k = Len(link[c].wire) + 1
      BY <1>2, <2>1
    <3> QED
      BY <1>2, <1>3, <2>1, <3>1
  <2> QED
    BY <2>2
<1>5. CASE pc[c] # "wait"
  BY <1>5, EmptySeq DEF Write
<1> QED
  BY <1>4, <1>5

\* A step of an invocation.
LEMMA ClientStep ==
    ASSUME IInv, NEW c \in Clients, Dispatch(c) \/ Client(c) \/ Signal(c)
    PROVE  ServerInv' /\ \A d \in Clients : ClientInv(d)'
<1>a. /\ link \in [Clients -> Links] /\ pc \in [Clients ->
             {"start", "dial", "send", "wait", "exited"}]
      /\ signalled \in [Clients -> BOOLEAN] /\ accepted \in [Clients -> BOOLEAN]
      /\ report \in [Clients -> {"none", "usage", "unreachable", "send failed",
                               "complete", "caveat", "failed", "no result",
                               "observed", "unknown"}]
  BY DEF IInv, TypeOK
<1>b. UNCHANGED <<line, running, answer, enqueued, verdict>>
  BY DEF Dispatch, Client, Signal, Dial, Send, OnEvent, Finish, Lost, Interrupted,
     serverVars, truthVars
<1>c. ServerInv' /\ \A d \in Clients : Held(d)' <=> Held(d)
  BY <1>b DEF IInv, ServerInv, Held, Server!Waits
<1>d. ClientInv(c)
  BY DEF IInv
<1>e. /\ link[c].wire \in Seq(Events)
      /\ link[c].wire # <<>> =>
           /\ Head(link[c].wire) = link[c].wire[1] /\ 1 \in 1..Len(link[c].wire)
           /\ \A k \in 1..Len(Tail(link[c].wire)) :
                /\ k + 1 \in 1..Len(link[c].wire)
                /\ Tail(link[c].wire)[k] = link[c].wire[k + 1]
  <2>1. link[c].wire \in Seq(Events)
    BY <1>a, LinkType
  <2>2. ASSUME link[c].wire # <<>>
        PROVE  /\ Len(link[c].wire) \in Nat \ {0}
               /\ Len(Tail(link[c].wire)) = Len(link[c].wire) - 1
               /\ \A k \in 1..Len(Tail(link[c].wire)) :
                    Tail(link[c].wire)[k] = link[c].wire[k + 1]
               /\ Head(link[c].wire) = link[c].wire[1]
    BY <2>1, <2>2, HeadTailProperties, EmptySeq
  <2> QED
    BY <2>1, <2>2
\* The other invocations.
<1>f. ASSUME NEW d \in Clients, d # c PROVE ClientInv(d)'
  <2>1. /\ link'[d] = link[d] /\ pc'[d] = pc[d] /\ signalled'[d] = signalled[d]
        /\ accepted'[d] = accepted[d] /\ report'[d] = report[d]
    BY <1>a, <1>f DEF Dispatch, Client, Signal, Dial, Send, OnEvent, Finish, Lost,
       Interrupted, Goto, Exit
  <2> QED
    BY <1>b, <1>c, <2>1, Frame DEF IInv
<1> HIDE DEF Parties
<1> USE DEF ClientInv, HandlerInv, WireInv, ReportInv, Untouched
<1>1. ASSUME Dispatch(c) PROVE ClientInv(c)'
  <2>1. /\ UNCHANGED <<link, signalled, accepted>> /\ pc[c] = "start"
        /\ \/ pc'[c] = "dial" /\ report'[c] = report[c]
           \/ pc'[c] = "exited" /\ report'[c] = "usage"
    BY <1>1, <1>a DEF Dispatch, Goto, Exit
  <2> QED
    BY <1>b, <1>c, <1>d, <2>1
<1>2. ASSUME Dial(c) PROVE ClientInv(c)'
  <2>1. /\ UNCHANGED <<signalled, accepted>> /\ pc[c] = "dial"
        /\ \/ /\ pc'[c] = "send" /\ report'[c] = report[c]
              /\ link' = [link EXCEPT ![c].open = TRUE]
           \/ pc'[c] = "exited" /\ report'[c] = "unreachable" /\ link' = link
    BY <1>2, <1>a DEF Dial, Goto, Exit
  <2>2. link'[c].wire = link[c].wire /\ link'[c].handler = link[c].handler
    BY <1>a, <2>1, LinkFields DEF LinkMoved
  <2> QED
    BY <1>b, <1>c, <1>d, <2>1, <2>2
<1>3. ASSUME Send(c) PROVE ClientInv(c)'
  <2>1. /\ UNCHANGED <<signalled, accepted>> /\ pc[c] = "send"
        /\ \/ /\ pc'[c] = "wait" /\ report'[c] = report[c]
              /\ link' = [link EXCEPT ![c].handler = "decoding"]
           \/ pc'[c] = "exited" /\ report'[c] = "send failed" /\ link' = link
    BY <1>3, <1>a DEF Send, Goto, Exit
  <2>2. /\ link'[c].wire = link[c].wire
        /\ pc'[c] = "exited" => link'[c].handler = link[c].handler
    BY ZenonT(40), <1>a, <2>1, LinkFields DEF LinkMoved
  <2>3. ~Held(c) /\ link[c].wire = <<>>
    BY <1>d, <2>1
  <2>4. HandlerInv(c)'
    BY <1>c, <2>3
  <2>5. WireInv(c)'
    <3>1. 1..Len(link'[c].wire) = {}
      BY <2>2, <2>3, EmptySeq
    <3> QED
      BY <1>b, <1>d, <2>1, <3>1
  <2>6. ReportInv(c)'
    BY <1>b, <1>d, <2>1, <2>2
  <2> QED
    BY <2>4, <2>5, <2>6
<1>4. ASSUME OnEvent(c) PROVE ClientInv(c)'
  <2>1. /\ UNCHANGED <<signalled, pc, report>> /\ pc[c] = "wait"
        /\ link[c].wire # <<>>
        /\ link' = [link EXCEPT ![c].wire = Tail(link[c].wire)]
        /\ accepted'[c] = (accepted[c] \/ Head(link[c].wire) = "queued")
    BY <1>4, <1>a DEF OnEvent, Arrived
  <2>2. /\ link'[c].wire = Tail(link[c].wire)
        /\ link'[c].handler = link[c].handler
    BY <1>a, <2>1, LinkFields DEF LinkMoved
  <2>3. Head(link[c].wire) = "queued" => enqueued[c]
    BY <1>d, <1>e, <2>1
  <2>4. \A k \in 1..Len(link'[c].wire) :
          /\ link'[c].wire[k] \in Finals =>
               link'[c].wire[k] = verdict[c] /\ link[c].handler = "none"
          /\ link'[c].wire[k] = "queued" => enqueued[c]
    <3> SUFFICES ASSUME NEW k \in 1..Len(Tail(link[c].wire))
                 PROVE  LET ev == Tail(link[c].wire)[k] IN
                        /\ ev \in Finals => ev = verdict[c] /\ link[c].handler = "none"
                        /\ ev = "queued" => enqueued[c]
      BY <2>2
    <3>1. /\ k + 1 \in 1..Len(link[c].wire)
          /\ Tail(link[c].wire)[k] = link[c].wire[k + 1]
      BY <1>e, <2>1
    <3> QED
      BY <1>d, <3>1
  <2> QED
    BY <1>b, <1>c, <1>d, <2>1, <2>2, <2>3, <2>4
<1>5. ASSUME Finish(c) PROVE ClientInv(c)'
  <2>1. /\ UNCHANGED <<signalled, accepted>> /\ pc[c] = "wait"
        /\ link[c].wire # <<>> /\ Head(link[c].wire) \in Finals
        /\ link' = [link EXCEPT ![c].wire = <<>>] /\ pc'[c] = "exited"
        /\ report'[c] = finishResult(Head(link[c].wire))
    BY <1>5, <1>a DEF Finish, Arrived, Exit
  <2>2. link'[c].wire = <<>> /\ link'[c].handler = link[c].handler
    BY <1>a, <2>1, LinkFields DEF LinkMoved
  <2>3. /\ Head(link[c].wire) = verdict[c] /\ link[c].handler = "none"
        /\ verdict[c] \in Finals
    BY <1>d, <1>e, <2>1
  <2>4. report'[c] \in {"complete", "caveat", "failed"}
    BY <2>1 DEF finishResult
  <2>5. 1..Len(link'[c].wire) = {}
    BY <2>2, EmptySeq
  <2> QED
    BY <1>b, <1>c, <1>d, <2>1, <2>2, <2>3, <2>4, <2>5
<1>6. ASSUME Lost(c) PROVE ClientInv(c)'
  <2>1. /\ UNCHANGED <<link, signalled, accepted>> /\ pc'[c] = "exited"
        /\ pc[c] = "wait" /\ report'[c] = "no result"
    BY <1>6, <1>a DEF Lost, Exit
  <2> QED
    BY <1>b, <1>c, <1>d, <2>1
<1>7. ASSUME Interrupted(c) PROVE ClientInv(c)'
  <2>1. /\ UNCHANGED <<signalled, accepted>> /\ signalled[c] /\ pc'[c] = "exited"
        /\ link' = [link EXCEPT ![c].wire = <<>>]
        /\ report'[c] = IF accepted[c] THEN "observed" ELSE "unknown"
    BY <1>7, <1>a DEF Interrupted, Exit
  <2>2. link'[c].wire = <<>> /\ link'[c].handler = link[c].handler
    BY <1>a, <2>1, LinkFields DEF LinkMoved
  <2>3. 1..Len(link'[c].wire) = {}
    BY <2>2, EmptySeq
  <2> QED
    BY <1>b, <1>c, <1>d, <2>1, <2>2, <2>3
<1>8. ASSUME Signal(c) PROVE ClientInv(c)'
  <2>1. UNCHANGED <<link, pc, accepted, report>> /\ signalled'[c] = TRUE
    BY <1>8, <1>a DEF Signal
  <2> QED
    BY <1>b, <1>c, <1>d, <2>1
<1> QED
  BY ZenonT(40), <1>c, <1>f, <1>1, <1>2, <1>3, <1>4, <1>5, <1>6, <1>7, <1>8 DEF Client

\* The handler queues the request, or refuses it.
LEMMA HandleStep ==
    ASSUME IInv, NEW c \in Clients, Handle(c)
    PROVE  ServerInv' /\ \A d \in Clients : ClientInv(d)'
<1>a. /\ link \in [Clients -> Links] /\ enqueued \in [Clients -> BOOLEAN]
      /\ verdict \in [Clients -> Finals \cup {"none", "lost"}]
      /\ TypeOK /\ ServerInv
  BY DEF IInv, TypeOK
<1>b. ClientInv(c) /\ c \in Parties
  BY DEF IInv
<1>c. link[c].handler = "decoding" /\ UNCHANGED <<clientVars, running, answer>>
  BY DEF Handle
<1>d. UNCHANGED <<pc, signalled, accepted, report>>
  BY <1>c DEF clientVars
<1>e. ~Held(c)
  BY <1>b, <1>c DEF ClientInv, HandlerInv
\* Only a client that waits, was interrupted or lost its connection still has a
\* handler that decodes.
<1>f. /\ pc[c] \notin {"start", "dial", "send"}
      /\ report[c] \notin {"usage", "unreachable", "send failed",
                          "complete", "caveat", "failed"}
      /\ (report[c] = "none" <=> pc[c] # "exited") /\ (accepted[c] => enqueued[c])
      /\ report[c] \in {"observed", "unknown"} => signalled[c]
      /\ report[c] = "observed" => enqueued[c]
  BY <1>b, <1>c DEF ClientInv, ReportInv, WireInv, Untouched
<1>1. CASE Admits
  <2>1. /\ line' = Append(line, c) /\ verdict' = verdict
        /\ link' = [link EXCEPT ![c].wire = Write(c, "queued"),
                                ![c].handler = "serving"]
        /\ enqueued' = [enqueued EXCEPT ![c] = TRUE]
    BY <1>1 DEF Handle
  <2>2. LinkMoved(c, Write(c, "queued"), "serving")
    BY <1>a, <2>1, LinkFields
  <2>3. ServerInv' /\ \A d \in Clients : Held(d)' => Held(d) \/ d = c
    BY <1>a, <1>b, <1>c, <1>e, <2>1, ServerMoves
  <2>4. ASSUME NEW d \in Clients, d # c PROVE ClientInv(d)'
    BY <1>a, <1>d, <2>1, <2>2, <2>3, <2>4, Frame DEF LinkMoved, IInv
  <2>5. \A k \in 1..Len(Write(c, "queued")) : Write(c, "queued")[k] \notin Finals
    <3>1. "queued" \in Events /\ "queued" \notin Finals
      BY DEF Events, Finals, Server!PassAnswers
    <3> QED
      BY <1>a, <1>b, <1>c, <3>1, WriteTrue
  <2>6. HandlerInv(c)' /\ WireInv(c)'
    BY <1>a, <2>1, <2>2, <2>5 DEF LinkMoved, HandlerInv, WireInv
  <2>7. ReportInv(c)'
    BY <1>a, <1>d, <1>f, <2>1 DEF ReportInv
  <2> QED
    BY <2>3, <2>4, <2>6, <2>7 DEF ClientInv
<1>2. CASE ~Admits
  <2>1. /\ UNCHANGED <<line, enqueued>>
        /\ link' = [link EXCEPT ![c] = Closed(c, "rejected")]
        /\ verdict' = [verdict EXCEPT ![c] = "rejected"]
    BY <1>2 DEF Handle
  <2>2. LinkMoved(c, Write(c, "rejected"), "none")
    BY <1>a, <2>1, LinkFields DEF Closed
  <2>3. ServerInv' /\ \A d \in Clients : Held(d)' <=> Held(d)
    BY <1>a, <1>c, <2>1 DEF ServerInv, Held, Server!Waits
  <2>4. ASSUME NEW d \in Clients, d # c PROVE ClientInv(d)'
    BY <1>a, <1>d, <2>1, <2>2, <2>3, <2>4, Frame DEF LinkMoved, IInv
  <2>5. \A k \in 1..Len(Write(c, "rejected")) :
           \/ Write(c, "rejected")[k] = "rejected"
           \/ /\ Write(c, "rejected")[k] \notin Finals
              /\ Write(c, "rejected")[k] = "queued" => enqueued[c]
    <3>1. "rejected" \in Events
      BY DEF Events, Finals
    <3> QED
      BY <1>a, <1>b, <1>c, <3>1, WriteTrue
  <2>6. HandlerInv(c)'
    BY <1>e, <2>3 DEF HandlerInv
  <2>7. WireInv(c)'
    BY ZenonT(40), <1>a, <1>d, <1>f, <2>1, <2>2, <2>5 DEF LinkMoved, WireInv
  <2>8. ReportInv(c)'
    BY <1>a, <1>d, <1>f, <2>1 DEF ReportInv
  <2> QED
    BY <2>3, <2>4, <2>6, <2>7, <2>8 DEF ClientInv
<1> QED
  BY <1>1, <1>2

\* The handler delivers the answer and closes.
LEMMA DeliverStep ==
    ASSUME IInv, NEW c \in Clients, Deliver(c)
    PROVE  ServerInv' /\ \A d \in Clients : ClientInv(d)'
<1>a. /\ link \in [Clients -> Links] /\ TypeOK /\ ServerInv
      /\ verdict \in [Clients -> Finals \cup {"none", "lost"}]
  BY DEF IInv, TypeOK
<1>b. ClientInv(c) /\ c \in Parties
  BY DEF IInv
<1>c. /\ Server!Take(c) /\ UNCHANGED <<clientVars, enqueued>>
      /\ link' = [link EXCEPT ![c] = Closed(c, answer[c])]
      /\ verdict' = [verdict EXCEPT ![c] = answer[c]]
  BY DEF Deliver
<1>d. UNCHANGED <<pc, signalled, accepted, report>>
  BY <1>c DEF clientVars
<1>e. answer[c] \in Finals /\ answer[c] \in Events /\ Held(c)
  BY <1>a, <1>b, <1>c DEF Server!Take, TypeOK, Finals, Events, Held
<1>f. link[c].handler = "serving"
  BY <1>b, <1>e DEF ClientInv, HandlerInv
<1>g. /\ pc[c] \notin {"start", "dial", "send"}
      /\ report[c] \notin {"usage", "unreachable", "send failed",
                          "complete", "caveat", "failed"}
      /\ (report[c] = "none" <=> pc[c] # "exited") /\ (accepted[c] => enqueued[c])
      /\ report[c] \in {"observed", "unknown"} => signalled[c]
      /\ report[c] = "observed" => enqueued[c]
  BY <1>b, <1>f DEF ClientInv, ReportInv, WireInv, Untouched
<1>1. LinkMoved(c, Write(c, answer[c]), "none")
  BY <1>a, <1>c, LinkFields DEF Closed
<1>2. ServerInv' /\ \A d \in Clients : Held(d)' => Held(d) /\ d # c
  BY <1>a, <1>b, <1>c, ServerMoves
<1>3. ASSUME NEW d \in Clients, d # c PROVE ClientInv(d)'
  BY <1>a, <1>c, <1>d, <1>1, <1>2, <1>3, Frame DEF LinkMoved, IInv
<1>4. \A k \in 1..Len(Write(c, answer[c])) :
         \/ Write(c, answer[c])[k] = answer[c]
         \/ /\ Write(c, answer[c])[k] \notin Finals
            /\ Write(c, answer[c])[k] = "queued" => enqueued[c]
  BY <1>a, <1>b, <1>e, <1>f, WriteTrue
<1>5. HandlerInv(c)'
  BY <1>2 DEF HandlerInv
<1>6. WireInv(c)'
  <2>1. answer[c] # "queued"
    BY <1>e DEF Finals, Server!PassAnswers
  <2> QED
    BY ZenonT(40), <1>a, <1>c, <1>d, <1>g, <1>1, <1>4, <2>1 DEF LinkMoved, WireInv
<1>7. ReportInv(c)'
  BY <1>a, <1>c, <1>d, <1>g DEF ReportInv
<1> QED
  BY <1>2, <1>3, <1>5, <1>6, <1>7 DEF ClientInv

\* The executor, the ticker and the daemon's life.
LEMMA DaemonStep ==
    ASSUME IInv, Begin \/ Broker \/ Drain \/ StopOrStart \/ Crash
    PROVE  ServerInv' /\ \A d \in Clients : ClientInv(d)'
<1>a. /\ link \in [Clients -> Links] /\ TypeOK /\ ServerInv
      /\ verdict \in [Clients -> Finals \cup {"none", "lost"}]
  BY DEF IInv, TypeOK
<1>b. \A d \in Clients : ClientInv(d)
  BY DEF IInv
<1>c. UNCHANGED <<pc, signalled, accepted, report, enqueued>>
  BY DEF Begin, Broker, Drain, StopOrStart, Crash, clientVars, truthVars
<1>1. CASE Begin
  <2>1. PICK h : h = Head(line)
    OBVIOUS
  <2>2. /\ Server!Begin /\ verdict' = verdict /\ line # <<>>
        /\ link' = IF h = Ticker THEN link
                   ELSE [link EXCEPT ![h].wire = Write(h, "started")]
    BY <1>1, <2>1 DEF Begin, truthVars, Server!Begin
  <2>3. ServerInv' /\ \A d \in Clients : Held(d)' => Held(d)
    BY <1>a, <2>2, ServerMoves
  <2>4. CASE h = Ticker
    BY <1>b, <1>c, <2>2, <2>3, <2>4, Frame
  <2>5. CASE h # Ticker
    <3>1. h \in Clients /\ Held(h)
      <4>1. line \in Seq(Parties) /\ line # <<>>
            /\ \A j, k \in 1..Len(line) : line[j] = line[k] => j = k
        BY <1>a, <2>2 DEF TypeOK, ServerInv
      <4>2. h \in Parties /\ \E k \in 1..Len(line) : line[k] = h
        BY <2>1, <4>1, TailMembers
      <4> QED
        BY <2>5, <4>2 DEF Held, Server!Waits
    <3>2. link[h].handler = "serving"
      BY <1>b, <3>1 DEF ClientInv, HandlerInv
    <3>3. LinkMoved(h, Write(h, "started"), "serving")
      BY <1>a, <2>2, <2>5, <3>1, <3>2, LinkFields
    <3>4. ASSUME NEW d \in Clients, d # h PROVE ClientInv(d)'
      BY <1>b, <1>c, <2>2, <2>3, <3>3, <3>4, Frame DEF LinkMoved
    <3>5. \A k \in 1..Len(Write(h, "started")) :
             /\ Write(h, "started")[k] \notin Finals
             /\ Write(h, "started")[k] = "queued" => enqueued[h]
      <4>1. "started" \in Events /\ "started" \notin Finals
        BY DEF Events, Finals, Server!PassAnswers
      <4> QED
        BY <1>a, <1>b, <3>1, <3>2, <4>1, WriteTrue
    <3>6. HandlerInv(h)' /\ WireInv(h)'
      BY <1>b, <1>c, <3>1, <3>3, <3>5
         DEF LinkMoved, HandlerInv, WireInv, ClientInv
    <3>7. ReportInv(h)'
      BY <1>b, <1>c, <3>1, <3>2 DEF ReportInv, ClientInv, Untouched
    <3> QED
      BY <2>3, <3>4, <3>6, <3>7 DEF ClientInv
  <2> QED
    BY <2>4, <2>5
<1>2. CASE Broker
  <2>1. UNCHANGED <<link, verdict>>
    BY <1>2 DEF Broker, truthVars
  <2>2. CASE Server!Accept(Ticker)
    <3>1. /\ ~Held(Ticker) /\ line' = Append(line, Ticker)
          /\ UNCHANGED <<running, answer>>
      BY <2>2 DEF Server!Accept, Held
    <3>2. /\ ServerInv'
          /\ \A d \in Clients : Held(d)' => Held(d) \/ d = Ticker
      BY <1>a, <3>1, ServerMoves
    <3> QED
      BY <1>b, <1>c, <2>1, <3>2, Frame, ClientsAssumption
  <2>3. CASE Server!Cancel \/ \E a \in Server!PassAnswers : Server!Answer(a)
    <3>1. ServerInv' /\ \A d \in Clients : Held(d)' => Held(d)
      BY <1>a, <2>3, ServerMoves
    <3> QED
      BY <1>b, <1>c, <2>1, <3>1, Frame
  <2>4. CASE Server!Take(Ticker)
    <3>1. ServerInv' /\ \A d \in Clients : Held(d)' => Held(d)
      BY <1>a, <2>4, ServerMoves
    <3> QED
      BY <1>b, <1>c, <2>1, <3>1, Frame
  <2> QED
    BY <1>2, <2>2, <2>3, <2>4 DEF Broker
<1>3. CASE Drain \/ StopOrStart
  <2>1. /\ UNCHANGED <<line, running, answer, verdict>>
        /\ \E those : link' = Hangup(those)
    BY <1>3 DEF Drain, StopOrStart, serverVars, truthVars
  <2>2. ServerInv' /\ \A d \in Clients : Held(d)' <=> Held(d)
    BY <1>a, <2>1 DEF ServerInv, Held, Server!Waits
  <2>3. ASSUME NEW d \in Clients
        PROVE  link'[d].wire = link[d].wire /\ link'[d].handler = link[d].handler
    <3>1. link[d] \in Links
      BY <1>a
    <3> QED
      BY <2>1, <3>1 DEF Hangup, Links
  <2> QED
    BY <1>b, <1>c, <2>1, <2>2, <2>3, Frame
<1>4. CASE Crash
  <2>1. ServerInv' /\ \A d \in Clients : ~Held(d)'
    BY <1>4, <1>a, ServerMoves DEF Crash
  <2>2. ASSUME NEW d \in Clients
        PROVE  /\ link'[d].wire \in {link[d].wire, <<>>} /\ link'[d].handler = "none"
               /\ verdict'[d] = IF link[d].handler # "none" THEN "lost" ELSE verdict[d]
    BY <1>4 DEF Crash, NoLink
  <2>3. ASSUME NEW d \in Clients PROVE WireInv(d)'
    <3>1. CASE link'[d].wire = <<>>
      <4>1. 1..Len(link'[d].wire) = {}
        BY <3>1, EmptySeq
      <4> QED
        BY <1>b, <1>c, <4>1 DEF WireInv, ClientInv
    <3>2. CASE link'[d].wire = link[d].wire
      BY <1>b, <1>c, <2>2, <3>2 DEF WireInv, ClientInv
    <3> QED
      BY <2>2, <3>1, <3>2
  <2>4. ASSUME NEW d \in Clients PROVE ReportInv(d)'
    BY <1>b, <1>c, <2>2 DEF ReportInv, ClientInv, Untouched
  <2> QED
    BY <2>1, <2>3, <2>4 DEF ClientInv, HandlerInv
<1> QED
  BY <1>1, <1>2, <1>3, <1>4

\* IInv is inductive.
LEMMA Invariance == Safe => []IInv
<1>1. Init => IInv
  <2> SUFFICES ASSUME Init PROVE IInv
    OBVIOUS
  <2>1. /\ line = <<>> /\ running = Nobody
        /\ answer = [r \in Parties |-> "none"]
    BY DEF Init, Server!Init
  <2>2. TypeOK
    BY <2>1, EmptySeq DEF Init, TypeOK, NoLink, Links
  <2>3. \A r \in Parties : ~Held(r)
    BY <2>1, ClientsAssumption, EmptySeq DEF Held, Server!Waits, Ticker, Nobody
  <2>4. ServerInv
    BY <2>1, <2>3, EmptySeq DEF ServerInv, Held
  <2>5. ASSUME NEW c \in Clients PROVE ClientInv(c)
    <3>1. /\ pc[c] = "start" /\ report[c] = "none" /\ ~accepted[c]
          /\ ~enqueued[c] /\ verdict[c] = "none"
          /\ link[c].wire = <<>> /\ link[c].handler = "none"
      BY DEF Init, NoLink
    <3>2. 1..Len(link[c].wire) = {}
      BY <3>1, EmptySeq
    <3> QED
      BY <2>3, <3>1, <3>2 DEF ClientInv, HandlerInv, WireInv, ReportInv, Untouched
  <2> QED
    BY <2>2, <2>4, <2>5 DEF IInv
<1>2. IInv /\ [Next]_vars => IInv'
  <2> SUFFICES ASSUME IInv, [Next]_vars PROVE IInv'
    OBVIOUS
  <2>1. TypeOK'
    BY TypeStep DEF IInv
  <2>2. CASE UNCHANGED vars
    <3>1. UNCHANGED <<pc, signalled, accepted, report, link, line, running, answer,
                      enqueued, verdict>>
      BY <2>2 DEF vars, clientVars, serverVars, truthVars
    <3>2. ServerInv' /\ \A d \in Clients : Held(d)' <=> Held(d)
      BY <3>1 DEF IInv, ServerInv, Held, Server!Waits
    <3>3. \A d \in Clients : ClientInv(d)'
      BY <3>1, <3>2, Frame DEF IInv
    <3> QED
      BY <2>1, <3>2, <3>3 DEF IInv
  <2>3. CASE Next
    <3>1. ServerInv' /\ \A d \in Clients : ClientInv(d)'
      BY <2>3, ClientStep, HandleStep, DeliverStep, DaemonStep DEF Next, Handler
    <3> QED
      BY <2>1, <3>1 DEF IInv
  <2> QED
    BY <2>2, <2>3
<1> QED
  BY <1>1, <1>2, PTL DEF Safe

\* Exit 0 is kept for a pass that ended well, with or without a caveat.
LEMMA ExitZero ==
    ASSUME NEW said PROVE ExitCode(said) = 0 <=> said \in {"complete", "caveat"}
<1>1. CASE said \in {"complete", "caveat"}
  BY <1>1 DEF ExitCode
<1>2. CASE said \notin {"complete", "caveat"} /\ said = "usage"
  BY <1>2 DEF ExitCode
<1>3. CASE said \notin {"complete", "caveat"} /\ said # "usage"
  BY <1>3 DEF ExitCode
<1> QED
  BY <1>1, <1>2, <1>3

\* runClient's exit code and last line are about the pass this invocation asked
\* for, for any number of invocations, any queue, and across daemon restarts.
THEOREM ExitProved == Safe => []ExitTellsPass
<1>1. IInv => ExitTellsPass
  <2> SUFFICES ASSUME IInv, NEW c \in Clients, pc[c] = "exited"
               PROVE  /\ ExitCode(report[c]) = 0 =>
                           /\ verdict[c] \in {"ok", "caveat"}
                           /\ (report[c] = "caveat" <=> verdict[c] = "caveat")
                      /\ report[c] = "failed" =>
                           verdict[c] \in Finals \ {"ok", "caveat"}
                      /\ verdict[c] \in {"ok", "caveat"} =>
                           \/ ExitCode(report[c]) = 0
                           \/ signalled[c] \/ report[c] = "no result"
    BY DEF ExitTellsPass
  <2>1. ReportInv(c)
    BY DEF IInv, ClientInv
  <2>2. report[c] \in {"none", "usage", "unreachable", "send failed",
                       "complete", "caveat", "failed", "no result",
                       "observed", "unknown"}
    BY DEF IInv, TypeOK
  <2>3. CASE report[c] \in {"usage", "unreachable", "send failed"}
    <3>1. ExitCode(report[c]) # 0 /\ report[c] # "failed"
      BY <2>3, ExitZero
    <3>2. verdict[c] = "none"
      BY <2>1, <2>3 DEF ReportInv, Untouched
    <3> QED
      BY <3>1, <3>2
  <2>4. CASE report[c] \in {"complete", "caveat", "failed"}
    <3>1. verdict[c] \in Finals /\ report[c] = finishResult(verdict[c])
      BY <2>1, <2>4 DEF ReportInv
    <3>2. /\ report[c] \in {"complete", "caveat"} <=> verdict[c] \in {"ok", "caveat"}
          /\ report[c] = "caveat" <=> verdict[c] = "caveat"
      BY <3>1 DEF finishResult
    <3>3. ExitCode(report[c]) = 0 <=> report[c] \in {"complete", "caveat"}
      BY ExitZero
    <3> QED
      BY <2>4, <3>1, <3>2, <3>3
  <2>5. CASE report[c] \in {"no result", "observed", "unknown"}
    <3>1. ExitCode(report[c]) # 0 /\ report[c] # "failed"
      BY <2>5, ExitZero
    <3>2. report[c] = "no result" \/ signalled[c]
      BY <2>1, <2>5 DEF ReportInv
    <3> QED
      BY <3>1, <3>2
  <2>6. report[c] # "none"
    BY <2>1 DEF ReportInv
  <2> QED
    BY <2>2, <2>3, <2>4, <2>5, <2>6
<1> QED
  BY <1>1, Invariance, PTL

\* What an interrupted or failed client says about its request is true, however
\* the signal, the daemon's refusal and its crash are ordered.
THEOREM HonestProved == Safe => []AcceptanceHonest
<1>1. IInv => AcceptanceHonest
  BY DEF IInv, ClientInv, ReportInv, Untouched, AcceptanceHonest
<1> QED
  BY <1>1, Invariance, PTL
===============================================================================
