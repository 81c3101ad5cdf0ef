------------------------------ MODULE SyncClient ------------------------------
(***************************************************************************)
(* `docker exec ... sync` (main.go, client.go) against a daemon that serves  *)
(* as PassServer promises: dispatch, runClient and finishResult, the events  *)
(* on each connection, the signal that interrupts a client, refusals, a      *)
(* daemon that shuts down, crashes and starts again.  Each member of Clients *)
(* is one invocation.                                                        *)
(***************************************************************************)
EXTENDS Naturals, Sequences

CONSTANTS Clients, Capacity

Ticker == "ticker"
Nobody == "nobody"

ASSUME ClientsAssumption ==
    Ticker \notin Clients /\ Nobody \notin Clients /\ Capacity \in Nat \ {0}

VARIABLES
    pc,         \* where each invocation is
    signalled,  \* its signal-bound context is done
    accepted,   \* runClient's flag
    report,     \* what it logged last
    link,       \* its connection: open, events not read yet, handler
    life,       \* the daemon: "up", "draining" or "down"
    line, running, answer,  \* PassServer
    \* History variables: no step depends on them.
    enqueued,   \* the request was accepted
    verdict     \* the answer to it, "lost" if the process died first

clientVars == <<pc, signalled, accepted, report>>
serverVars == <<line, running, answer>>
truthVars  == <<enqueued, verdict>>
vars == <<clientVars, link, life, serverVars, truthVars>>

Server == INSTANCE PassServer WITH Requesters <- Clients \cup {Ticker}

Finals == Server!PassAnswers \cup {"cancelled", "rejected"}

NoLink == [open |-> FALSE, wire |-> <<>>, handler |-> "none"]

Init ==
    /\ pc = [c \in Clients |-> "start"] /\ signalled = [c \in Clients |-> FALSE]
    /\ accepted = [c \in Clients |-> FALSE] /\ report = [c \in Clients |-> "none"]
    /\ link = [c \in Clients |-> NoLink] /\ life \in {"up", "down"} /\ Server!Init
    /\ enqueued = [c \in Clients |-> FALSE] /\ verdict = [c \in Clients |-> "none"]

-------------------------------------------------------------------------------
\* The client.

\* The process ends after saying something.
Exit(c, said) == /\ pc' = [pc EXCEPT ![c] = "exited"]
                 /\ report' = [report EXCEPT ![c] = said]

Goto(c, there) == pc' = [pc EXCEPT ![c] = there] /\ UNCHANGED report

\* The code each arm of dispatch, runClient and finishResult returns.
ExitCode(said) == IF said \in {"complete", "caveat"} THEN 0
                  ELSE IF said = "usage" THEN 2 ELSE 1

\* dispatch: `sync`, or a subcommand it does not know.
Dispatch(c) ==
    /\ pc[c] = "start"
    /\ Goto(c, "dial") \/ Exit(c, "usage")
    /\ UNCHANGED <<signalled, accepted, link, life, serverVars, truthVars>>

\* trigger.Submit connects, or ErrUnreachable.
Dial(c) ==
    /\ pc[c] = "dial"
    /\ IF life = "up" THEN Goto(c, "send") /\ link' = [link EXCEPT ![c].open = TRUE]
                      ELSE Exit(c, "unreachable") /\ UNCHANGED link
    /\ UNCHANGED <<signalled, accepted, life, serverVars, truthVars>>

\* It sends the request, or ErrSend.
Send(c) ==
    /\ pc[c] = "send"
    /\ IF link[c].open
         THEN Goto(c, "wait") /\ link' = [link EXCEPT ![c].handler = "decoding"]
         ELSE Exit(c, "send failed") /\ UNCHANGED link
    /\ UNCHANGED <<signalled, accepted, life, serverVars, truthVars>>

Arrived(c, events) ==
    pc[c] = "wait" /\ link[c].wire # <<>> /\ Head(link[c].wire) \in events

\* A flag that is set when the request has gone out.
AcceptedOnceSent(c) ==
    /\ pc[c] = "wait" /\ ~accepted[c]
    /\ accepted' = [accepted EXCEPT ![c] = TRUE]
    /\ UNCHANGED <<pc, signalled, report, link, life, serverVars, truthVars>>

\* The callback of trigger.Submit.
OnEvent(c) ==
    /\ Arrived(c, {"queued", "started"})
    /\ accepted' = [accepted EXCEPT ![c] = @ \/ Head(link[c].wire) = "queued"]
    /\ link' = [link EXCEPT ![c].wire = Tail(@)]
    /\ UNCHANGED <<pc, signalled, report, life, serverVars, truthVars>>

\* A result told by its reason instead of its verdict.
FinishByReason(ev) ==
    IF ev \in {"ok", "failed"} THEN "complete"
    ELSE IF ev = "caveat" THEN "caveat" ELSE "failed"

finishResult(ev) == IF ev = "ok" THEN "complete"
                    ELSE IF ev = "caveat" THEN "caveat" ELSE "failed"

Finish(c) ==
    /\ Arrived(c, Finals)
    /\ Exit(c, finishResult(Head(link[c].wire)))
    /\ link' = [link EXCEPT ![c].wire = <<>>]
    /\ UNCHANGED <<signalled, accepted, life, serverVars, truthVars>>

\* A client that only a final event ends.
LostUnnoticed(c) == FALSE /\ UNCHANGED vars

\* The stream ends before a final event: the catch-all arm.
Lost(c) ==
    /\ pc[c] = "wait" /\ link[c].wire = <<>> /\ ~link[c].open
    /\ Exit(c, "no result")
    /\ UNCHANGED <<signalled, accepted, link, life, serverVars, truthVars>>

Signal(c) ==
    /\ pc[c] \in {"dial", "send", "wait"}
    /\ signalled' = [signalled EXCEPT ![c] = TRUE]
    /\ UNCHANGED <<pc, accepted, report, link, life, serverVars, truthVars>>

\* A client that takes its waiting request along.
InterruptedWithdraws(c) ==
    /\ pc[c] \in {"dial", "send", "wait"} /\ signalled[c]
    /\ Exit(c, IF accepted[c] THEN "observed" ELSE "unknown")
    /\ line' = SelectSeq(line, LAMBDA r : r # c)
    /\ UNCHANGED <<signalled, accepted, link, life, running, answer, truthVars>>

\* context.Canceled, whatever is on the wire.  The daemon is not told.
Interrupted(c) ==
    /\ pc[c] \in {"dial", "send", "wait"} /\ signalled[c]
    /\ Exit(c, IF accepted[c] THEN "observed" ELSE "unknown")
    /\ link' = [link EXCEPT ![c].wire = <<>>]
    /\ UNCHANGED <<signalled, accepted, life, serverVars, truthVars>>

-------------------------------------------------------------------------------
\* The daemon (external: the trigger library, as Daemon models it).

\* What a handler writes reaches a client that still reads.
Write(c, ev) ==
    IF pc[c] = "wait" THEN Append(link[c].wire, ev) ELSE <<>>

\* The final event, after which the handler closes.
Closed(c, ev) == [open |-> FALSE, wire |-> Write(c, ev), handler |-> "none"]

Admits == life = "up" /\ Len(line) < Capacity

\* The request is decoded and queued, or refused.
Handle(c) ==
    /\ link[c].handler = "decoding"
    /\ IF Admits
         THEN /\ line' = Append(line, c)
              /\ link' = [link EXCEPT ![c].wire = Write(c, "queued"),
                                      ![c].handler = "serving"]
              /\ enqueued' = [enqueued EXCEPT ![c] = TRUE]
              /\ UNCHANGED verdict
         ELSE /\ link' = [link EXCEPT ![c] = Closed(c, "rejected")]
              /\ verdict' = [verdict EXCEPT ![c] = "rejected"]
              /\ UNCHANGED <<line, enqueued>>
    /\ UNCHANGED <<clientVars, life, running, answer>>

Begin ==
    /\ life = "up" /\ Server!Begin
    /\ link' = IF Head(line) = Ticker THEN link
               ELSE [link EXCEPT ![Head(line)].wire = Write(Head(line), "started")]
    /\ UNCHANGED <<clientVars, life, truthVars>>

Deliver(c) ==
    /\ Server!Take(c)
    /\ link' = [link EXCEPT ![c] = Closed(c, answer[c])]
    /\ verdict' = [verdict EXCEPT ![c] = answer[c]]
    /\ UNCHANGED <<clientVars, life, enqueued>>

\* Only a shutdown cancels a request or cuts a pass short.
Broker ==
    /\ \/ life = "up" /\ Server!Accept(Ticker)
       \/ life = "draining" /\ Server!Cancel
       \/ \E a \in Server!PassAnswers :
            (a = "caveat" => life = "draining") /\ Server!Answer(a)
       \/ Server!Take(Ticker)
    /\ UNCHANGED <<clientVars, link, life, truthVars>>

Hangup(those) == [c \in Clients |-> IF c \in those
                                      THEN [link[c] EXCEPT !.open = FALSE] ELSE link[c]]

\* The listener is closed; connections nobody accepted are reset.
Drain ==
    /\ life = "up" /\ life' = "draining"
    /\ \E reset \in SUBSET {c \in Clients : link[c].handler = "none"} :
         link' = Hangup(reset)
    /\ UNCHANGED <<clientVars, serverVars, truthVars>>

\* The end of the drain, or the next start.
StopOrStart ==
    /\ \/ /\ life = "draining" /\ Server!Init
          /\ \A c \in Clients : link[c].handler = "none"
          /\ life' = "down"
       \/ life = "down" /\ life' = "up"
    /\ link' = Hangup(Clients)
    /\ UNCHANGED <<clientVars, serverVars, truthVars>>

\* What was written may still be read, or be gone with the connection.
Crash ==
    /\ life # "down" /\ life' = "down" /\ Server!Lose
    /\ \E kept \in BOOLEAN :
         link' = [c \in Clients |->
                    [NoLink EXCEPT !.wire = IF kept THEN link[c].wire ELSE <<>>]]
    /\ verdict' = [c \in Clients |->
                     IF link[c].handler # "none" THEN "lost" ELSE verdict[c]]
    /\ UNCHANGED <<clientVars, enqueued>>

-------------------------------------------------------------------------------
Client(c) == Dial(c) \/ Send(c) \/ OnEvent(c) \/ Finish(c) \/ Lost(c) \/ Interrupted(c)

Handler(c) == Handle(c) \/ Deliver(c)

Next == \/ \E c \in Clients : Dispatch(c) \/ Client(c) \/ Signal(c) \/ Handler(c)
        \/ Begin \/ Broker \/ Drain \/ StopOrStart \/ Crash

Safe == Init /\ [][Next]_vars

\* Client processes and the daemon's goroutines run; nobody has to invoke, to
\* signal, to tick, to stop or to start anything.
Spec == /\ Safe
        /\ WF_vars(Begin \/ (Broker /\ line' # Append(line, Ticker)))
        /\ \A c \in Clients : WF_vars(Client(c)) /\ WF_vars(Handler(c))

-------------------------------------------------------------------------------
\* Properties.

\* The exit code and the last log line are about the pass this invocation asked
\* for.  Exit 0 means it ended without a failed job, with the caveat named;
\* "failed" means it did not, or never ran; and a good pass is reported as
\* anything else only to a client that was interrupted or whose daemon died.
ExitTellsPass ==
    \A c \in Clients : pc[c] = "exited" =>
        /\ ExitCode(report[c]) = 0 => verdict[c] \in {"ok", "caveat"}
                                     /\ (report[c] = "caveat" <=> verdict[c] = "caveat")
        /\ report[c] = "failed" => verdict[c] \in Finals \ {"ok", "caveat"}
        /\ verdict[c] \in {"ok", "caveat"} =>
             \/ ExitCode(report[c]) = 0
             \/ signalled[c] \/ report[c] = "no result"

\* What an interrupted or failed client says about its request is true.
\* "observed" is said only of a request the daemon took; one that could not be
\* sent was not taken, so that trying again cannot run the pass twice.
AcceptanceHonest ==
    \A c \in Clients :
        /\ report[c] = "observed" => enqueued[c]
        /\ report[c] \in {"usage", "unreachable", "send failed"} => ~enqueued[c]

\* An invocation ends: after its pass, after a signal, after a refusal, and
\* when the daemon goes away under it.
InvocationEnds == \A c \in Clients : pc[c] # "start" ~> pc[c] = "exited"

\* Interrupting a client leaves its request in place: what was accepted is
\* answered, whether or not somebody still waits, unless the daemon dies.
AcceptedOutlivesClient ==
    \A c \in Clients : enqueued[c] ~> verdict[c] # "none"
===============================================================================
