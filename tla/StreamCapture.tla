----------------------------- MODULE StreamCapture -----------------------------
(***************************************************************************)
(* What runJob keeps of rsync's stderr (sync.go): delLimitCapture, which     *)
(* watches the byte stream for the --max-delete warning at a line start, in  *)
(* front of cappedBuffer, which keeps the end of the stream, and tail, which *)
(* cuts the log record out of that.  os/exec's copying goroutine hands the   *)
(* stream over in chunks of any size, so a line, a rune or the warning       *)
(* itself may be split anywhere.                                             *)
(***************************************************************************)
EXTENDS Naturals, Sequences, SequencesExt

CONSTANTS Bytes,         \* the byte values told apart
          Newline,       \* '\n'
          Continuations, \* bytes that do not start a rune
          Warn,          \* rsyncDelLimitWarn
          MaxBytes,      \* outputCapBytes
          TailBytes,     \* logStderrTailBytes
          MaxStream,     \* bound: bytes of one stream
          MaxChunk       \* bound: bytes of one Write

ASSUME StreamAssumption ==
    /\ Newline \in Bytes /\ Continuations \subseteq Bytes \ {Newline}
    /\ Warn \in Seq(Bytes \ {Newline}) /\ Warn # <<>>
    /\ MaxBytes \in Nat /\ TailBytes \in Nat \ {0} /\ TailBytes < MaxBytes
    /\ MaxStream \in Nat /\ MaxChunk \in Nat

VARIABLES capture,  \* delLimitCapture's own fields
          buf,      \* cappedBuffer.buf
          stream    \* history: every byte written so far

vars == <<capture, buf, stream>>

TypeOK ==
    /\ capture \in [prefixIndex: 0..Len(Warn), unmatched: BOOLEAN,
                    limited: BOOLEAN]
    /\ buf \in Seq(Bytes) /\ Len(buf) <= MaxBytes
    /\ stream \in Seq(Bytes) /\ Len(stream) <= MaxStream

NewCapture == [prefixIndex |-> 0, unmatched |-> FALSE, limited |-> FALSE]

Init == capture = NewCapture /\ buf = <<>> /\ stream = <<>>

-------------------------------------------------------------------------------
\* One turn of the scan loop; a limited capture looks at nothing more.
ScanByte(c, b) ==
    CASE c.limited -> c
      [] ~c.limited /\ b = Newline ->
           [c EXCEPT !.prefixIndex = 0, !.unmatched = FALSE]
      [] ~c.limited /\ b # Newline /\ c.unmatched -> c
      [] OTHER -> IF b # Warn[c.prefixIndex + 1]
                    THEN [c EXCEPT !.unmatched = TRUE]
                    ELSE [c EXCEPT !.prefixIndex = @ + 1,
                                   !.limited = c.prefixIndex + 1 = Len(Warn)]

\* The last n elements of s.
Suffix(s, n) == SubSeq(s, Len(s) - n + 1, Len(s))

\* The overflow is computed from the old content alone.
AppendUncounted(b, p) ==
    IF Len(p) >= MaxBytes THEN Suffix(p, MaxBytes)
    ELSE (IF Len(b) > MaxBytes THEN Suffix(b, MaxBytes) ELSE b) \o p

\* A large chunk is cut at its end.
AppendKeepsHead(b, p) ==
    IF Len(p) >= MaxBytes THEN SubSeq(p, 1, MaxBytes)
    ELSE LET total == Len(b) + Len(p) IN
         (IF total > MaxBytes THEN SubSeq(b, total - MaxBytes + 1, Len(b))
                              ELSE b) \o p

\* cappedBuffer.Write: a chunk as large as the cap replaces everything, a
\* smaller one pushes out what no longer fits.
CappedAppend(b, p) ==
    IF Len(p) >= MaxBytes THEN Suffix(p, MaxBytes)
    ELSE LET total == Len(b) + Len(p) IN
         (IF total > MaxBytes THEN SubSeq(b, total - MaxBytes + 1, Len(b))
                              ELSE b) \o p

\* A capture that takes every chunk for a new line.
WriteRestartsLine(p) ==
    /\ Len(stream) + Len(p) <= MaxStream
    /\ capture' = FoldLeft(ScanByte,
                           [capture EXCEPT !.prefixIndex = 0,
                                           !.unmatched = FALSE], p)
    /\ buf' = CappedAppend(buf, p)
    /\ stream' = stream \o p

\* delLimitCapture.Write: the scan, then the whole chunk into the buffer.
Write(p) ==
    /\ Len(stream) + Len(p) <= MaxStream
    /\ capture' = FoldLeft(ScanByte, capture, p)
    /\ buf' = CappedAppend(buf, p)
    /\ stream' = stream \o p

\* A cut at a byte offset.
TailAnywhere(s, n) == IF Len(s) <= n THEN s ELSE Suffix(s, n)

\* tail, without its truncation marker: the last n bytes, advanced to the next
\* rune start.
tail(s, n) ==
    IF Len(s) <= n THEN s
    ELSE LET starts == {k \in Len(s) - n + 1 .. Len(s) : s[k] \notin Continuations}
         IN  IF starts = {} THEN <<>>
             ELSE SubSeq(s, CHOOSE k \in starts : \A m \in starts : k <= m, Len(s))

\* rsync closed its stderr; nothing is written any more.
Closed == Len(stream) = MaxStream /\ UNCHANGED vars

Next == (\E p \in BoundedSeq(Bytes, MaxChunk) : Write(p)) \/ Closed

Spec == Init /\ [][Next]_vars

-------------------------------------------------------------------------------
\* Properties.

LineStart(k) == k = 1 \/ stream[k - 1] = Newline

\* The capture is limited exactly when some line of the whole stream begins
\* with the warning, wherever the chunks were cut and however long ago the
\* buffer evicted it; the warning inside a line does not count.
LimitedIffLineWarns ==
    capture.limited <=>
        \E k \in 1..Len(stream) :
            /\ LineStart(k)
            /\ IsPrefix(Warn, SubSeq(stream, k, Len(stream)))

\* The buffer is the end of the stream, full to the cap and no further: what
\* parseStats and tail look for is written last.
BufferIsEndOfStream ==
    buf = Suffix(stream, IF Len(stream) < MaxBytes THEN Len(stream) ELSE MaxBytes)

\* The logged stderr never begins inside a rune that started earlier in the
\* stream, whichever of the two cuts, the cap's or the tail's, split it.
TailStartsAtRune ==
    LET t == tail(buf, TailBytes) IN
        t # <<>> /\ t # stream => Head(t) \notin Continuations
===============================================================================
