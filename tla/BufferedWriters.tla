-------------------------- MODULE BufferedWriters --------------------------
(***************************************************************************)
(* BufWriter and LineWriter (src/io/buffered.rs) over a writer that may    *)
(* take less than it is offered, take nothing, be interrupted, fail or     *)
(* panic.  The caller writes the bytes 1, 2, 3, ... and after each call    *)
(* goes on behind the bytes that it was told were taken.                   *)
(* A step ends at each call of the inner writer.                           *)
(***************************************************************************)
EXTENDS Integers, Sequences, SequencesExt

CONSTANTS
  BufCap,      \* the capacity of the buffer
  Total        \* bound: how many bytes the caller has

ASSUME WriterAssumption == BufCap \in Nat /\ Total \in Nat

VARIABLES
  lineWriter,   \* is it a LineWriter or only the BufWriter in it?
  newlines,     \* which of the bytes are newlines
  wbuf,         \* BufWriter::buf
  needFlush,    \* LineWriter::need_flush
  panicked,     \* BufWriter::panicked
  sink,         \* what the inner writer has taken
  accepted,     \* how many bytes the calls reported as written
  recovered,    \* did into_inner fail and hand the LineWriter back?
  wpc,          \* idle; drain: in flush_buf; put: behind the flush of BufWriter::write;
                \* sync: calling the inner flush; unwound; taken: by into_inner; dropped
  call          \* stage: what the BufWriter is working for; data: the caller's bytes;
                \* part: the ones BufWriter::write was given; written: flush_buf's; n: LineWriter's

setup == <<lineWriter, newlines>>
writerVars == <<setup, wbuf, needFlush, panicked, sink, accepted, recovered, wpc, call>>

Bytes(from, to) == [i \in 1..to - from + 1 |-> from + i - 1]
NoCall == [stage |-> "none", data |-> <<>>, part |-> <<>>, written |-> 0, n |-> 0]

InitWriter ==
  /\ lineWriter \in BOOLEAN
  /\ newlines \in SUBSET (1..Total) /\ (~lineWriter => newlines = {})
  /\ wbuf = <<>> /\ needFlush = FALSE /\ panicked = FALSE /\ sink = <<>> /\ accepted = 0
  /\ recovered = FALSE /\ wpc = "idle" /\ call = NoCall

-----------------------------------------------------------------------------
(* Where a call goes on *)

Return(n) == wpc' = "idle" /\ call' = NoCall /\ accepted' = accepted + n

Flushing(c) == wpc' = "drain" /\ call' = [c EXCEPT !.written = 0] /\ UNCHANGED accepted

\* BufWriter::write: what does not fit sends the buffer on first.
WritePart(c, buffered) ==
  /\ wpc' = IF Len(buffered) + Len(c.part) > BufCap THEN "drain" ELSE "put"
  /\ call' = [c EXCEPT !.written = 0] /\ UNCHANGED accepted

\* LineWriter::write, once what was due has been flushed: up to the last newline.
WriteLine(c, buffered) ==
  LET lineEnds == {i \in DOMAIN c.data : c.data[i] \in newlines}
  IN  \/ /\ ~lineWriter \/ lineEnds = {}
         /\ WritePart([c EXCEPT !.stage = "whole", !.part = c.data], buffered)
      \/ /\ lineWriter
         /\ \E last \in lineEnds :
              /\ \A i \in lineEnds : i <= last
              /\ WritePart([c EXCEPT !.stage = "line", !.part = SubSeq(c.data, 1, last)],
                           buffered)

\* BufWriter::write returned Ok(n).  After a line everything is flushed.
Wrote(n) ==
  \/ call.stage \in {"whole", "rest"} /\ Return(call.n + n) /\ UNCHANGED needFlush
  \/ /\ call.stage = "line" /\ needFlush' = TRUE
     /\ Flushing([call EXCEPT !.stage = "after", !.n = n])

\* flush_buf, the inner write or the inner flush returned an error.  What was
\* written of the line has to be reported, so later errors are not.
Failed ==
  /\ needFlush' = (needFlush /\ call.stage # "into")
  /\ recovered' = (recovered \/ (lineWriter /\ call.stage = "into"))
  /\ \/ call.stage \in {"after", "rest"} /\ Return(call.n)
     \/ call.stage \in {"first", "whole", "line", "flush", "into"} /\ Return(0)
     \/ call.stage = "drop" /\ wpc' = "dropped" /\ UNCHANGED <<call, accepted>>

\* flush_buf returned Ok.
Drained ==
  /\ wpc' = CASE call.stage \in {"first", "after", "flush"} -> "sync"
              [] call.stage \in {"whole", "line", "rest"} -> "put"
              [] call.stage = "into" -> "taken"
              [] call.stage = "drop" -> "dropped"
  /\ UNCHANGED <<call, accepted, needFlush, recovered>>

-----------------------------------------------------------------------------
(* The calls of the caller *)

Write(n) ==
  /\ wpc = "idle" /\ accepted + n <= Total
  /\ LET c == [NoCall EXCEPT !.data = Bytes(accepted + 1, accepted + n)]
     IN  \/ needFlush /\ Flushing([c EXCEPT !.stage = "first"])
         \/ ~needFlush /\ WriteLine(c, wbuf)
  /\ UNCHANGED <<setup, wbuf, needFlush, panicked, sink, recovered>>

FlushOrInto(stage) ==
  /\ wpc = "idle" /\ Flushing([NoCall EXCEPT !.stage = stage])
  /\ UNCHANGED <<setup, wbuf, needFlush, panicked, sink, recovered>>

\* Drop: nothing is sent again from a buffer whose writing panicked.  A caller that
\* catches the panic and goes on with the same writer, which may send bytes again, is
\* left out.  Mutant: the buffer is sent.
DropFlushes_Mutant == TRUE
DropFlushes == ~panicked

DropWriter ==
  /\ wpc \in {"idle", "unwound"}
  /\ \/ DropFlushes /\ Flushing([NoCall EXCEPT !.stage = "drop"])
     \/ ~DropFlushes /\ wpc' = "dropped" /\ UNCHANGED <<call, accepted>>
  /\ UNCHANGED <<setup, wbuf, needFlush, panicked, sink, recovered>>

-----------------------------------------------------------------------------
(* The calls of the inner writer *)

\* A panic unwinds with what the inner writer took of the offer not recorded.
Unwinds(offer) ==
  /\ \E n \in 0..Len(offer) : sink' = sink \o SubSeq(offer, 1, n)
  /\ panicked' = TRUE /\ wpc' = "unwound" /\ call' = NoCall
  /\ UNCHANGED <<wbuf, needFlush, accepted, recovered>>

\* flush_buf: one round of its loop, or its end.  A round that was interrupted is
\* taken again; a write of nothing is an error.
FlushBuf ==
  LET rest == SubSeq(wbuf, call.written + 1, Len(wbuf))
  IN  /\ wpc = "drain" /\ UNCHANGED setup
      /\ \/ rest = <<>> /\ wbuf' = <<>> /\ Drained /\ UNCHANGED <<sink, panicked>>
         \/ \E n \in 1..Len(rest) :
              /\ sink' = sink \o SubSeq(rest, 1, n)
              /\ call' = [call EXCEPT !.written = @ + n]
              /\ UNCHANGED <<wbuf, needFlush, panicked, accepted, recovered, wpc>>
         \/ rest # <<>> /\ wbuf' = rest /\ Failed /\ UNCHANGED <<sink, panicked>>
         \/ rest # <<>> /\ Unwinds(rest)

\* BufWriter::write behind its flush: a large part goes to the inner writer, in one
\* call; an interruption is an error like another here.
Put ==
  /\ wpc = "put" /\ UNCHANGED setup
  /\ \/ /\ Len(call.part) < BufCap
        /\ wbuf' = wbuf \o call.part /\ Wrote(Len(call.part))
        /\ UNCHANGED <<sink, panicked, recovered>>
     \/ /\ Len(call.part) >= BufCap
        /\ \/ \E n \in 0..Len(call.part) :
                /\ sink' = sink \o SubSeq(call.part, 1, n) /\ Wrote(n)
                /\ UNCHANGED <<wbuf, panicked, recovered>>
           \/ Failed /\ UNCHANGED <<wbuf, sink, panicked>>
           \/ Unwinds(call.part)

\* The flush of the inner writer, the last part of flush.
Sync ==
  /\ wpc = "sync" /\ UNCHANGED <<setup, wbuf, sink, panicked>>
  /\ \/ Failed
     \/ /\ needFlush' = FALSE /\ UNCHANGED recovered
        /\ \/ call.stage = "first" /\ WriteLine(call, wbuf)
           \/ call.stage = "flush" /\ Return(0)
           \/ /\ call.stage = "after"
              /\ \/ call.n # Len(call.part) /\ Return(call.n)
                 \/ /\ call.n = Len(call.part)
                    /\ WritePart([call EXCEPT !.stage = "rest",
                         !.part = SubSeq(call.data, call.n + 1, Len(call.data))], wbuf)

NextWriter ==
  \/ \E n \in 0..Total : Write(n)
  \/ FlushOrInto("flush") \/ FlushOrInto("into") \/ DropWriter
  \/ FlushBuf \/ Put \/ Sync

SpecWriter == InitWriter /\ [][NextWriter]_writerVars

-----------------------------------------------------------------------------
\* What the calls report is what happened to the bytes: the inner writer gets every
\* byte once and in order, whatever short writes, errors and panics there were;
\* between two calls the bytes that were reported as written are the ones sent on
\* followed by the ones in the buffer, so that an error means that none was taken;
\* into_inner hands the writer over with everything in it.  A LineWriter has a
\* complete line in its buffer only while it remembers to flush before the next
\* write, unless it came back from a failed into_inner.
WriterSound ==
  /\ sink = Bytes(1, Len(sink))
  /\ wpc = "idle" => sink \o wbuf = Bytes(1, accepted)
  /\ wpc = "taken" => Len(sink) = accepted
  /\ wpc = "idle" /\ ~recovered =>
       \A i \in DOMAIN wbuf : wbuf[i] \in newlines => needFlush /\ Last(wbuf) \in newlines
=============================================================================
