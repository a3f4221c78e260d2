---------------------------- MODULE ReplyStream ----------------------------
(***************************************************************************)
(* packages/coding-agent/src/chat/middleware/stream.ts, StreamManager: the *)
(* text of a reply is collected and sent in chunks that end a sentence.    *)
(* A piece of text is a record whose field "stop" tells that it ends a     *)
(* sentence; what leaves the buffer is sent.  doFlush hands its chunk to   *)
(* sendFn before it awaits, so a flush is one step.  Left out: trimming,   *)
(* markdown, the answer of OneBot to a send.                               *)
(***************************************************************************)
EXTENDS Naturals, SequencesExt

NewStream == [buffer |-> <<>>, final |-> FALSE, timer |-> FALSE]

\* the number of pieces up to the last one that ends a sentence
LastSentenceBoundary(text) == Max({0} \cup {i \in DOMAIN text : text[i].stop})

OnDelta(s, piece) ==
  [buffer |-> Append(s.buffer, piece), final |-> s.final, timer |-> TRUE]

\* final: everything; else up to the boundary.  An empty buffer leaves the
\* final flag as it is
DoFlush(s) ==
  IF s.buffer = <<>> THEN s
  ELSE LET k == IF s.final THEN Len(s.buffer) ELSE LastSentenceBoundary(s.buffer)
       IN  [buffer |-> SubSeq(s.buffer, k + 1, Len(s.buffer)), final |-> FALSE,
            timer |-> s.timer]

Flush(s, final) == DoFlush([buffer |-> s.buffer, final |-> final, timer |-> FALSE])

\* mutant: the end of a turn flushes like the timer does
EndsAtBoundary(s) == Flush(s, FALSE)

OnEnd(s) == Flush(s, TRUE)

OnToolCall(s) == IF s.buffer = <<>> THEN s ELSE Flush(s, TRUE)

TimerFires(s) == DoFlush([buffer |-> s.buffer, final |-> s.final, timer |-> FALSE])
============================================================================
