--------------------------- MODULE StdioTransport ---------------------------
(***************************************************************************)
(* One stdio upstream below the connection actor: transport.rs with its    *)
(* writer task, framing.rs with its reader, and the two pipes to the child.*)
(*                                                                         *)
(* Outwards, the actor queues frames (send), the writer task writes each   *)
(* one as its text and its newline, and gives up for good when a write     *)
(* fails or stalls.  Inwards, the actor's select! polls a recv that it     *)
(* drops whenever a command is ready first: what the reader keeps in       *)
(* itself (buf) survives that, what it keeps in the dropped call does not. *)
(*                                                                         *)
(* A frame to the child is its number; it holds no newline, because it is  *)
(* framed input or built by the proxy, so send's refusal of one never      *)
(* happens.  What the child says is Output, a sequence of bytes.           *)
(***************************************************************************)
EXTENDS Integers, Sequences, FiniteSets

CONSTANTS
  Newline,        \* the byte '\n'
  Oversized,      \* FrameReadError::Oversized, a Received::Dropped
  Nothing,
  Output,         \* all the child may write to its stdout
  MaxFrame,       \* max_frame, in bytes
  Chunk,          \* READ_CHUNK_BYTES
  OutboundQueue,  \* OUTBOUND_QUEUE
  StdinRoom,      \* parts of frames the child's stdin pipe holds
  StdoutRoom,     \* bytes its stdout pipe holds
  MaxSends        \* bound: frames the actor sends

Frame == 1 .. MaxSends

\* write_frame writes the text of a frame, then its newline.
Parts == Frame \X {"text", "newline"}

ASSUME StdioAssumption ==
  /\ {MaxFrame, Chunk, OutboundQueue, StdinRoom, StdoutRoom, MaxSends} \subseteq Nat \ {0}
  /\ Output \in Seq(Nat \cup {Newline})
  /\ Nothing \notin Parts /\ Newline \notin Nat /\ Oversized \notin Seq(Nat)

VARIABLES
  actor,      \* "select", "sending" (awaits room), "closing" (awaits the writer task),
              \* "reaping" (awaits the child) or "closed"
  sent,       \* frames send has accepted
  outbound,   \* the queue to the writer task
  writerUp,   \* the writer task runs; it owns the child's stdin
  writing,    \* the part it writes next, Nothing between frames
  writeDead,  \* StdioTransport::write_dead
  stdin,      \* parts in the pipe
  childGot,   \* parts the child has read
  child       \* "running" or "exited"

VARIABLES
  reading,    \* "idle" (no recv call), "search" or "discard" (awaits bytes in
              \* read_frame, in discard_until_newline)
  buf,        \* FrameReader::buf
  spoken,     \* bytes of Output the child has written
  heard,      \* bytes of Output the reader has taken from the pipe
  received    \* what recv has returned, and up to which byte the reader was through then

outVars == <<sent, outbound, writerUp, writing, writeDead, stdin, childGot>>
inVars == <<reading, buf, spoken, heard, received>>
stdioVars == <<actor, child, outVars, inVars>>

StdioTypeOK ==
  /\ actor \in {"select", "sending", "closing", "reaping", "closed"}
  /\ child \in {"running", "exited"}
  /\ sent \in 0 .. MaxSends
  /\ outbound \in Seq(Frame)
  /\ writerUp \in BOOLEAN /\ writeDead \in BOOLEAN
  /\ writing \in Parts \cup {Nothing}
  /\ stdin \in Seq(Parts) /\ childGot \in Seq(Parts)
  /\ reading \in {"idle", "search", "discard"}
  /\ buf \in Seq(Nat \cup {Newline})
  /\ spoken \in 0 .. Len(Output) /\ heard \in 0 .. Len(Output)
  /\ received \in Seq([item: Seq(Nat) \cup {Oversized}, upTo: 0 .. Len(Output)])

StdioInit ==
  /\ actor = "select" /\ child = "running"
  /\ sent = 0 /\ outbound = <<>>
  /\ writerUp = TRUE /\ writing = Nothing /\ writeDead = FALSE
  /\ stdin = <<>> /\ childGot = <<>>
  /\ reading = "idle" /\ buf = <<>> /\ spoken = 0 /\ heard = 0 /\ received = <<>>

-----------------------------------------------------------------------------
(* The actor sends *)

\* A command that is ready first: the call of recv in progress is dropped, and
\* the handler may send a frame.
StdioCommand ==
  /\ actor = "select"
  /\ reading' = "idle"
  /\ \/ sent < MaxSends /\ actor' = "sending"
     \/ UNCHANGED actor
  /\ UNCHANGED <<child, outVars, buf, spoken, heard, received>>

Enqueue ==
  /\ actor = "sending" /\ writerUp /\ Len(outbound) < OutboundQueue
  /\ sent' = sent + 1
  /\ outbound' = Append(outbound, sent + 1)
  /\ actor' = "select"
  /\ UNCHANGED <<child, writerUp, writing, writeDead, stdin, childGot, inVars>>

\* WriteStalled or a closed pipe: either ends the actor's loop.
SendFails ==
  /\ actor = "sending" /\ ~writerUp
  /\ actor' = "closing"
  /\ UNCHANGED <<child, outVars, inVars>>

-----------------------------------------------------------------------------
(* The writer task *)

WriterTakes ==
  /\ writerUp /\ writing = Nothing /\ outbound # <<>>
  /\ writing' = <<Head(outbound), "text">>
  /\ outbound' = Tail(outbound)
  /\ UNCHANGED <<actor, child, sent, writerUp, writeDead, stdin, childGot, inVars>>

WritePart ==
  /\ writing # Nothing /\ child = "running" /\ Len(stdin) < StdinRoom
  /\ stdin' = Append(stdin, writing)
  /\ writing' = IF writing[2] = "text" THEN <<writing[1], "newline">> ELSE Nothing
  /\ UNCHANGED <<actor, child, sent, outbound, writerUp, writeDead, childGot, inVars>>

\* The task returns: the queue is dropped with it, and the child's stdin closes.
WriterEnds(dead) ==
  /\ writerUp' = FALSE /\ writing' = Nothing /\ outbound' = <<>>
  /\ writeDead' = (writeDead \/ dead)
  /\ UNCHANGED <<sent, stdin, childGot, inVars>>

\* Mutant: a stalled write is given up, and the task goes on with the next frame.
GiveUpFrameOnly ==
  /\ writing # Nothing
  /\ writing' = Nothing /\ writeDead' = TRUE
  /\ UNCHANGED <<actor, child, sent, outbound, writerUp, stdin, childGot, inVars>>

\* The write failed (the child is gone), or WRITE_STALL_TIMEOUT is over.
GiveUp ==
  /\ writing # Nothing
  /\ WriterEnds(TRUE)
  /\ UNCHANGED <<actor, child>>

\* The sender was dropped by close and the queue is empty.
WriterDrained ==
  /\ writerUp /\ writing = Nothing /\ outbound = <<>>
  /\ actor \in {"closing", "reaping", "closed"}
  /\ WriterEnds(FALSE)
  /\ UNCHANGED <<actor, child>>

-----------------------------------------------------------------------------
(* The actor receives *)

HasNewline(text) == \E i \in DOMAIN text : text[i] = Newline
FirstNewline(text) ==
  CHOOSE i \in DOMAIN text : text[i] = Newline /\ \A j \in 1 .. i - 1 : text[j] # Newline

\* The bytes the reader is through with: all it took but what waits in buf.
Passed == heard - Len(buf)

\* recv returns; the handler of a frame may send one (the answer to a ping).
Return(item) ==
  /\ reading' = "idle"
  /\ received' = Append(received, [item |-> item, upTo |-> Passed'])
  /\ \/ UNCHANGED actor
     \/ item # Oversized /\ sent < MaxSends /\ actor' = "sending"

\* One turn of the loop in read_frame.
Search(text) ==
  \/ LET nl == FirstNewline(text)
         line == SubSeq(text, 1, nl - 1)
     IN /\ HasNewline(text)
        /\ buf' = SubSeq(text, nl + 1, Len(text))
        /\ Return(IF Len(line) > MaxFrame THEN Oversized ELSE line)
  \/ /\ ~HasNewline(text) /\ Len(text) > MaxFrame
     /\ buf' = <<>> /\ reading' = "discard"
     /\ UNCHANGED <<actor, received>>
  \/ /\ ~HasNewline(text) /\ Len(text) <= MaxFrame
     /\ buf' = text /\ reading' = "search"
     /\ UNCHANGED <<actor, received>>

\* Mutant: the rest of the chunk is dropped with the over-long line.
DiscardChunk(chunk) ==
  IF HasNewline(chunk)
    THEN buf' = <<>> /\ Return(Oversized)
    ELSE buf' = <<>> /\ UNCHANGED <<actor, reading, received>>

\* One turn of the loop in discard_until_newline.
Discard(chunk) ==
  IF HasNewline(chunk)
    THEN buf' = SubSeq(chunk, FirstNewline(chunk) + 1, Len(chunk)) /\ Return(Oversized)
    ELSE buf' = <<>> /\ UNCHANGED <<actor, reading, received>>

\* select! polls a new call of recv.
Poll ==
  /\ actor = "select" /\ reading = "idle"
  /\ UNCHANGED <<child, outVars, spoken, heard>>
  /\ Search(buf)

Read(n) ==
  LET chunk == SubSeq(Output, heard + 1, heard + n)
  IN /\ actor = "select" /\ reading # "idle"
     /\ n <= spoken - heard
     /\ heard' = heard + n
     /\ IF reading = "search" THEN Search(buf \o chunk) ELSE Discard(chunk)
     /\ UNCHANGED <<child, outVars, spoken>>

\* The end of the stream: an unterminated last line is a frame, then recv
\* returns None and the actor's loop ends.
EndOfStream ==
  /\ actor = "select" /\ reading # "idle"
  /\ child = "exited" /\ heard = spoken
  /\ UNCHANGED <<child, outVars, spoken, heard>>
  /\ buf' = <<>>
  /\ \/ reading = "discard" /\ Return(Oversized)
     \/ reading = "search" /\ buf # <<>> /\ Return(buf)
     \/ /\ reading = "search" /\ buf = <<>>
        /\ reading' = "idle" /\ actor' = "closing"
        /\ UNCHANGED received

ReadFails ==
  /\ actor = "select" /\ reading # "idle"
  /\ reading' = "idle" /\ actor' = "closing"
  /\ UNCHANGED <<child, outVars, buf, spoken, heard, received>>

-----------------------------------------------------------------------------
(* Closing *)

StdioShutdown ==
  /\ actor = "select"
  /\ reading' = "idle" /\ actor' = "closing"
  /\ UNCHANGED <<child, outVars, buf, spoken, heard, received>>

WriterJoined ==
  /\ actor = "closing" /\ ~writerUp
  /\ actor' = "reaping"
  /\ UNCHANGED <<child, outVars, inVars>>

\* CHILD_EXIT_GRACE is over and the writer task still drains.
AbortWriter ==
  /\ actor = "closing" /\ writerUp
  /\ WriterEnds(FALSE)
  /\ actor' = "reaping"
  /\ UNCHANGED child

\* Mutant: the child is waited for without a deadline.
ReapWaits ==
  /\ actor = "reaping" /\ child = "exited"
  /\ actor' = "closed"
  /\ UNCHANGED <<child, outVars, inVars>>

\* The child has exited, or is killed after CHILD_EXIT_GRACE.
Reap ==
  /\ actor = "reaping"
  /\ child' = "exited"
  /\ actor' = "closed"
  /\ UNCHANGED <<outVars, inVars>>

-----------------------------------------------------------------------------
(* The child: any program *)

ChildReads ==
  /\ child = "running" /\ stdin # <<>>
  /\ childGot' = Append(childGot, Head(stdin))
  /\ stdin' = Tail(stdin)
  /\ UNCHANGED <<actor, child, sent, outbound, writerUp, writing, writeDead, inVars>>

ChildWrites ==
  /\ child = "running" /\ spoken < Len(Output) /\ spoken - heard < StdoutRoom
  /\ spoken' = spoken + 1
  /\ UNCHANGED <<actor, child, outVars, reading, buf, heard, received>>

ChildExits ==
  /\ child = "running"
  /\ child' = "exited"
  /\ UNCHANGED <<actor, outVars, inVars>>

-----------------------------------------------------------------------------

Writer == WriterTakes \/ WritePart \/ GiveUp \/ WriterDrained
Sending == Enqueue \/ SendFails
Receiving == Poll \/ EndOfStream \/ ReadFails \/ \E n \in 1 .. Chunk : Read(n)
Closing == WriterJoined \/ AbortWriter \/ Reap
Child == ChildReads \/ ChildWrites \/ ChildExits

StdioNext == StdioCommand \/ StdioShutdown \/ Sending \/ Writer \/ Receiving \/ Closing \/ Child

StdioSpec == StdioInit /\ [][StdioNext]_stdioVars

\* The runtime runs the writer task and the actor, and their deadlines pass.
\* Nothing is assumed of the child.
StdioFairness == WF_stdioVars(Writer) /\ WF_stdioVars(Sending) /\ WF_stdioVars(Closing)

FairStdioSpec == StdioSpec /\ StdioFairness

-----------------------------------------------------------------------------
(* Properties *)

\* The part that follows another in the stream of all frames.
Follows(earlier, later) ==
  \/ earlier[2] = "text" /\ later = <<earlier[1], "newline">>
  \/ earlier[2] = "newline" /\ later = <<earlier[1] + 1, "text">>

Written == childGot \o stdin

\* What the child can read is the beginning of the frames send accepted, in order
\* and without a gap: after a write that was cut off nothing is written.
StdinIsWhatWasSent ==
  /\ Written # <<>> => Written[1] = <<1, "text">>
  /\ \A i \in 1 .. Len(Written) - 1 : Follows(Written[i], Written[i + 1])
  /\ \A i \in DOMAIN Written : Written[i][1] <= sent

\* Bytes of Output without a newline, from the beginning of a line on: those between
\* the positions from and to.
Span == [from: 0 .. Len(Output), to: 1 .. Len(Output) + 1]

Begins(l) ==
  /\ l.from < l.to
  /\ l.from = 0 \/ Output[l.from] = Newline
  /\ \A i \in l.from + 1 .. l.to - 1 : Output[i] # Newline

Lines == {l \in Span : Begins(l) /\ l.to \in DOMAIN Output /\ Output[l.to] = Newline}

Short(l) == l.to - l.from - 1 <= MaxFrame

\* What may come in of a line: all of it; of one beyond the limit the error, or its end
\* behind more bytes than the limit, when a command came while the reader dropped it.
Yields(l, item) ==
  IF Short(l) THEN item = SubSeq(Output, l.from + 1, l.to - 1)
  ELSE \/ item = Oversized
       \/ \E i \in l.from + MaxFrame + 1 .. l.to - 1 : item = SubSeq(Output, i + 1, l.to - 1)

\* The last thing received, from a child that ended in the middle of a line.
CutOff(k) ==
  /\ k = Len(received) /\ received[k].upTo = spoken
  /\ child = "exited" /\ heard = spoken
  /\ \E l \in Span : /\ Begins(l) /\ l.to = spoken + 1 /\ l.from < spoken
                    /\ Yields(l, received[k].item)

\* Every line gives one thing received, in order, and a line within the limit comes in
\* whole - however the chunks fall, whatever lines beyond the limit come between, and
\* wherever a command interrupts the reader.  Nothing else is received but a last line
\* without its end.
ShortLinesArrive ==
  /\ \A l \in Lines : l.to <= Passed => \E k \in DOMAIN received : received[k].upTo = l.to
  /\ \A j, k \in DOMAIN received : j < k => received[j].upTo < received[k].upTo
  /\ \A k \in DOMAIN received :
       \/ \E l \in Lines : received[k].upTo = l.to /\ Yields(l, received[k].item)
       \/ CutOff(k)

\* FrameReadError::Oversized: "The reader has already discarded the rest of the
\* oversized line, so the stream is re-synchronized".  No piece of a line beyond
\* the limit is handed on as a frame.
Resynchronized ==
  \A k \in DOMAIN received :
    received[k].item # Oversized /\ ~CutOff(k) =>
      \E l \in Lines : received[k].upTo = l.to /\ Short(l)

\* A child that never reads, writes or exits holds up neither a send nor a close,
\* and no child outlives the close of its transport.
StdioNeverHangs ==
  /\ actor = "sending" ~> actor # "sending"
  /\ actor \in {"closing", "reaping"} ~> actor = "closed" /\ child = "exited" /\ ~writerUp

=============================================================================
