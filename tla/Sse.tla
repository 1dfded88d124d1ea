-------------------------------- MODULE Sse --------------------------------
(***************************************************************************)
(* The Server-Sent Events parser of sse.rs: chunks in, items out, checked  *)
(* against the grammar applied to the whole text at once.                  *)
(*                                                                         *)
(* A byte is a symbol.  "data", "event", "retry" and "comment" stand for a *)
(* field name with its colon, "x" for a digit, "bad" for a byte that is    *)
(* not UTF-8, "BOM" for a byte-order mark; each counts as one byte.  The   *)
(* delay of a retry hint is left out.                                      *)
(***************************************************************************)
EXTENDS Naturals, Sequences, SequencesExt, FiniteSetsExt

CONSTANTS
  Chunks,     \* chunks a body may arrive in
  MaxEvent,   \* max_event_bytes
  NoType,     \* no event field
  MaxChunks   \* bound: chunks of a body

Symbol == {"LF", "CR", "data", "event", "retry", "comment", "x", "bad", "BOM"}

ASSUME SseAssumption ==
  /\ Chunks \subseteq Seq(Symbol) /\ MaxEvent \in Nat \ {0} /\ MaxChunks \in Nat

VARIABLES
  parser,  \* SseParser, and the items it has returned
  text,    \* the bytes it was fed
  chunks,  \* how many chunks they came in
  ended    \* the body has ended

bodyVars == <<parser, text, chunks, ended>>

Event(type, data) == [kind |-> "Event", type |-> type, data |-> data]
OversizedEvent == [kind |-> "Oversized"]
InvalidUtf8 == [kind |-> "InvalidUtf8"]
Retry == [kind |-> "Retry"]

NewParser ==
  [line |-> <<>>, data |-> <<>>, type |-> NoType, oversized |-> FALSE, invalid |-> FALSE,
   swallow |-> FALSE, atStart |-> TRUE, items |-> <<>>]

BodyTypeOK ==
  /\ parser.line \in Seq(Symbol \ {"LF", "CR"}) /\ Len(parser.line) <= MaxEvent
  /\ parser.data \in Seq(Symbol \ {"CR"}) /\ Len(parser.data) <= MaxEvent
  /\ {parser.oversized, parser.invalid, parser.swallow, parser.atStart} \subseteq BOOLEAN
  /\ text \in Seq(Symbol)
  /\ chunks \in 0 .. MaxChunks /\ ended \in BOOLEAN

BodyInit == parser = NewParser /\ text = <<>> /\ chunks = 0 /\ ended = FALSE

-----------------------------------------------------------------------------
(* The parser *)

\* Mutant: the size of an event that was too long is held against the next one.
ResetEventKeepsSize(p) ==
  [p EXCEPT !.data = <<>>, !.type = NoType, !.invalid = FALSE]

ResetEvent(p) ==
  [p EXCEPT !.data = <<>>, !.type = NoType, !.oversized = FALSE, !.invalid = FALSE]

\* A blank line: the event is complete.  One without data is dropped silently.
Dispatch(p) ==
  LET item == IF p.invalid THEN <<InvalidUtf8>>
              ELSE IF p.oversized THEN <<OversizedEvent>>
              ELSE IF p.data # <<>> THEN <<Event(p.type, Front(p.data))>>
              ELSE <<>>
  IN ResetEvent([p EXCEPT !.items = @ \o item])

AddData(p, value) ==
  IF Len(p.data) + Len(value) + 1 > MaxEvent
    THEN [p EXCEPT !.oversized = TRUE, !.data = <<>>]
  ELSE IF p.oversized THEN p
  ELSE [p EXCEPT !.data = @ \o value \o <<"LF">>]

\* The fields, as split at the colon; id and unknown ones are ignored.
Field(p, line) ==
  CASE line[1] = "data"  -> AddData(p, Tail(line))
    [] line[1] = "event" -> [p EXCEPT !.type = Tail(line)]
    [] line[1] = "retry" /\ Len(line) > 1 /\ \A i \in 2 .. Len(line) : line[i] = "x"
                         -> [p EXCEPT !.items = Append(@, Retry)]
    [] OTHER             -> p

EndLine(p) ==
  LET raw == p.line
      line == IF p.atStart /\ raw # <<>> /\ raw[1] = "BOM" THEN Tail(raw) ELSE raw
      q == [p EXCEPT !.line = <<>>, !.atStart = FALSE]
  IN IF "bad" \in ToSet(raw) THEN [q EXCEPT !.invalid = TRUE]
     ELSE IF line = <<>> THEN Dispatch(q)
     ELSE Field(q, line)

\* One byte.  A line feed right after a carriage return belongs to it, in
\* whichever chunk it comes.
Step(p, byte) ==
  CASE byte = "LF" /\ p.swallow -> [p EXCEPT !.swallow = FALSE]
    [] byte = "LF" /\ ~p.swallow -> EndLine(p)
    [] byte = "CR" -> [EndLine(p) EXCEPT !.swallow = TRUE]
    [] OTHER -> IF Len(p.line) < MaxEvent
                  THEN [p EXCEPT !.swallow = FALSE, !.line = Append(@, byte)]
                  ELSE [p EXCEPT !.swallow = FALSE, !.oversized = TRUE]

\* The parser after a chunk.
Fed(p, chunk) ==
  LET after[n \in 0 .. Len(chunk)] == IF n = 0 THEN p ELSE Step(after[n - 1], chunk[n])
  IN  after[Len(chunk)]

Feed(chunk) ==
  /\ ~ended /\ chunks < MaxChunks
  /\ parser' = Fed(parser, chunk)
  /\ text' = text \o chunk
  /\ chunks' = chunks + 1
  /\ UNCHANGED ended

\* The body has ended: an event without its blank line is not dispatched.
EndOfBody ==
  /\ ~ended
  /\ parser' = ResetEvent([parser EXCEPT !.line = <<>>])
  /\ ended' = TRUE
  /\ UNCHANGED <<text, chunks>>

BodyNext == EndOfBody \/ \E chunk \in Chunks : Feed(chunk)

BodySpec == BodyInit /\ [][BodyNext]_bodyVars

-----------------------------------------------------------------------------
(* The grammar, on the whole text *)

\* A line ends with CR LF, LF or CR, at the first byte of these.
Ending == {"LF", "CR"}
EndsLine(t, i) == t[i] \in Ending /\ ~(t[i] = "LF" /\ i > 1 /\ t[i - 1] = "CR")

After(positions) == IF positions = {} THEN 1 ELSE Max(positions) + 1

\* The line under way after n bytes; byte n + 1 may end it.
LineStart(t, n) == After({i \in 1 .. n : t[i] \in Ending})
LineAfter(t, n) == SubSeq(t, LineStart(t, n), n)

\* What the parser may look at: no more of a line than the limit allows, and no
\* byte-order mark before the first.
Kept(line) == IF Len(line) > MaxEvent THEN SubSeq(line, 1, MaxEvent) ELSE line
Unmarked(line) == IF line # <<>> /\ line[1] = "BOM" THEN Tail(line) ELSE line
Content(t, n) ==
  IF LineStart(t, n) = 1 THEN Unmarked(Kept(LineAfter(t, n))) ELSE Kept(LineAfter(t, n))

\* An event is the lines since the last blank one: the positions that end them.
Blank(t, i) == EndsLine(t, i) /\ Content(t, i - 1) = <<>>
Block(t, n) == {i \in After({b \in 1 .. n : Blank(t, b)}) .. n : EndsLine(t, i)}

Named(t, n, field) ==
  {i \in Block(t, n) : Content(t, i - 1) # <<>> /\ Content(t, i - 1)[1] = field}
Value(t, i) == Tail(Content(t, i - 1))

\* The values of its data lines, a line feed after each; the last value of its event lines.
Data(t, n) ==
  FlattenSeq([i \in 1 .. n |->
    IF i \in Named(t, n, "data") THEN Append(Value(t, i), "LF") ELSE <<>>])
Type(t, n) ==
  IF Named(t, n, "event") = {} THEN NoType ELSE Value(t, Max(Named(t, n, "event")))

Damaged(t, n) == \E i \in Block(t, n) : "bad" \in ToSet(Content(t, i - 1))

\* A line of it, or the one under way, or its data.
TooLong(t, n) ==
  \/ \E i \in Block(t, n) \cup {n + 1} : Len(LineAfter(t, i - 1)) > MaxEvent
  \/ Len(Data(t, n)) > MaxEvent

EventAfter(t, n) ==
  IF Damaged(t, n) THEN <<InvalidUtf8>>
  ELSE IF TooLong(t, n) THEN <<OversizedEvent>>
  ELSE IF Data(t, n) = <<>> THEN <<>>
  ELSE <<Event(Type(t, n), Front(Data(t, n)))>>

IsHint(line) == Len(line) > 1 /\ line[1] = "retry" /\ \A i \in 2 .. Len(line) : line[i] = "x"

\* Each line contributes what it completes, in the order of the lines.
ItemAt(t, i) ==
  IF Blank(t, i) THEN EventAfter(t, i - 1)
  ELSE IF EndsLine(t, i) /\ IsHint(Content(t, i - 1)) THEN <<Retry>>
  ELSE <<>>

ItemsOf(t) == FlattenSeq([i \in DOMAIN t |-> ItemAt(t, i)])

\* Whatever chunks a body comes in, the parser has returned exactly the items the
\* grammar finds in it: an event that is too long or not UTF-8 is reported once, in
\* its place, and the events around it are whole.
SseItemsAreTheText == parser.items = ItemsOf(text)

=============================================================================
