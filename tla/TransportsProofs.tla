---------------------------- MODULE TransportsProofs ----------------------------
(***************************************************************************)
(* What the child of a stdio upstream can read and what its actor returns  *)
(* of what the child wrote, for queues, pipes and buffers of every size,   *)
(* any number of frames and any output; of an HTTP upstream, what its      *)
(* POSTs owe and in which order they go out, for any requests, sessions    *)
(* and responses and a channel of every size; and of the SSE parser, that  *)
(* it returns what the grammar finds in any body, in any chunks, and never *)
(* keeps more than its limit.                                              *)
(***************************************************************************)
EXTENDS Transports, SequenceTheorems, WellFoundedInduction, TLAPS

-----------------------------------------------------------------------------
(* Induction *)

\* Induction, for a set: what the library states of any relation, said of <.
LEMMA LeastOf ==
  ASSUME NEW S, S \subseteq Nat, S # {}
  PROVE  \E x \in S : \A y \in S : x <= y
<1>1. IsWellFoundedOn(OpToRel(<, Nat), Nat)
  BY NatLessThanWellFounded
<1>2. PICK x \in S : \A y \in S : ~ (<<y, x>> \in OpToRel(<, Nat))
  BY <1>1, WFMin
<1>3. ASSUME NEW y \in S, y < x
      PROVE  FALSE
  <2>1. x \in Nat /\ y \in Nat
    BY <1>2
  <2>2. <<y, x>> \in OpToRel(<, Nat)
    BY <1>3, <2>1 DEF OpToRel
  <2>. QED
    BY <1>2, <2>2
<1>4. x \in Nat /\ S \subseteq Nat
  BY <1>2
<1>. QED
  BY <1>3, <1>4

\* Induction up to a bound, for a set.
LEMMA Induct ==
  ASSUME NEW N \in Nat, NEW S, 0 \in S, \A n \in Nat : n < N /\ n \in S => n + 1 \in S
  PROVE  0 .. N \subseteq S
<1>. DEFINE Missing == (0 .. N) \ S
<1>. SUFFICES ASSUME Missing # {} PROVE FALSE
  OBVIOUS
<1>1. Missing \subseteq Nat
  OBVIOUS
<1>2. PICK x \in Missing : \A y \in Missing : x <= y
  <2>. HIDE DEF Missing
  <2>. QED
    BY <1>1, LeastOf
<1>3. x \in Nat /\ x # 0 /\ x <= N /\ x \notin S
  OBVIOUS
<1>4. x - 1 \in Nat /\ x - 1 < N /\ (x - 1) + 1 = x /\ x - 1 < x
  BY <1>3
<1>5. x - 1 \in S
  BY <1>2, <1>4
<1>. QED
  BY <1>3, <1>4, <1>5

-----------------------------------------------------------------------------
(* Stdio: the writer *)

\* The number of the frame the writer took last; 0 when it has taken none.
LastTaken ==
  IF writing # Nothing THEN writing[1]
  ELSE IF Written = <<>> THEN 0
  ELSE Written[Len(Written)][1]

\* Parts that follow each other, from the first on.
Gapless(parts) ==
  /\ parts # <<>> => parts[1] = <<1, "text">>
  /\ \A i \in 1 .. Len(parts) - 1 : Follows(parts[i], parts[i + 1])

StdinTypes ==
  /\ sent \in 0 .. MaxSends
  /\ actor = "sending" => sent < MaxSends
  /\ outbound \in Seq(Frame) /\ writing \in Parts \cup {Nothing}
  /\ stdin \in Seq(Parts) /\ childGot \in Seq(Parts)

\* The part in the writer's hand goes on where the pipe ends, between frames the pipe ends
\* with a whole one, and the queue holds the frames after it up to the last one sent.  A
\* writer that has returned holds nothing.
StdinInv ==
  /\ StdinTypes
  /\ Gapless(Written)
  /\ \A i \in DOMAIN Written : Written[i][1] <= sent
  /\ writing # Nothing =>
       /\ writerUp
       /\ IF Written = <<>> THEN writing = <<1, "text">> ELSE Follows(Written[Len(Written)], writing)
  /\ writerUp =>
       /\ writing = Nothing /\ Written # <<>> => Written[Len(Written)][2] = "newline"
       /\ \A i \in DOMAIN outbound : outbound[i] = LastTaken + i
       /\ LastTaken + Len(outbound) = sent

-----------------------------------------------------------------------------
(* Stdio: the moves that matter *)

Idles == UNCHANGED <<sent, outbound, writerUp, writing, Written>>
Queues ==
  /\ sent' = sent + 1 /\ outbound' = Append(outbound, sent + 1)
  /\ writerUp /\ UNCHANGED <<writerUp, writing, Written>>
Takes ==
  /\ writerUp /\ writing = Nothing /\ outbound # <<>>
  /\ writing' = <<Head(outbound), "text">> /\ outbound' = Tail(outbound)
  /\ UNCHANGED <<sent, writerUp, Written>>
Writes ==
  /\ writing # Nothing /\ Written' = Append(Written, writing)
  /\ writing' = IF writing[2] = "text" THEN <<writing[1], "newline">> ELSE Nothing
  /\ UNCHANGED <<sent, outbound, writerUp>>
Quits ==
  /\ ~writerUp' /\ writing' = Nothing /\ outbound' = <<>>
  /\ UNCHANGED <<sent, Written>>

\* Whatever the actor receives, it only begins to send when it may.
LEMMA ReceivingMove ==
  ASSUME Receiving
  PROVE  UNCHANGED outVars /\ (actor' = "sending" => actor = "sending" \/ sent < MaxSends)
<1>1. \A item : Return(item) => (actor' = "sending" => actor = "sending" \/ sent < MaxSends)
  BY DEF Return
<1>2. \A bytes : Search(bytes) => (actor' = "sending" => actor = "sending" \/ sent < MaxSends)
  BY <1>1 DEF Search
<1>3. \A chunk : Discard(chunk) => (actor' = "sending" => actor = "sending" \/ sent < MaxSends)
  BY <1>1 DEF Discard
<1>4. CASE Poll
  BY <1>2, <1>4 DEF Poll
<1>5. CASE EndOfStream
  BY <1>1, <1>5 DEF EndOfStream
<1>6. CASE ReadFails
  BY <1>6 DEF ReadFails, outVars
<1>7. ASSUME NEW n \in 1 .. Chunk, Read(n)
      PROVE  UNCHANGED outVars /\ (actor' = "sending" => actor = "sending" \/ sent < MaxSends)
  BY <1>2, <1>3, <1>7 DEF Read
<1>. QED
  BY <1>4, <1>5, <1>6, <1>7 DEF Receiving

\* What the child takes out of the pipe, it has.
LEMMA ReadingMovesParts ==
  ASSUME NEW got \in Seq(Parts), NEW pipe \in Seq(Parts), pipe # <<>>
  PROVE  Append(got, Head(pipe)) \o Tail(pipe) = got \o pipe
  OBVIOUS

LEMMA WritingAppends ==
  ASSUME NEW got \in Seq(Parts), NEW pipe \in Seq(Parts), NEW part \in Parts
  PROVE  got \o Append(pipe, part) = Append(got \o pipe, part)
  OBVIOUS

\* Every step keeps the types, and does one of the five things.
LEMMA WhichMove ==
  ASSUME StdinInv, [StdioNext]_stdioVars
  PROVE  StdinTypes' /\ (Idles \/ Queues \/ Takes \/ Writes \/ Quits)
<1>. USE DEF StdinInv, StdinTypes
<1>. USE StdioAssumption DEF StdioAssumption
<1>1. CASE UNCHANGED stdioVars
  BY <1>1 DEF stdioVars, outVars, Idles, Written
<1>2. CASE StdioCommand
  BY <1>2 DEF StdioCommand, outVars, Idles, Written
<1>3. CASE StdioShutdown
  BY <1>3 DEF StdioShutdown, outVars, Idles, Written
<1>4. CASE Enqueue
  <2>1. sent + 1 \in Frame
    BY <1>4 DEF Enqueue, Frame
  <2>. QED
    BY <1>4, <2>1 DEF Enqueue, Queues, Written
<1>5. CASE SendFails
  BY <1>5 DEF SendFails, outVars, Idles, Written
<1>6. CASE WriterTakes
  <2>1. Head(outbound) \in Frame /\ Tail(outbound) \in Seq(Frame)
    BY <1>6 DEF WriterTakes
  <2>2. <<Head(outbound), "text">> \in Parts
    BY <2>1 DEF Parts
  <2>. QED
    BY <1>6, <2>1, <2>2 DEF WriterTakes, Takes, Written
<1>7. CASE WritePart
  <2>1. writing \in Parts /\ <<writing[1], "newline">> \in Parts
    BY <1>7 DEF WritePart, Parts
  <2>2. Append(stdin, writing) \in Seq(Parts)
    BY <2>1
  <2>3. Written' = Append(Written, writing)
    BY <1>7, <2>1, WritingAppends DEF WritePart, Written
  <2>. QED
    BY <1>7, <2>1, <2>2, <2>3 DEF WritePart, Writes
<1>8. CASE GiveUp \/ WriterDrained \/ AbortWriter
  <2>1. /\ ~writerUp' /\ writing' = Nothing /\ outbound' = <<>>
        /\ UNCHANGED <<sent, stdin, childGot>> /\ (actor' = "sending" => actor = "sending")
    BY <1>8 DEF GiveUp, WriterDrained, AbortWriter, WriterEnds
  <2>. QED
    BY <2>1 DEF Quits, Written
<1>9. CASE Receiving
  BY <1>9, ReceivingMove DEF outVars, Idles, Written
<1>10. CASE WriterJoined \/ Reap
  BY <1>10 DEF WriterJoined, Reap, outVars, Idles, Written
<1>11. CASE ChildReads
  <2>1. Head(stdin) \in Parts /\ Tail(stdin) \in Seq(Parts)
    BY <1>11 DEF ChildReads
  <2>2. Written' = Written
    BY <1>11, ReadingMovesParts DEF ChildReads, Written
  <2>. QED
    BY <1>11, <2>1, <2>2 DEF ChildReads, Idles
<1>12. CASE ChildWrites \/ ChildExits
  BY <1>12 DEF ChildWrites, ChildExits, outVars, Idles, Written
<1>. QED
  BY <1>1, <1>2, <1>3, <1>4, <1>5, <1>6, <1>7, <1>8, <1>9, <1>10, <1>11, <1>12
     DEF StdioNext, Sending, Writer, Closing, Child

-----------------------------------------------------------------------------
(* Stdio: the invariant *)

LEMMA AppendedIsGapless ==
  ASSUME NEW parts \in Seq(Parts), Gapless(parts), NEW part \in Parts,
         IF parts = <<>> THEN part = <<1, "text">> ELSE Follows(parts[Len(parts)], part)
  PROVE  Gapless(Append(parts, part))
<1>. DEFINE longer == Append(parts, part)
<1>1. /\ longer \in Seq(Parts) /\ Len(longer) = Len(parts) + 1 /\ longer[Len(parts) + 1] = part
      /\ \A i \in 1 .. Len(parts) : longer[i] = parts[i]
  OBVIOUS
<1>. HIDE DEF longer
<1>2. longer[1] = <<1, "text">>
  BY <1>1 DEF Gapless
<1>3. ASSUME NEW i \in 1 .. Len(longer) - 1
      PROVE  Follows(longer[i], longer[i + 1])
  <2>1. CASE i = Len(parts)
    <3>1. parts # <<>>
      BY <2>1
    <3>. QED
      BY <1>1, <2>1, <3>1
  <2>2. CASE i < Len(parts)
    <3>1. i \in 1 .. Len(parts) - 1 /\ i + 1 \in 1 .. Len(parts)
      BY <1>1, <2>2
    <3>. QED
      BY <1>1, <3>1 DEF Gapless
  <2>. QED
    BY <1>1, <2>1, <2>2
<1>. QED
  BY <1>2, <1>3 DEF Gapless, longer

LEMMA WrittenType ==
  ASSUME StdinTypes
  PROVE  Written \in Seq(Parts) /\ LastTaken \in Nat
<1>1. Written \in Seq(Parts)
  BY DEF StdinTypes, Written
<1>2. \A part \in Parts : part[1] \in Nat
  BY DEF Parts, Frame
<1>3. Written # <<>> => Written[Len(Written)] \in Parts
  BY <1>1
<1>. QED
  BY <1>1, <1>2, <1>3 DEF LastTaken, StdinTypes

LEMMA StdinInvKept ==
  ASSUME StdinInv, [StdioNext]_stdioVars
  PROVE  StdinInv'
<1>1. StdinTypes' /\ (Idles \/ Queues \/ Takes \/ Writes \/ Quits)
  BY WhichMove
<1>2. StdinTypes /\ Written \in Seq(Parts) /\ LastTaken \in Nat
  BY WrittenType DEF StdinInv
<1>3. CASE Idles
  BY <1>1, <1>3 DEF Idles, StdinInv, LastTaken
<1>4. CASE Queues
  <2>1. LastTaken' = LastTaken
    BY <1>4 DEF Queues, LastTaken
  <2>2. outbound \in Seq(Frame) /\ sent \in Nat /\ sent' = sent + 1
    BY <1>2, <1>4 DEF StdinTypes, Queues
  <2>3. Len(outbound') = Len(outbound) + 1 /\ outbound'[Len(outbound) + 1] = sent + 1
        /\ \A i \in DOMAIN outbound : outbound'[i] = outbound[i]
        /\ DOMAIN outbound = 1 .. Len(outbound) /\ DOMAIN outbound' = 1 .. Len(outbound) + 1
    BY <2>2, <1>4 DEF Queues
  <2>4. /\ \A i \in DOMAIN outbound' : outbound'[i] = LastTaken + i
        /\ LastTaken + Len(outbound') = sent'
    BY <1>2, <1>4, <2>2, <2>3 DEF StdinInv, Queues
  <2>5. \A i \in DOMAIN Written : Written[i][1] <= sent + 1
    <3>1. \A i \in DOMAIN Written : Written[i][1] \in Nat /\ Written[i][1] <= sent
      BY <1>2 DEF StdinInv, Parts, Frame
    <3>. QED
      BY <2>2, <3>1
  <2>. QED
    BY <1>1, <1>4, <2>1, <2>2, <2>4, <2>5 DEF Queues, StdinInv
<1>5. CASE Takes
  <2>1. /\ outbound \in Seq(Frame) /\ Len(outbound) > 0 /\ Head(outbound) = outbound[1]
        /\ Len(outbound') = Len(outbound) - 1
        /\ \A i \in 1 .. Len(outbound) - 1 : outbound'[i] = outbound[i + 1]
        /\ DOMAIN outbound = 1 .. Len(outbound) /\ DOMAIN outbound' = 1 .. Len(outbound) - 1
    BY <1>2, <1>5 DEF Takes, StdinTypes
  <2>2. outbound[1] = LastTaken + 1
    BY <1>2, <1>5, <2>1 DEF StdinInv, Takes
  <2>3. writing' = <<LastTaken + 1, "text">> /\ writing' # Nothing /\ LastTaken' = LastTaken + 1
    <3>1. writing' \in Parts
      BY <1>5, <2>1 DEF Takes, Parts
    <3>. QED
      BY <1>5, <2>1, <2>2, <3>1, StdioAssumption DEF Takes, LastTaken, StdioAssumption
  <2>4. /\ \A i \in DOMAIN outbound' : outbound'[i] = LastTaken' + i
        /\ LastTaken' + Len(outbound') = sent
    <3>1. Len(outbound) \in Nat /\ LastTaken \in Nat /\ sent' = sent
      BY <1>2, <1>5 DEF Takes, StdinTypes
    <3>2. /\ \A i \in 1 .. Len(outbound) : outbound[i] = LastTaken + i
          /\ LastTaken + Len(outbound) = sent
      BY <1>5, <2>1 DEF StdinInv, Takes
    <3>3. \A i \in 1 .. Len(outbound) - 1 :
            i + 1 \in 1 .. Len(outbound) /\ outbound'[i] = outbound[i + 1]
      BY <2>1, <3>1
    <3>4. ASSUME NEW i \in 1 .. Len(outbound) - 1
          PROVE  outbound'[i] = LastTaken + 1 + i
      <4>1. outbound'[i] = LastTaken + (i + 1)
        BY <3>2, <3>3
      <4>. QED
        BY <3>1, <4>1
    <3>. QED
      BY <2>1, <2>3, <3>1, <3>2, <3>4
  <2>5. IF Written = <<>> THEN writing' = <<1, "text">> ELSE Follows(Written[Len(Written)], writing')
    <3>1. Written = <<>> => LastTaken = 0
      BY <1>5 DEF Takes, LastTaken
    <3>2. Written # <<>> => Written[Len(Written)][2] = "newline" /\ LastTaken = Written[Len(Written)][1]
      BY <1>5 DEF Takes, LastTaken, StdinInv
    <3>. QED
      BY <2>3, <3>1, <3>2 DEF Follows
  <2>. QED
    BY <1>1, <1>5, <2>3, <2>4, <2>5 DEF Takes, StdinInv
<1>6. CASE Writes
  <2>1. writing \in Parts /\ writerUp
    BY <1>2, <1>6 DEF Writes, StdinTypes, StdinInv
  <2>2. Gapless(Written')
    BY <1>2, <1>6, <2>1, AppendedIsGapless DEF Writes, StdinInv
  <2>3. /\ Written' \in Seq(Parts) /\ Written' # <<>> /\ Len(Written') = Len(Written) + 1
        /\ Written'[Len(Written')] = writing /\ DOMAIN Written' = 1 .. Len(Written) + 1
        /\ \A i \in 1 .. Len(Written) : Written'[i] = Written[i]
    BY <1>2, <1>6, <2>1 DEF Writes
  <2>4. LastTaken = writing[1] /\ LastTaken' = LastTaken
    <3>1. LastTaken = writing[1]
      BY <1>6 DEF Writes, LastTaken
    <3>2. CASE writing' = Nothing
      BY <2>3, <3>1, <3>2 DEF LastTaken
    <3>3. CASE writing' # Nothing
      BY <1>6, <3>1, <3>3 DEF Writes, LastTaken
    <3>. QED
      BY <3>1, <3>2, <3>3
  <2>5. \A i \in DOMAIN Written' : Written'[i][1] <= sent
    <3>1. writing[1] <= sent
      BY <1>2, <2>1, <2>4 DEF StdinInv, StdinTypes
    <3>. QED
      BY <1>2, <2>3, <3>1 DEF StdinInv
  <2>6. writing' # Nothing => Follows(writing, writing')
    BY <1>6, <2>1 DEF Writes, Follows, Parts
  <2>7. writing' = Nothing => writing[2] = "newline"
    <3>1. <<writing[1], "newline">> \in Parts
      BY <2>1 DEF Parts
    <3>. QED
      BY <1>6, <2>1, <3>1, StdioAssumption DEF Writes, Parts, StdioAssumption
  <2>. QED
    BY <1>1, <1>6, <2>1, <2>2, <2>3, <2>4, <2>5, <2>6, <2>7 DEF Writes, StdinInv
<1>7. CASE Quits
  BY <1>1, <1>7 DEF Quits, StdinInv
<1>. QED
  BY <1>1, <1>3, <1>4, <1>5, <1>6, <1>7

LEMMA StdinInvInit == StdioInit \/ NoStdio => StdinInv
<1>. SUFFICES ASSUME StdioInit \/ NoStdio PROVE StdinInv
  OBVIOUS
<1>1. /\ sent = 0 /\ actor # "sending" /\ writing = Nothing
      /\ outbound = <<>> /\ stdin = <<>> /\ childGot = <<>>
  BY DEF StdioInit, NoStdio
<1>2. StdinTypes
  BY <1>1, StdioAssumption DEF StdinTypes, StdioAssumption
<1>3. Written = <<>> /\ Len(Written) = 0 /\ DOMAIN Written = {} /\ LastTaken = 0
  BY <1>1 DEF Written, LastTaken
<1>4. Len(outbound) = 0 /\ DOMAIN outbound = {}
  BY <1>1
<1>. QED
  BY <1>1, <1>2, <1>3, <1>4 DEF StdinInv, Gapless

\* The child can read the frames send accepted, in order, and of the last one perhaps a part:
\* a write that was cut off is the last.
THEOREM ChildReadsWhatWasSent == StdioSpec => []StdinIsWhatWasSent
<1>1. StdioInit => StdinInv
  BY StdinInvInit
<1>2. StdinInv /\ [StdioNext]_stdioVars => StdinInv'
  BY StdinInvKept
<1>3. StdinInv => StdinIsWhatWasSent
  BY DEF StdinInv, Gapless, StdinIsWhatWasSent
<1>. QED
  BY <1>1, <1>2, <1>3, PTL DEF StdioSpec

-----------------------------------------------------------------------------
(* Stdio: the reader *)

Byte == Nat \cup {Newline}

LEMMA FirstNewlineIs ==
  ASSUME NEW bytes \in Seq(Byte), HasNewline(bytes)
  PROVE  /\ FirstNewline(bytes) \in 1 .. Len(bytes) /\ bytes[FirstNewline(bytes)] = Newline
         /\ \A i \in 1 .. FirstNewline(bytes) - 1 : bytes[i] # Newline
<1>. DEFINE S == {i \in 1 .. Len(bytes) : bytes[i] = Newline}
<1>1. S \subseteq Nat /\ S # {}
  BY DEF HasNewline
<1>2. PICK i \in S : \A j \in S : i <= j
  <2>. HIDE DEF S
  <2>. QED
    BY <1>1, LeastOf
<1>3. \A j \in 1 .. i - 1 : bytes[j] # Newline
  <2>. SUFFICES ASSUME NEW j \in 1 .. i - 1, bytes[j] = Newline PROVE FALSE
    OBVIOUS
  <2>1. j \in S
    OBVIOUS
  <2>. QED
    BY <1>2, <2>1
<1>. QED
  BY <1>3 DEF FirstNewline

\* From the beginning of a line up to the last byte the reader is through with.
InLine(from) ==
  /\ from \in 0 .. Passed
  /\ from = 0 \/ Output[from] = Newline
  /\ \A i \in from + 1 .. Passed : Output[i] # Newline

ReaderTypes ==
  /\ reading \in {"idle", "search", "discard"} /\ child \in {"running", "exited"}
  /\ spoken \in 0 .. Len(Output) /\ heard \in 0 .. spoken
  /\ buf \in Seq(Byte) /\ Len(buf) <= heard
  /\ received \in Seq([item: Seq(Nat) \cup {Oversized}, upTo: 0 .. Len(Output)])

\* The last line came in without its end: the reader has nothing more to read.
CutShort(from) ==
  /\ buf = <<>> /\ reading # "discard" /\ received # <<>> /\ CutOff(Len(received))
  /\ \A k \in 1 .. Len(received) - 1 : received[k].upTo <= from

\* The reader is at the beginning of a line, or beyond the limit inside of one.
Along(from) ==
  /\ from = Passed \/ Passed - from > MaxFrame
  /\ reading = "discard" => from # Passed
  /\ \A k \in DOMAIN received : received[k].upTo <= from

\* What waits in buf goes on where the reader is, without a newline once it has searched
\* it; every line before has come in, in order.
ReaderInv ==
  /\ ReaderTypes
  /\ \A i \in DOMAIN buf : buf[i] = Output[Passed + i]
  /\ reading = "search" => ~HasNewline(buf) /\ Len(buf) <= MaxFrame
  /\ reading = "discard" => buf = <<>>
  /\ \E from \in 0 .. Passed : InLine(from) /\ (Along(from) \/ CutShort(from))
  /\ ShortLinesArrive

\* The moves of the reader.
Rests ==
  /\ UNCHANGED <<buf, heard, received>> /\ reading' \in {reading, "idle"}
  /\ spoken' \in spoken .. Len(Output) /\ child' \in {child, "exited"}
  /\ child = "exited" => spoken' = spoken

\* The bytes up to e are looked at; e is heard'.
Looks ==
  /\ UNCHANGED <<spoken, child>> /\ heard' \in heard .. spoken

Waits ==
  /\ Looks /\ reading # "discard" /\ reading' = "search" /\ UNCHANGED received
  /\ \A i \in Passed + 1 .. heard' : Output[i] # Newline
  /\ heard' - Passed <= MaxFrame
  /\ buf' \in Seq(Byte) /\ Len(buf') = heard' - Passed
  /\ \A i \in 1 .. Len(buf') : buf'[i] = Output[Passed + i]

Drops ==
  /\ Looks /\ reading' = "discard" /\ UNCHANGED received
  /\ \A i \in Passed + 1 .. heard' : Output[i] # Newline
  /\ buf' = <<>>
  /\ reading = "discard" \/ heard' - Passed > MaxFrame

\* The bytes in front of a newline, and those of Output from the reader on.
Before(bytes, nl) == SubSeq(bytes, 1, nl - 1)
Since(j) == SubSeq(Output, Passed + 1, j - 1)

Gets(item, upTo) == received' = Append(received, [item |-> item, upTo |-> upTo])

\* A newline is found at j: the line so far, or the error, is returned.
Finds(j) ==
  /\ Looks /\ reading' = "idle"
  /\ j > Passed /\ j <= heard' /\ Output[j] = Newline
  /\ \A i \in Passed + 1 .. j - 1 : Output[i] # Newline
  /\ buf' \in Seq(Byte) /\ Len(buf') = heard' - j
  /\ \A i \in 1 .. Len(buf') : buf'[i] = Output[j + i]
  /\ Gets(IF reading = "discard" \/ j - Passed - 1 > MaxFrame THEN Oversized
          ELSE Since(j), j)

\* The stream ends in the middle of a line.
Stops ==
  /\ UNCHANGED <<spoken, child, heard>> /\ child = "exited" /\ heard = spoken
  /\ reading # "idle" /\ reading' = "idle"
  /\ buf' = <<>>
  /\ reading = "search" => buf # <<>>
  /\ Gets(IF reading = "discard" THEN Oversized ELSE Since(heard + 1), heard)

\* The bytes from the first the reader has not passed up to e.
Ahead(bytes, e) ==
  /\ bytes \in Seq(Byte) /\ Len(bytes) = e - Passed
  /\ \A i \in 1 .. Len(bytes) : bytes[i] = Output[Passed + i]

LEMMA OutputType == Output \in Seq(Byte) /\ Len(Output) \in Nat /\ DOMAIN Output = 1 .. Len(Output)
  BY StdioAssumption DEF StdioAssumption, Byte

\* What SubSeq takes out of a sequence of bytes.
LEMMA Piece ==
  ASSUME NEW bytes \in Seq(Byte), NEW from \in Nat, NEW to \in Nat, from <= to, to <= Len(bytes)
  PROVE  /\ SubSeq(bytes, from + 1, to) \in Seq(Byte) /\ Len(SubSeq(bytes, from + 1, to)) = to - from
         /\ \A i \in 1 .. to - from : SubSeq(bytes, from + 1, to)[i] = bytes[from + i]
<1>. DEFINE m == from + 1  piece == SubSeq(bytes, m, to)
<1>1. m \in Int /\ to \in Int /\ \A i \in m .. to : bytes[i] \in Byte
  BY Len(bytes) \in Nat
<1>. HIDE DEF m
<1>2. /\ piece \in Seq(Byte) /\ Len(piece) = IF m <= to THEN to - m + 1 ELSE 0
      /\ \A i \in 1 .. to - m + 1 : piece[i] = bytes[m + i - 1]
  BY <1>1, SubSeqProperties
<1>. HIDE DEF piece
<1>3. to - m + 1 = to - from /\ (m <= to \/ to - from = 0) /\ \A i \in 1 .. to - from : m + i - 1 = from + i
  BY DEF m
<1>4. Len(piece) = to - from
  BY <1>2, <1>3, <1>1
<1>5. \A i \in 1 .. to - from : piece[i] = bytes[from + i]
  BY <1>2, <1>3
<1>. QED
  BY <1>2, <1>4, <1>5 DEF piece, m

LEMMA JoinedBytes ==
  ASSUME NEW b \in Seq(Byte), NEW c \in Seq(Byte)
  PROVE  /\ b \o c \in Seq(Byte) /\ Len(b \o c) = Len(b) + Len(c)
         /\ \A i \in 1 .. Len(b) : (b \o c)[i] = b[i]
         /\ \A i \in Len(b) + 1 .. Len(b) + Len(c) : (b \o c)[i] = c[i - Len(b)]
<1>1. /\ b \o c \in Seq(Byte) /\ Len(b \o c) = Len(b) + Len(c)
      /\ \A i \in 1 .. Len(b) + Len(c) : (b \o c)[i] = IF i <= Len(b) THEN b[i] ELSE c[i - Len(b)]
  BY ConcatProperties
<1>2. Len(b) \in Nat /\ Len(c) \in Nat
  OBVIOUS
<1>. DEFINE all == b \o c
<1>. HIDE DEF all
<1>3. \A i \in 1 .. Len(b) + Len(c) : all[i] = IF i <= Len(b) THEN b[i] ELSE c[i - Len(b)]
  BY <1>1 DEF all
<1>4. \A i \in 1 .. Len(b) : all[i] = b[i]
  BY <1>2, <1>3
<1>5. \A i \in Len(b) + 1 .. Len(b) + Len(c) : all[i] = c[i - Len(b)]
  BY <1>2, <1>3
<1>. QED
  BY <1>1, <1>4, <1>5 DEF all

LEMMA AheadOfReader ==
  ASSUME ReaderInv, NEW n \in Nat, n <= spoken - heard
  PROVE  /\ Ahead(buf, heard)
         /\ Ahead(buf \o SubSeq(Output, heard + 1, heard + n), heard + n)
         /\ buf = <<>> => Ahead(SubSeq(Output, heard + 1, heard + n), heard + n)
<1>. DEFINE chunk == SubSeq(Output, heard + 1, heard + n)  all == buf \o chunk
<1>1. /\ heard \in Nat /\ heard + n \in Nat /\ heard <= heard + n /\ heard + n <= Len(Output)
      /\ buf \in Seq(Byte) /\ Len(buf) \in Nat /\ heard - Len(buf) \in Nat
  BY OutputType DEF ReaderInv, ReaderTypes
<1>2. chunk \in Seq(Byte) /\ Len(chunk) = n /\ \A i \in 1 .. n : chunk[i] = Output[heard + i]
  <2>1. chunk \in Seq(Byte) /\ Len(chunk) = heard + n - heard
        /\ \A i \in 1 .. heard + n - heard : chunk[i] = Output[heard + i]
    BY <1>1, Piece, OutputType
  <2>2. heard + n - heard = n
    BY <1>1
  <2>. QED
    BY <2>1, <2>2
<1>. HIDE DEF chunk
<1>3. /\ all \in Seq(Byte) /\ Len(all) = Len(buf) + n
      /\ \A i \in 1 .. Len(buf) : all[i] = buf[i]
      /\ \A i \in Len(buf) + 1 .. Len(buf) + n : all[i] = chunk[i - Len(buf)]
  BY <1>1, <1>2, JoinedBytes
<1>. HIDE DEF all
<1>4. /\ Passed = heard - Len(buf) /\ DOMAIN buf = 1 .. Len(buf)
      /\ \A i \in 1 .. Len(buf) : buf[i] = Output[Passed + i]
  BY <1>1 DEF ReaderInv, Passed
<1>5. ASSUME NEW i \in 1 .. Len(buf) + n
      PROVE  all[i] = Output[Passed + i]
  <2>1. CASE i <= Len(buf)
    BY <1>1, <1>3, <1>4, <2>1
  <2>2. CASE i > Len(buf)
    <3>1. i - Len(buf) \in 1 .. n /\ heard + (i - Len(buf)) = Passed + i /\ i \in Len(buf) + 1 .. Len(buf) + n
      BY <1>1, <1>4, <2>2
    <3>. QED
      BY <1>2, <1>3, <3>1
  <2>. QED
    BY <1>1, <2>1, <2>2
<1>6. Len(buf) + n = heard + n - Passed /\ Len(buf) = heard - Passed
  BY <1>1, <1>4
<1>7. Ahead(all, heard + n)
  <2>1. Len(all) = (heard + n) - Passed
    BY <1>1, <1>3, <1>4
  <2>2. \A i \in 1 .. Len(all) : all[i] = Output[Passed + i]
    BY <1>3, <1>5
  <2>. QED
    BY <1>3, <2>1, <2>2 DEF Ahead
<1>8. Ahead(buf, heard)
  BY <1>1, <1>4, <1>6 DEF Ahead
<1>9. ASSUME buf = <<>> PROVE Ahead(chunk, heard + n)
  <2>1. Len(buf) = 0
    BY <1>9
  <2>2. Passed = heard /\ n = heard + n - Passed
    BY <1>1, <1>4, <2>1
  <2>. QED
    BY <1>1, <1>2, <2>2 DEF Ahead
<1>. QED
  BY <1>7, <1>8, <1>9 DEF all, chunk

\* What is ahead of the reader is found in Output: up to the first newline, from there on.
LEMMA AheadIsOutput ==
  ASSUME ReaderTypes, NEW e \in heard .. spoken, NEW bytes, Ahead(bytes, e)
  PROVE  /\ Passed \in Nat /\ Passed <= e /\ e <= Len(Output) /\ bytes \in Seq(Byte)
         /\ Len(bytes) \in Nat /\ Len(bytes) = e - Passed /\ DOMAIN bytes = 1 .. Len(bytes)
         /\ \A i \in Passed + 1 .. e : i - Passed \in 1 .. Len(bytes) /\ Output[i] = bytes[i - Passed]
<1>1. /\ Passed \in Nat /\ e \in Nat /\ Passed <= e /\ e <= Len(Output)
  BY OutputType DEF ReaderTypes, Passed
<1>2. bytes \in Seq(Byte) /\ Len(bytes) \in Nat /\ Len(bytes) = e - Passed /\ DOMAIN bytes = 1 .. Len(bytes)
  BY DEF Ahead
<1>3. ASSUME NEW i \in Passed + 1 .. e
      PROVE  i - Passed \in 1 .. Len(bytes) /\ Output[i] = bytes[i - Passed]
  <2>1. i - Passed \in 1 .. Len(bytes) /\ Passed + (i - Passed) = i
    BY <1>1, <1>2
  <2>. QED
    BY <2>1 DEF Ahead
<1>. QED
  BY <1>1, <1>2, <1>3

\* Counting on behind the first n of l.
LEMMA CountOn ==
  ASSUME NEW p \in Nat, NEW n \in Nat, NEW l \in Nat
  PROVE  \A i \in 1 .. l - n : n + i \in 1 .. l /\ p + (n + i) = (p + n) + i
  OBVIOUS

\* The line and the rest that a newline found in what is ahead leaves.
LEMMA FoundNewline ==
  ASSUME ReaderTypes, NEW e \in heard .. spoken, NEW bytes, Ahead(bytes, e), HasNewline(bytes),
         NEW nl, nl = FirstNewline(bytes), NEW j, j = Passed + nl
  PROVE  /\ nl \in Nat /\ nl > 0 /\ nl <= Len(bytes) /\ j > Passed /\ j <= e /\ Output[j] = Newline
         /\ \A i \in Passed + 1 .. j - 1 : Output[i] # Newline
         /\ SubSeq(bytes, nl + 1, Len(bytes)) \in Seq(Byte)
         /\ Len(SubSeq(bytes, nl + 1, Len(bytes))) = e - j
         /\ \A i \in 1 .. e - j : SubSeq(bytes, nl + 1, Len(bytes))[i] = Output[j + i]
<1>1. /\ Passed \in Nat /\ e \in Nat /\ Passed <= e /\ e <= Len(Output) /\ bytes \in Seq(Byte)
      /\ Len(bytes) \in Nat /\ Len(bytes) = e - Passed
      /\ \A i \in 1 .. Len(bytes) : bytes[i] = Output[Passed + i]
  BY AheadIsOutput DEF Ahead
<1>2. nl \in 1 .. Len(bytes) /\ bytes[nl] = Newline /\ \A i \in 1 .. nl - 1 : bytes[i] # Newline
  BY <1>1, FirstNewlineIs
<1>3. j \in Nat /\ j > Passed /\ j <= e /\ Len(bytes) - nl = e - j /\ nl - 1 = j - 1 - Passed
  <2>1. Passed \in Nat /\ e \in Nat /\ nl \in Nat /\ nl > 0 /\ nl <= e - Passed /\ Len(bytes) = e - Passed
    BY <1>1, <1>2, SMTT(30)
  <2>2. j \in Nat /\ j > Passed
    BY <2>1
  <2>3. j <= e
    BY <2>1
  <2>4. Len(bytes) - nl = e - j
    BY <2>1
  <2>5. nl - 1 = j - 1 - Passed
    BY <2>1
  <2>. QED
    BY <2>2, <2>3, <2>4, <2>5
<1>0. /\ Passed \in Nat /\ e \in Nat /\ nl \in Nat /\ j \in Nat /\ Len(bytes) \in Nat /\ Len(Output) \in Nat
      /\ nl > 0 /\ nl <= Len(bytes) /\ j = Passed + nl /\ Len(bytes) = e - Passed /\ e <= Len(Output) /\ j <= e
  <2>1. /\ Passed \in Nat /\ Len(bytes) \in Nat /\ Len(bytes) = e - Passed /\ e \in Nat /\ e <= Len(Output)
    BY <1>1
  <2>2. nl \in Nat /\ nl > 0 /\ nl <= Len(bytes)
    BY <1>2, <2>1
  <2>. QED
    BY <1>3, <2>1, <2>2, OutputType
<1>4. Output[j] = Newline
  BY <1>1, <1>2
<1>5. ASSUME NEW i \in Passed + 1 .. j - 1
      PROVE  Output[i] # Newline
  <2>1. i - Passed \in 1 .. nl - 1 /\ i - Passed \in 1 .. Len(bytes) /\ Passed + (i - Passed) = i
    BY <1>0
  <2>. QED
    BY <1>1, <1>2, <2>1
<1>7. /\ SubSeq(bytes, nl + 1, Len(bytes)) \in Seq(Byte) /\ Len(SubSeq(bytes, nl + 1, Len(bytes))) = e - j
      /\ \A i \in 1 .. e - j : SubSeq(bytes, nl + 1, Len(bytes))[i] = Output[j + i]
  <2>. DEFINE rest == SubSeq(bytes, nl + 1, Len(bytes))
  <2>1. bytes \in Seq(Byte) /\ nl \in Nat /\ Len(bytes) \in Nat /\ nl <= Len(bytes) /\ Len(bytes) <= Len(bytes)
    BY <1>0, <1>1
  <2>2. rest \in Seq(Byte) /\ Len(rest) = e - j /\ \A i \in 1 .. e - j : rest[i] = bytes[nl + i]
    <3>1. rest \in Seq(Byte) /\ Len(rest) = Len(bytes) - nl /\ \A i \in 1 .. Len(bytes) - nl : rest[i] = bytes[nl + i]
      BY <2>1, Piece
    <3>. QED
      BY <1>3, <3>1
  <2>. HIDE DEF rest
  <2>4. \A i \in 1 .. e - j : nl + i \in 1 .. Len(bytes) /\ Passed + (nl + i) = j + i
    <3>1. \A i \in 1 .. Len(bytes) - nl : nl + i \in 1 .. Len(bytes) /\ Passed + (nl + i) = (Passed + nl) + i
      BY <1>0, CountOn, SMTT(30)
    <3>. QED
      BY <1>3, <3>1
  <2>3. ASSUME NEW i \in 1 .. e - j
        PROVE  rest[i] = Output[j + i]
    <3>1. nl + i \in 1 .. Len(bytes) /\ Passed + (nl + i) = j + i
      BY <2>4
    <3>2. \A k \in 1 .. Len(bytes) : bytes[k] = Output[Passed + k]
      BY <1>1
    <3>3. bytes[nl + i] = Output[Passed + (nl + i)]
      BY <3>1, <3>2
    <3>4. bytes[nl + i] = Output[j + i]
      BY <3>1, <3>3
    <3>. QED
      BY <2>2, <3>4
  <2>. QED
    BY <2>2, <2>3 DEF rest
<1>. QED
  BY <1>0, <1>3, <1>4, <1>5, <1>7

LEMMA FoundLine ==
  ASSUME ReaderTypes, NEW e \in heard .. spoken, NEW bytes, Ahead(bytes, e),
         NEW nl \in Nat, nl > 0, nl <= Len(bytes), NEW j, j = Passed + nl
  PROVE  Before(bytes, nl) = Since(j) /\ Len(Before(bytes, nl)) = j - Passed - 1
<1>. DEFINE line == Before(bytes, nl)  out == Since(j)
<1>1. /\ Passed \in Nat /\ e \in Nat /\ Passed <= e /\ e <= Len(Output) /\ bytes \in Seq(Byte)
      /\ Len(bytes) \in Nat /\ Len(bytes) = e - Passed
      /\ \A i \in 1 .. Len(bytes) : bytes[i] = Output[Passed + i]
  <2>1. /\ Passed \in Nat /\ Passed <= e /\ e <= Len(Output) /\ bytes \in Seq(Byte)
        /\ Len(bytes) \in Nat /\ Len(bytes) = e - Passed
    BY AheadIsOutput
  <2>2. \A i \in 1 .. Len(bytes) : bytes[i] = Output[Passed + i]
    BY DEF Ahead
  <2>3. e \in Nat
    BY DEF ReaderTypes
  <2>. QED
    BY <2>1, <2>2, <2>3
<1>0. /\ Passed \in Nat /\ e \in Nat /\ nl \in Nat /\ j \in Nat /\ Len(bytes) \in Nat /\ Len(Output) \in Nat
      /\ nl > 0 /\ nl <= Len(bytes) /\ j = Passed + nl /\ Len(bytes) = e - Passed /\ e <= Len(Output) /\ j <= e
  BY <1>1, OutputType
<1>6. line = out /\ Len(line) = nl - 1
  <2>. USE DEF Before, Since
  <2>1. nl - 1 \in Nat /\ 0 <= nl - 1 /\ nl - 1 <= Len(bytes) /\ (nl - 1) - 0 = nl - 1
        /\ 0 + 1 = 1 /\ \A i \in 1 .. nl - 1 : 0 + i = i
    BY <1>0
  <2>2. line \in Seq(Byte) /\ Len(line) = nl - 1 /\ \A i \in 1 .. nl - 1 : line[i] = bytes[i]
    <3>. DEFINE start == 0 + 1  piece == SubSeq(bytes, start, nl - 1)
    <3>1. piece \in Seq(Byte) /\ Len(piece) = (nl - 1) - 0
          /\ \A i \in 1 .. (nl - 1) - 0 : piece[i] = bytes[0 + i]
      BY <1>1, <2>1, Piece
    <3>2. piece = line
      <4>1. start = 1
        OBVIOUS
      <4>. HIDE DEF start
      <4>. QED
        BY <4>1
    <3>. HIDE DEF piece
    <3>. QED
      BY <2>1, <3>1, <3>2
  <2>3. j - 1 \in Nat /\ Passed <= j - 1 /\ j - 1 <= Len(Output) /\ (j - 1) - Passed = nl - 1
    BY <1>0
  <2>4. out \in Seq(Byte) /\ Len(out) = nl - 1 /\ \A i \in 1 .. nl - 1 : out[i] = Output[Passed + i]
    <3>1. out \in Seq(Byte) /\ Len(out) = (j - 1) - Passed /\ \A i \in 1 .. (j - 1) - Passed : out[i] = Output[Passed + i]
      BY <1>0, <2>3, Piece, OutputType
    <3>. QED
      BY <2>3, <3>1
  <2>. HIDE DEF line, out
  <2>5. \A i \in 1 .. nl - 1 : line[i] = out[i]
    <3>1. \A i \in 1 .. nl - 1 : i \in 1 .. Len(bytes)
      BY <1>0
    <3>. QED
      BY <1>1, <2>2, <2>4, <3>1
  <2>. QED
    BY <2>2, <2>4, <2>5, SeqEqual
<1>8. nl - 1 = (j - Passed) - 1
  BY <1>0
<1>. QED
  BY <1>6, <1>8

LEMMA ReturnAt ==
  ASSUME ReaderTypes, NEW e \in heard .. spoken, heard' = e, NEW j \in Nat, j <= e,
         Len(buf') = e - j, NEW item, Return(item)
  PROVE  Gets(item, j) /\ reading' = "idle"
<1>1. e \in Nat
  BY OutputType DEF ReaderTypes
<1>2. Passed' = j
  BY <1>1 DEF Passed
<1>. QED
  BY <1>2 DEF Return, Gets

LEMMA SearchMoves ==
  ASSUME ReaderInv, NEW e \in heard .. spoken, heard' = e, UNCHANGED <<spoken, child>>,
         NEW bytes, Ahead(bytes, e), reading # "discard", Search(bytes)
  PROVE  Waits \/ Drops \/ \E j \in Nat : Finds(j)
<1>0. ReaderTypes
  BY DEF ReaderInv
<1>1. /\ Passed \in Nat /\ e \in Nat /\ Passed <= e /\ bytes \in Seq(Byte) /\ Len(bytes) \in Nat /\ Len(bytes) = e - Passed
      /\ DOMAIN bytes = 1 .. Len(bytes)
  <2>1. Passed \in Nat /\ Passed <= e /\ bytes \in Seq(Byte) /\ Len(bytes) \in Nat /\ Len(bytes) = e - Passed
        /\ DOMAIN bytes = 1 .. Len(bytes)
    BY <1>0, AheadIsOutput
  <2>. QED
    BY <1>0, <2>1 DEF ReaderTypes
<1>2. Looks
  BY DEF Looks
<1>3. CASE HasNewline(bytes)
  <2>. DEFINE nl == FirstNewline(bytes)  j == Passed + nl  line == Before(bytes, nl)
  <2>1. /\ nl \in Nat /\ nl > 0 /\ nl <= Len(bytes) /\ j > Passed /\ j <= e /\ Output[j] = Newline
        /\ \A i \in Passed + 1 .. j - 1 : Output[i] # Newline
        /\ SubSeq(bytes, nl + 1, Len(bytes)) \in Seq(Byte)
        /\ Len(SubSeq(bytes, nl + 1, Len(bytes))) = e - j
        /\ \A i \in 1 .. e - j : SubSeq(bytes, nl + 1, Len(bytes))[i] = Output[j + i]
    BY <1>0, <1>3, FoundNewline
  <2>7. line = Since(j) /\ Len(line) = j - Passed - 1
    BY <1>0, <2>1, FoundLine
  <2>2. j \in Nat
    BY <1>1, <2>1
  <2>3. buf' = SubSeq(bytes, nl + 1, Len(bytes)) /\ Return(IF Len(line) > MaxFrame THEN Oversized ELSE line)
    BY <1>3 DEF Search, Before
  <2>. HIDE DEF nl, line, j
  <2>4. buf' \in Seq(Byte) /\ Len(buf') = e - j /\ \A i \in 1 .. e - j : buf'[i] = Output[j + i]
    BY <2>1, <2>3
  <2>5. Gets(IF Len(line) > MaxFrame THEN Oversized ELSE line, j) /\ reading' = "idle"
    BY <1>0, <2>1, <2>2, <2>3, <2>4, ReturnAt
  <2>6. Gets(IF reading = "discard" \/ j - Passed - 1 > MaxFrame THEN Oversized ELSE Since(j), j)
    BY <2>5, <2>7
  <2>. QED
    BY <1>2, <2>1, <2>2, <2>4, <2>5, <2>6 DEF Finds
<1>4. CASE ~HasNewline(bytes)
  <2>1. \A i \in Passed + 1 .. e : Output[i] # Newline
    BY <1>0, <1>4, AheadIsOutput, SMTT(30) DEF HasNewline
  <2>2. CASE Len(bytes) > MaxFrame
    <3>1. buf' = <<>> /\ reading' = "discard" /\ UNCHANGED received
      BY <1>4, <2>2, StdioAssumption DEF Search, StdioAssumption
    <3>. QED
      BY <1>1, <1>2, <2>1, <2>2, <3>1 DEF Drops
  <2>3. CASE ~ (Len(bytes) > MaxFrame)
    <3>1. buf' = bytes /\ reading' = "search" /\ UNCHANGED received
      BY <1>4, <2>3 DEF Search
    <3>2. e - Passed <= MaxFrame
      BY <1>1, <2>3, StdioAssumption DEF StdioAssumption
    <3>. QED
      BY <1>1, <1>2, <2>1, <3>1, <3>2 DEF Waits, Ahead
  <2>. QED
    BY <2>2, <2>3
<1>. QED
  BY <1>3, <1>4

LEMMA DiscardMoves ==
  ASSUME ReaderInv, NEW e \in heard .. spoken, heard' = e, UNCHANGED <<spoken, child>>,
         NEW bytes, Ahead(bytes, e), reading = "discard", Discard(bytes)
  PROVE  Drops \/ \E j \in Nat : Finds(j)
<1>. USE DEF ReaderInv
<1>1. Passed \in Nat /\ Len(bytes) \in Nat /\ bytes \in Seq(Byte) /\ DOMAIN bytes = 1 .. Len(bytes)
  BY AheadIsOutput
<1>2. Looks
  BY DEF Looks
<1>3. CASE HasNewline(bytes)
  <2>. DEFINE nl == FirstNewline(bytes)  j == Passed + nl
  <2>1. /\ nl \in Nat /\ nl > 0 /\ nl <= Len(bytes) /\ j > Passed /\ j <= e /\ Output[j] = Newline
        /\ \A i \in Passed + 1 .. j - 1 : Output[i] # Newline
        /\ SubSeq(bytes, nl + 1, Len(bytes)) \in Seq(Byte)
        /\ Len(SubSeq(bytes, nl + 1, Len(bytes))) = e - j
        /\ \A i \in 1 .. e - j : SubSeq(bytes, nl + 1, Len(bytes))[i] = Output[j + i]
    BY <1>3, FoundNewline
  <2>2. j \in Nat
    BY <1>1, <2>1
  <2>3. buf' = SubSeq(bytes, nl + 1, Len(bytes)) /\ Return(Oversized)
    BY <1>3 DEF Discard
  <2>. HIDE DEF nl, j
  <2>4. buf' \in Seq(Byte) /\ Len(buf') = e - j /\ \A i \in 1 .. e - j : buf'[i] = Output[j + i]
    BY <2>1, <2>3
  <2>5. Gets(Oversized, j) /\ reading' = "idle"
    BY <2>1, <2>2, <2>3, <2>4, ReturnAt
  <2>. QED
    BY <1>2, <2>1, <2>2, <2>4, <2>5 DEF Finds
<1>4. CASE ~HasNewline(bytes)
  <2>1. \A i \in Passed + 1 .. e : Output[i] # Newline
    BY <1>4, AheadIsOutput DEF HasNewline
  <2>2. buf' = <<>> /\ reading' = "discard" /\ UNCHANGED received
    BY <1>4 DEF Discard
  <2>. QED
    BY <1>2, <2>1, <2>2 DEF Drops
<1>. QED
  BY <1>3, <1>4

\* What an open line that the stream ends in holds.
LEMMA EndMoves ==
  ASSUME ReaderInv, EndOfStream
  PROVE  Stops \/ Rests
<1>. USE DEF ReaderInv
<1>1. /\ heard \in Nat /\ heard - 0 = heard /\ buf' = <<>> /\ Len(buf') = heard - heard /\ heard \in heard .. spoken /\ heard <= heard
      /\ UNCHANGED <<spoken, child, heard>> /\ child = "exited" /\ heard = spoken /\ reading \in {"search", "discard"}
  BY DEF EndOfStream, ReaderTypes
<1>2. CASE reading = "discard"
  <2>1. Return(Oversized)
    BY <1>2 DEF EndOfStream
  <2>2. Gets(Oversized, heard) /\ reading' = "idle"
    BY <1>1, <2>1, ReturnAt
  <2>. QED
    BY <1>1, <1>2, <2>2 DEF Stops
<1>3. CASE reading = "search" /\ buf # <<>>
  <2>1. Return(buf)
    BY <1>3 DEF EndOfStream
  <2>2. Gets(buf, heard) /\ reading' = "idle"
    BY <1>1, <2>1, ReturnAt
  <2>3. buf = Since(heard + 1)
    <3>1. Ahead(buf, heard)
      BY <1>1, AheadOfReader
    <3>2. /\ Passed \in Nat /\ Passed <= heard /\ heard <= Len(Output) /\ buf \in Seq(Byte)
          /\ Len(buf) = heard - Passed /\ \A i \in 1 .. Len(buf) : buf[i] = Output[Passed + i]
      BY <1>1, <3>1, AheadIsOutput DEF Ahead
    <3>. DEFINE piece == SubSeq(Output, Passed + 1, heard)
    <3>3. /\ piece \in Seq(Byte) /\ Len(piece) = heard - Passed
          /\ \A i \in 1 .. heard - Passed : piece[i] = Output[Passed + i]
      BY <1>1, <3>2, Piece, OutputType, SMTT(30)
    <3>. HIDE DEF piece
    <3>4. Len(buf) = Len(piece) /\ \A i \in 1 .. Len(buf) : buf[i] = piece[i]
      BY <3>2, <3>3
    <3>5. buf = piece
      BY <3>2, <3>3, <3>4, SeqEqual
    <3>6. Since(heard + 1) = piece
      <4>. DEFINE last == (heard + 1) - 1
      <4>1. last = heard
        BY <1>1
      <4>2. Since(heard + 1) = SubSeq(Output, Passed + 1, last)
        BY DEF Since
      <4>. HIDE DEF last
      <4>. QED
        BY <4>1, <4>2 DEF piece
    <3>. QED
      BY <3>5, <3>6
  <2>. QED
    BY <1>1, <1>3, <2>2, <2>3 DEF Stops
<1>4. CASE reading = "search" /\ buf = <<>>
  BY <1>1, <1>4, OutputType DEF EndOfStream, Rests, ReaderTypes
<1>. QED
  BY <1>1, <1>2, <1>3, <1>4

LEMMA WhichReaderMove ==
  ASSUME ReaderInv, [StdioNext]_stdioVars
  PROVE  Rests \/ Waits \/ Drops \/ Stops \/ \E j \in Nat : Finds(j)
<1>0. ReaderTypes /\ heard \in heard .. spoken /\ spoken \in spoken .. Len(Output)
  BY OutputType DEF ReaderInv, ReaderTypes
<1>. USE DEF ReaderTypes, Rests
<1>1. CASE UNCHANGED stdioVars
  BY <1>0, <1>1 DEF stdioVars, inVars
<1>2. CASE StdioCommand \/ StdioShutdown
  BY <1>0, <1>2 DEF StdioCommand, StdioShutdown
<1>3. CASE Sending
  BY <1>0, <1>3 DEF Sending, Enqueue, SendFails, inVars
<1>4. CASE Writer \/ AbortWriter
  BY <1>0, <1>4 DEF Writer, WriterTakes, WritePart, GiveUp, WriterDrained, AbortWriter, WriterEnds, inVars
<1>5. CASE WriterJoined \/ Reap
  BY <1>0, <1>5 DEF WriterJoined, Reap, inVars
<1>6. CASE Child
  <2>1. CASE ChildReads \/ ChildExits
    BY <1>0, <2>1 DEF ChildReads, ChildExits, inVars
  <2>2. CASE ChildWrites
    BY <1>0, <2>2, OutputType DEF ChildWrites
  <2>. QED
    BY <1>6, <2>1, <2>2 DEF Child
<1>7. CASE Poll
  <2>1. Ahead(buf, heard)
    BY <1>0, AheadOfReader, SMTT(30)
  <2>2. heard' = heard /\ UNCHANGED <<spoken, child>> /\ reading # "discard" /\ Search(buf)
    BY <1>7 DEF Poll
  <2>. QED
    BY <1>0, <2>1, <2>2, SearchMoves
<1>8. CASE EndOfStream
  BY <1>8, EndMoves
<1>9. CASE ReadFails
  BY <1>0, <1>9 DEF ReadFails
<1>10. ASSUME NEW n \in 1 .. Chunk, Read(n)
       PROVE  Waits \/ Drops \/ \E j \in Nat : Finds(j)
  <2>. DEFINE chunk == SubSeq(Output, heard + 1, heard + n)
  <2>1. n \in Nat /\ n <= spoken - heard
    BY <1>10, StdioAssumption DEF Read, StdioAssumption
  <2>2. heard' = heard + n /\ UNCHANGED <<spoken, child>> /\ reading # "idle"
        /\ IF reading = "search" THEN Search(buf \o chunk) ELSE Discard(chunk)
    BY <1>10 DEF Read
  <2>3. heard + n \in heard .. spoken
    BY <1>0, <2>1
  <2>4. Ahead(buf \o chunk, heard + n) /\ (buf = <<>> => Ahead(chunk, heard + n))
    BY <2>1, AheadOfReader
  <2>. HIDE DEF chunk
  <2>5. CASE reading = "search"
    BY <2>2, <2>3, <2>4, <2>5, SearchMoves
  <2>6. CASE reading = "discard"
    BY <2>2, <2>3, <2>4, <2>6, DiscardMoves DEF ReaderInv
  <2>. QED
    BY <1>0, <2>2, <2>5, <2>6
<1>. QED
  BY <1>1, <1>2, <1>3, <1>4, <1>5, <1>6, <1>7, <1>8, <1>9, <1>10
     DEF StdioNext, Receiving, Closing

-----------------------------------------------------------------------------
(* Stdio: every move keeps what the reader owes *)

LEMMA LineTypes ==
  ASSUME NEW l \in Lines
  PROVE  l.from \in Nat /\ l.to \in Nat /\ l.from < l.to /\ l.to <= Len(Output) /\ Output[l.to] = Newline
  BY OutputType DEF Lines, Begins, Span

LEMMA ReceivedTypes ==
  ASSUME ReaderTypes
  PROVE  /\ Len(received) \in Nat /\ DOMAIN received = 1 .. Len(received)
         /\ \A k \in DOMAIN received : received[k].upTo \in Nat
         /\ Passed \in Nat /\ heard \in Nat /\ spoken \in Nat /\ Passed <= heard /\ heard <= spoken
         /\ Len(buf) \in Nat
<1>1. Len(received) \in Nat /\ DOMAIN received = 1 .. Len(received)
      /\ \A k \in DOMAIN received : received[k].upTo \in Nat
  <2>. DEFINE R == [item: Seq(Nat) \cup {Oversized}, upTo: 0 .. Len(Output)]
  <2>1. received \in Seq(R) /\ \A r \in R : r.upTo \in Nat
    BY OutputType DEF ReaderTypes
  <2>. HIDE DEF R
  <2>2. Len(received) \in Nat /\ DOMAIN received = 1 .. Len(received) /\ \A k \in DOMAIN received : received[k] \in R
    BY <2>1
  <2>. QED
    BY <2>1, <2>2
<1>2. heard \in Nat /\ spoken \in Nat /\ heard <= spoken /\ Len(buf) \in Nat /\ Len(buf) <= heard
  BY OutputType DEF ReaderTypes
<1>3. Passed \in Nat /\ Passed <= heard
  BY <1>2 DEF Passed
<1>. QED
  BY <1>1, <1>2, <1>3

LEMMA RestsKeeps == ReaderInv /\ Rests => ReaderInv'
<1>. SUFFICES ASSUME ReaderInv, Rests PROVE ReaderInv'
  OBVIOUS
<1>1. Passed' = Passed
  BY DEF Rests, Passed
<1>2. ReaderTypes'
  BY ReceivedTypes, OutputType DEF ReaderInv, ReaderTypes, Rests
<1>3. \A k \in DOMAIN received : CutOff(k) => CutOff(k)'
  <2>. SUFFICES ASSUME NEW k \in DOMAIN received, CutOff(k) PROVE CutOff(k)'
    OBVIOUS
  <2>1. UNCHANGED <<spoken, child, heard, received>>
    BY DEF CutOff, Rests
  <2>. QED
    BY <2>1 DEF CutOff, Yields
<1>4. ShortLinesArrive'
  BY <1>1, <1>3 DEF ReaderInv, ShortLinesArrive, Rests, Yields, Short, Lines, Begins
<1>5. \A from \in 0 .. Passed : InLine(from) => InLine(from)'
  BY <1>1 DEF InLine
<1>6. \A from \in 0 .. Passed : Along(from) => Along(from)'
  BY <1>1 DEF Along, Rests
<1>7. \A from \in 0 .. Passed : CutShort(from) => CutShort(from)'
  <2>. SUFFICES ASSUME NEW from \in 0 .. Passed, CutShort(from) PROVE CutShort(from)'
    OBVIOUS
  <2>1. Len(received) \in DOMAIN received
    BY ReceivedTypes DEF CutShort, ReaderInv, ReaderTypes
  <2>. QED
    BY <1>3, <2>1 DEF CutShort, Rests
<1>. QED
  BY <1>1, <1>2, <1>4, <1>5, <1>6, <1>7 DEF ReaderInv, Rests, HasNewline

LEMMA CutOffKept ==
  ASSUME ReaderInv, Looks, UNCHANGED received, NEW k \in DOMAIN received, CutOff(k)
  PROVE  CutOff(k)'
<1>1. heard' = heard /\ UNCHANGED <<spoken, child>>
  BY ReceivedTypes DEF CutOff, Looks, ReaderInv
<1>. QED
  BY <1>1 DEF CutOff, Yields

\* Without a newline no line ends.
LEMMA NoLineEnds ==
  ASSUME ReaderInv, NEW e \in Nat, \A i \in Passed + 1 .. e : Output[i] # Newline,
         NEW l \in Lines, l.to <= e
  PROVE  l.to <= Passed
<1>1. l.to \in Nat /\ Passed \in Nat
  BY LineTypes, ReceivedTypes DEF ReaderInv
<1>2. l.to > Passed => l.to \in Passed + 1 .. e
  BY <1>1
<1>. QED
  BY <1>1, <1>2, LineTypes

LEMMA LastReceived == ReaderTypes /\ received # <<>> => Len(received) \in DOMAIN received
<1>. SUFFICES ASSUME ReaderTypes, received # <<>> PROVE Len(received) \in DOMAIN received
  OBVIOUS
<1>. DEFINE R == [item: Seq(Nat) \cup {Oversized}, upTo: 0 .. Len(Output)]
<1>1. received \in Seq(R)
  BY DEF ReaderTypes
<1>. HIDE DEF R
<1>. QED
  BY <1>1

LEMMA WaitsKeeps == ReaderInv /\ Waits => ReaderInv'
<1>. SUFFICES ASSUME ReaderInv, Waits PROVE ReaderInv'
  OBVIOUS
<1>0. PICK e \in heard .. spoken : e = heard'
  BY DEF Waits, Looks
<1>a. /\ e \in Nat /\ heard <= e /\ e <= spoken /\ heard \in Nat /\ spoken \in Nat /\ Passed \in Nat
      /\ Passed <= heard /\ MaxFrame \in Nat
  BY ReceivedTypes, StdioAssumption DEF ReaderInv, StdioAssumption
<1>c. PICK n \in Nat : n = e - Passed
  BY <1>a
<1>b. n = Len(buf') /\ n = e - Passed
  BY <1>0, <1>c DEF Waits
<1>1. Passed' = Passed
  <2>1. e - n = Passed
    BY <1>a, <1>b
  <2>. QED
    BY <1>0, <1>b, <2>1 DEF Passed
<1>2. ReaderTypes'
  <2>1. reading' \in {"idle", "search", "discard"} /\ child' \in {"running", "exited"} /\ spoken' \in 0 .. Len(Output)
        /\ received' \in Seq([item: Seq(Nat) \cup {Oversized}, upTo: 0 .. Len(Output)])
    BY DEF ReaderInv, ReaderTypes, Waits, Looks
  <2>2. heard' \in 0 .. spoken' /\ buf' \in Seq(Byte) /\ Len(buf') <= heard'
    <3>1. spoken' = spoken /\ buf' \in Seq(Byte)
      BY DEF Waits, Looks
    <3>2. e \in 0 .. spoken /\ n <= e
      <4>1. n = e - Passed
        BY <1>b
      <4>. QED
        BY <1>a, <4>1
    <3>. QED
      BY <1>0, <1>b, <3>1, <3>2
  <2>. QED
    BY <2>1, <2>2 DEF ReaderTypes
<1>3. \A k \in DOMAIN received : CutOff(k) => CutOff(k)'
  BY CutOffKept DEF Waits
<1>4. ShortLinesArrive'
  BY <1>1, <1>3 DEF ReaderInv, ShortLinesArrive, Waits, Yields, Short, Lines, Begins
<1>5. \A from \in 0 .. Passed : InLine(from) => InLine(from)'
  BY <1>1 DEF InLine
<1>6. \A from \in 0 .. Passed : Along(from) => Along(from)'
  BY <1>1 DEF Along, Waits
<1>7. ASSUME NEW from \in 0 .. Passed, CutShort(from)
      PROVE  CutShort(from)'
  <2>0. buf = <<>> /\ heard = spoken /\ received # <<>> /\ CutOff(Len(received))
        /\ \A k \in 1 .. Len(received) - 1 : received[k].upTo <= from
    BY <1>7 DEF CutShort, CutOff
  <2>1. Len(received) \in DOMAIN received
    BY <2>0, ReceivedTypes, LastReceived DEF ReaderInv
  <2>2. e = heard /\ Len(buf) = 0 /\ Passed = heard
    BY <1>a, <2>0 DEF Passed
  <2>3. Len(buf') = 0 /\ buf' \in Seq(Byte)
    BY <1>a, <1>b, <2>2 DEF Waits
  <2>4. buf' = <<>>
    BY <2>3
  <2>5. UNCHANGED received /\ reading' # "discard"
    BY DEF Waits
  <2>6. CutOff(Len(received))'
    BY <1>3, <2>0, <2>1, <2>5
  <2>. QED
    BY <2>0, <2>4, <2>5, <2>6 DEF CutShort
<1>8. ~HasNewline(buf') /\ Len(buf') <= MaxFrame
  <2>1. ASSUME NEW i \in DOMAIN buf' PROVE buf'[i] # Newline
    <3>1. i \in 1 .. n
      BY <1>b DEF Waits
    <3>2. Passed + i \in Passed + 1 .. e
      <4>1. n = e - Passed
        BY <1>b
      <4>. QED
        BY <1>a, <3>1, <4>1
    <3>. QED
      BY <1>0, <1>b, <3>1, <3>2 DEF Waits
  <2>2. n <= MaxFrame
    BY <1>0, <1>b DEF Waits
  <2>. QED
    BY <1>b, <2>1, <2>2 DEF HasNewline
<1>9. \A i \in DOMAIN buf' : buf'[i] = Output[Passed + i]
  BY DEF Waits
<1>. QED
  BY <1>1, <1>2, <1>4, <1>5, <1>6, <1>7, <1>8, <1>9 DEF ReaderInv, Waits, HasNewline

LEMMA DropsKeeps == ReaderInv /\ Drops => ReaderInv'
<1>. SUFFICES ASSUME ReaderInv, Drops PROVE ReaderInv'
  OBVIOUS
<1>0. PICK e \in heard .. spoken : e = heard'
  BY DEF Drops, Looks
<1>a. /\ e \in Nat /\ heard <= e /\ e <= spoken /\ heard \in Nat /\ spoken \in Nat /\ Passed \in Nat
      /\ Passed <= heard /\ MaxFrame \in Nat
  BY ReceivedTypes, StdioAssumption DEF ReaderInv, StdioAssumption
<1>1. Passed' = e
  <2>1. Len(buf') = 0 /\ e - 0 = e
    BY <1>a DEF Drops
  <2>. QED
    BY <1>0, <2>1 DEF Passed
<1>2. ReaderTypes'
  <2>1. e \in 0 .. spoken /\ 0 <= e
    BY <1>a
  <2>2. buf' \in Seq(Byte) /\ Len(buf') = 0
    BY DEF Drops
  <2>. QED
    BY <1>0, <2>1, <2>2 DEF ReaderInv, ReaderTypes, Drops, Looks
<1>3. \A k \in DOMAIN received : CutOff(k) => CutOff(k)'
  BY CutOffKept DEF Drops
<1>4. ShortLinesArrive'
  <2>1. ASSUME NEW l \in Lines, l.to <= e
        PROVE  \E k \in DOMAIN received : received[k].upTo = l.to
    BY <1>0, <1>a, <2>1, NoLineEnds DEF Drops, ReaderInv, ShortLinesArrive
  <2>. QED
    BY <1>1, <1>3, <2>1 DEF ReaderInv, ShortLinesArrive, Drops, Yields, Short, Lines, Begins
<1>5. PICK from \in 0 .. Passed : InLine(from) /\ (Along(from) \/ CutShort(from))
  BY DEF ReaderInv
<1>6. ~CutShort(from)
  <2>. SUFFICES ASSUME CutShort(from) PROVE FALSE
    OBVIOUS
  <2>1. buf = <<>> /\ heard = spoken /\ reading # "discard"
    BY DEF CutShort, CutOff
  <2>2. e = heard /\ Passed = heard /\ e - Passed = 0 /\ ~ (0 > MaxFrame)
    BY <1>a, <2>1 DEF Passed
  <2>. QED
    BY <1>0, <2>1, <2>2 DEF Drops
<1>7. e - from > MaxFrame /\ from # e /\ from \in 0 .. e
  <2>1. from = Passed \/ Passed - from > MaxFrame
    BY <1>5, <1>6 DEF Along
  <2>2. e - Passed > MaxFrame \/ Passed - from > MaxFrame
    BY <1>0, <1>5, <1>6 DEF Along, Drops
  <2>3. from \in Nat /\ from <= Passed
    BY <1>a
  <2>. QED
    BY <1>a, <2>1, <2>2, <2>3
<1>8. InLine(from)'
  <2>1. ASSUME NEW i \in from + 1 .. e PROVE Output[i] # Newline
    <3>1. i \in from + 1 .. Passed \/ i \in Passed + 1 .. e
      BY <1>a
    <3>. QED
      BY <1>0, <1>5, <3>1 DEF InLine, Drops
  <2>. QED
    BY <1>1, <1>5, <1>7, <2>1 DEF InLine
<1>9. Along(from)'
  BY <1>1, <1>5, <1>6, <1>7 DEF Along, Drops
<1>. QED
  BY <1>1, <1>2, <1>4, <1>7, <1>8, <1>9 DEF ReaderInv, Drops, HasNewline

LEMMA SinceType ==
  ASSUME ReaderTypes, NEW j \in Nat, j > Passed, \A i \in Passed + 1 .. j - 1 : Output[i] # Newline,
         j - 1 <= Len(Output)
  PROVE  Since(j) \in Seq(Nat)
<1>. DEFINE m == Passed + 1  n == j - 1
<1>1. Passed \in Nat
  BY ReceivedTypes
<1>2. m \in Int /\ n \in Int
  BY <1>1
<1>3. \A i \in m .. n : Output[i] \in Nat
  <2>. SUFFICES ASSUME NEW i \in m .. n PROVE Output[i] \in Nat
    OBVIOUS
  <2>1. i \in 1 .. Len(Output)
    BY <1>1, OutputType
  <2>2. Output[i] \in Byte
    BY <2>1, OutputType
  <2>. QED
    BY <2>2 DEF Byte
<1>4. Since(j) = SubSeq(Output, m, n)
  BY DEF Since
<1>. HIDE DEF m, n
<1>. QED
  BY <1>2, <1>3, <1>4, SubSeqProperties

LEMMA Getting ==
  ASSUME ReaderTypes, NEW item \in Seq(Nat) \cup {Oversized}, NEW j \in 0 .. Len(Output), Gets(item, j)
  PROVE  /\ received' \in Seq([item: Seq(Nat) \cup {Oversized}, upTo: 0 .. Len(Output)])
         /\ Len(received') = Len(received) + 1 /\ DOMAIN received' = 1 .. Len(received) + 1
         /\ \A k \in 1 .. Len(received) : received'[k] = received[k]
         /\ received'[Len(received) + 1].item = item /\ received'[Len(received) + 1].upTo = j
<1>. DEFINE R == [item: Seq(Nat) \cup {Oversized}, upTo: 0 .. Len(Output)]
            r == [item |-> item, upTo |-> j]
<1>1. received \in Seq(R) /\ r \in R /\ received' = Append(received, r) /\ r.item = item /\ r.upTo = j
  BY DEF ReaderTypes, Gets
<1>. HIDE DEF R, r
<1>2. received' \in Seq(R) /\ Len(received') = Len(received) + 1 /\ DOMAIN received' = 1 .. Len(received) + 1
      /\ (\A k \in 1 .. Len(received) : received'[k] = received[k]) /\ received'[Len(received) + 1] = r
  BY <1>1
<1>. QED
  BY <1>1, <1>2 DEF R

\* What is received of a line that the reader has come along.
LEMMA LineYields ==
  ASSUME ReaderInv, NEW from \in 0 .. Passed, Along(from), NEW j \in Nat, j > Passed,
         NEW l, l.from = from, l.to = j, NEW item,
         item = IF reading = "discard" \/ j - Passed - 1 > MaxFrame THEN Oversized ELSE Since(j)
  PROVE  Yields(l, item)
<1>1. Passed \in Nat /\ from \in Nat /\ from <= Passed /\ MaxFrame \in Nat
  BY ReceivedTypes, StdioAssumption DEF ReaderInv, StdioAssumption
<1>2. from = Passed \/ Passed - from > MaxFrame
  BY DEF Along
<1>3. CASE from = Passed
  <2>1. reading # "discard"
    BY <1>3 DEF Along
  <2>2. Short(l) <=> ~ (j - Passed - 1 > MaxFrame)
    BY <1>1, <1>3 DEF Short
  <2>3. CASE Short(l)
    BY <1>3, <2>1, <2>2, <2>3 DEF Yields, Since
  <2>4. CASE ~Short(l)
    BY <2>2, <2>4 DEF Yields
  <2>. QED
    BY <2>3, <2>4
<1>4. CASE Passed - from > MaxFrame
  <2>1. ~Short(l)
    BY <1>1, <1>4 DEF Short
  <2>2. Passed \in l.from + MaxFrame + 1 .. l.to - 1
    BY <1>1, <1>4
  <2>3. CASE item = Oversized
    BY <2>1, <2>3 DEF Yields
  <2>4. CASE item = Since(j)
    BY <2>1, <2>2, <2>4 DEF Yields, Since
  <2>. QED
    BY <2>3, <2>4
<1>. QED
  BY <1>2, <1>3, <1>4

LEMMA FindsKeeps ==
  ASSUME ReaderInv, NEW j \in Nat, Finds(j)
  PROVE  ReaderInv'
<1>0. PICK e \in heard .. spoken : e = heard'
  BY DEF Finds, Looks
<1>a. ReaderTypes
  BY DEF ReaderInv
<1>1. /\ e \in Nat /\ heard <= e /\ e <= spoken /\ heard \in Nat /\ spoken \in Nat /\ Passed \in Nat
      /\ Passed <= heard /\ spoken <= Len(Output) /\ Len(Output) \in Nat
  BY <1>a, ReceivedTypes, OutputType DEF ReaderTypes
<1>2. /\ j > Passed /\ j <= e /\ Output[j] = Newline /\ \A i \in Passed + 1 .. j - 1 : Output[i] # Newline
  BY <1>0 DEF Finds
<1>3. UNCHANGED <<spoken, child>> /\ reading' = "idle"
  BY DEF Finds, Looks
<1>4. Passed' = j
  <2>1. Len(buf') = e - j
    BY <1>0 DEF Finds
  <2>2. e - (e - j) = j
    BY <1>1
  <2>. QED
    BY <1>0, <2>1, <2>2 DEF Passed
<1>5. PICK from \in 0 .. Passed : InLine(from) /\ Along(from)
  <2>1. PICK from \in 0 .. Passed : InLine(from) /\ (Along(from) \/ CutShort(from))
    BY DEF ReaderInv
  <2>2. ASSUME CutShort(from) PROVE FALSE
    <3>1. buf = <<>> /\ heard = spoken
      BY <2>2 DEF CutShort, CutOff
    <3>2. Passed = heard
      BY <1>1, <3>1 DEF Passed
    <3>. QED
      BY <1>1, <1>2, <3>1, <3>2
  <2>. QED
    BY <2>1, <2>2
<1>6. PICK item : /\ item = IF reading = "discard" \/ j - Passed - 1 > MaxFrame THEN Oversized ELSE Since(j)
                  /\ Gets(item, j)
  BY DEF Finds
<1>7. item \in Seq(Nat) \cup {Oversized} /\ j \in 0 .. Len(Output)
  <2>1. j - 1 <= Len(Output) /\ j \in 0 .. Len(Output)
    BY <1>1, <1>2
  <2>. QED
    BY <1>a, <1>2, <1>6, <2>1, SinceType
<1>8. /\ received' \in Seq([item: Seq(Nat) \cup {Oversized}, upTo: 0 .. Len(Output)])
      /\ Len(received') = Len(received) + 1 /\ DOMAIN received' = 1 .. Len(received) + 1
      /\ \A k \in 1 .. Len(received) : received'[k] = received[k]
      /\ received'[Len(received) + 1].item = item /\ received'[Len(received) + 1].upTo = j
  BY <1>a, <1>6, <1>7, Getting
<1>9. /\ Len(received) \in Nat /\ DOMAIN received = 1 .. Len(received)
      /\ \A k \in 1 .. Len(received) : received[k].upTo \in Nat
  BY <1>a, ReceivedTypes
<1>10. \A k \in 1 .. Len(received) : received[k].upTo <= from /\ received[k].upTo < j
  <2>1. \A k \in 1 .. Len(received) : received[k].upTo <= from
    BY <1>5, <1>9 DEF Along
  <2>. QED
    BY <1>1, <1>2, <1>9, <2>1
<1>11. ReaderTypes'
  <2>1. e \in 0 .. spoken /\ e - j <= e
    BY <1>1
  <2>2. buf' \in Seq(Byte) /\ Len(buf') = e - j
    BY <1>0 DEF Finds
  <2>. QED
    BY <1>0, <1>3, <1>8, <2>1, <2>2 DEF ReaderInv, ReaderTypes
<1>12. ASSUME NEW l \in Lines, l.to <= j
       PROVE  \E k \in DOMAIN received' : received'[k].upTo = l.to
  <2>1. CASE l.to = j
    BY <1>8, <1>9, <2>1
  <2>2. CASE l.to # j
    <3>1. l.to <= j - 1 /\ j - 1 \in Nat
      BY <1>1, <1>2, <1>12, <2>2, LineTypes
    <3>2. l.to <= Passed
      BY <1>2, <3>1, NoLineEnds
    <3>3. PICK k \in DOMAIN received : received[k].upTo = l.to
      BY <3>2 DEF ReaderInv, ShortLinesArrive
    <3>4. k \in 1 .. Len(received) /\ k \in 1 .. Len(received) + 1
      BY <1>9
    <3>. QED
      BY <1>8, <3>3, <3>4
  <2>. QED
    BY <2>1, <2>2
<1>13. ASSUME NEW h \in DOMAIN received', NEW k \in DOMAIN received', h < k
       PROVE  received'[h].upTo < received'[k].upTo
  <2>1. h \in 1 .. Len(received)
    BY <1>8, <1>9, <1>13
  <2>2. CASE k \in 1 .. Len(received)
    BY <1>8, <1>9, <1>13, <2>1, <2>2 DEF ReaderInv, ShortLinesArrive
  <2>3. CASE k = Len(received) + 1
    BY <1>8, <1>10, <2>1, <2>3
  <2>. QED
    BY <1>8, <1>9, <2>2, <2>3
<1>14. ASSUME NEW k \in DOMAIN received'
       PROVE  \E l \in Lines : received'[k].upTo = l.to /\ Yields(l, received'[k].item)
  <2>1. CASE k \in 1 .. Len(received)
    <3>1. ~CutOff(k)
      <4>1. CutOff(k) => received[k].upTo = spoken
        BY DEF CutOff
      <4>2. received[k].upTo < j
        BY <1>10, <2>1
      <4>. QED
        BY <1>1, <1>2, <4>1, <4>2
    <3>2. \E l \in Lines : received[k].upTo = l.to /\ Yields(l, received[k].item)
      BY <1>9, <2>1, <3>1 DEF ReaderInv, ShortLinesArrive
    <3>. QED
      BY <1>8, <2>1, <3>2
  <2>2. CASE k = Len(received) + 1
    <3>. DEFINE l == [from |-> from, to |-> j]
    <3>1. l.from = from /\ l.to = j
      OBVIOUS
    <3>2. l \in Lines
      <4>1. l \in Span /\ j \in DOMAIN Output /\ from < j
        BY <1>1, <1>2, OutputType DEF Span
      <4>2. ASSUME NEW i \in from + 1 .. j - 1 PROVE Output[i] # Newline
        <5>1. i \in from + 1 .. Passed \/ i \in Passed + 1 .. j - 1
          BY <1>1, <1>2
        <5>. QED
          BY <1>2, <1>5, <5>1 DEF InLine
      <4>3. from = 0 \/ Output[from] = Newline
        BY <1>5 DEF InLine
      <4>. HIDE DEF l
      <4>. QED
        BY <1>2, <3>1, <4>1, <4>2, <4>3 DEF Lines, Begins
    <3>. HIDE DEF l
    <3>3. Yields(l, item)
      BY <1>2, <1>5, <1>6, <3>1, LineYields
    <3>. QED
      BY <1>8, <2>2, <3>1, <3>2, <3>3
  <2>. QED
    BY <1>8, <1>9, <2>1, <2>2
<1>15. ShortLinesArrive'
  <2>1. \A l \in Lines : l.to <= j => \E k \in DOMAIN received' : received'[k].upTo = l.to
    BY <1>12
  <2>2. \A h, k \in DOMAIN received' : h < k => received'[h].upTo < received'[k].upTo
    BY <1>13
  <2>3. \A k \in DOMAIN received' : \E l \in Lines : received'[k].upTo = l.to /\ Yields(l, received'[k].item)
    BY <1>14
  <2>. QED
    BY <1>4, <2>1, <2>2, <2>3 DEF ShortLinesArrive, Lines, Begins, Yields, Short
<1>16. InLine(j)' /\ Along(j)' /\ j \in 0 .. j
  <2>1. \A k \in DOMAIN received' : received'[k].upTo <= j
    BY <1>8, <1>9, <1>10
  <2>2. j \in 0 .. j /\ \A i \in j + 1 .. j : FALSE
    OBVIOUS
  <2>3. InLine(j)'
    BY <1>2, <1>4, <2>2 DEF InLine
  <2>4. Along(j)'
    BY <1>3, <1>4, <2>1 DEF Along
  <2>. QED
    BY <2>2, <2>3, <2>4
<1>17. \A i \in DOMAIN buf' : buf'[i] = Output[Passed' + i]
  BY <1>4 DEF Finds
<1>. QED
  BY <1>3, <1>4, <1>11, <1>15, <1>16, <1>17 DEF ReaderInv

LEMMA StopsKeeps == ReaderInv /\ Stops => ReaderInv'
<1>. SUFFICES ASSUME ReaderInv, Stops PROVE ReaderInv'
  OBVIOUS
<1>a. ReaderTypes
  BY DEF ReaderInv
<1>1. /\ heard \in Nat /\ spoken = heard /\ Passed \in Nat /\ MaxFrame \in Nat
      /\ Passed <= heard /\ heard <= Len(Output) /\ Len(Output) \in Nat /\ Passed = heard - Len(buf) /\ Len(buf) \in Nat
  BY <1>a, ReceivedTypes, OutputType, StdioAssumption DEF ReaderTypes, Stops, Passed, StdioAssumption
<1>2. UNCHANGED <<spoken, child, heard>> /\ child = "exited" /\ reading \in {"search", "discard"} /\ reading' = "idle"
      /\ buf' = <<>>
  BY <1>a DEF Stops, ReaderTypes
<1>3. Passed' = heard
  <2>1. Len(buf') = 0 /\ heard - 0 = heard
    BY <1>1, <1>2
  <2>. QED
    BY <1>2, <2>1 DEF Passed
\* No newline is left, and what is left is not nothing.
<1>4. \A i \in Passed + 1 .. heard : Output[i] # Newline
  <2>1. CASE reading = "discard"
    <3>1. buf = <<>>
      BY <2>1 DEF ReaderInv
    <3>2. Passed = heard
      BY <1>1, <3>1
    <3>. QED
      BY <1>1, <3>2
  <2>2. CASE reading = "search"
    <3>1. ~HasNewline(buf) /\ Ahead(buf, heard)
      BY <1>1, <2>2, AheadOfReader DEF ReaderInv
    <3>2. heard \in heard .. spoken
      BY <1>1
    <3>. QED
      BY <1>a, <3>1, <3>2, AheadIsOutput DEF HasNewline
  <2>. QED
    BY <1>2, <2>1, <2>2
<1>5. PICK from \in 0 .. Passed : InLine(from) /\ Along(from) /\ from < heard
  <2>1. PICK from \in 0 .. Passed : InLine(from) /\ (Along(from) \/ CutShort(from))
    BY DEF ReaderInv
  <2>2. ~CutShort(from)
    BY <1>2 DEF CutShort, Stops
  <2>3. CASE reading = "discard"
    <3>1. from # Passed
      BY <2>1, <2>2, <2>3 DEF Along
    <3>. QED
      BY <1>1, <2>1, <2>2, <3>1
  <2>4. CASE reading = "search"
    <3>1. buf # <<>> /\ buf \in Seq(Byte)
      BY <1>a, <2>4 DEF Stops, ReaderTypes
    <3>2. Len(buf) > 0
      BY <3>1
    <3>. QED
      BY <1>1, <2>1, <2>2, <3>2
  <2>. QED
    BY <1>2, <2>3, <2>4
<1>. DEFINE j == heard + 1
<1>b. j \in Nat /\ j > Passed /\ j - 1 = heard /\ j - 1 <= Len(Output)
  BY <1>1
<1>6. PICK item : /\ item = IF reading = "discard" \/ j - Passed - 1 > MaxFrame THEN Oversized ELSE Since(j)
                  /\ Gets(item, heard)
  <2>1. reading # "discard" => ~ (j - Passed - 1 > MaxFrame)
    <3>. SUFFICES ASSUME reading # "discard" PROVE ~ (j - Passed - 1 > MaxFrame)
      OBVIOUS
    <3>1. Len(buf) <= MaxFrame
      BY <1>2 DEF ReaderInv
    <3>. QED
      BY <1>1, <3>1
  <2>2. Gets(IF reading = "discard" THEN Oversized ELSE Since(j), heard)
    BY DEF Stops
  <2>. HIDE DEF j
  <2>. QED
    BY <2>1, <2>2
<1>7. item \in Seq(Nat) \cup {Oversized} /\ heard \in 0 .. Len(Output)
  <2>1. heard \in 0 .. Len(Output) /\ \A i \in Passed + 1 .. j - 1 : Output[i] # Newline
    BY <1>1, <1>4, <1>b
  <2>. HIDE DEF j
  <2>. QED
    BY <1>a, <1>b, <1>6, <2>1, SinceType
<1>8. /\ received' \in Seq([item: Seq(Nat) \cup {Oversized}, upTo: 0 .. Len(Output)])
      /\ Len(received') = Len(received) + 1 /\ DOMAIN received' = 1 .. Len(received) + 1
      /\ \A k \in 1 .. Len(received) : received'[k] = received[k]
      /\ received'[Len(received) + 1].item = item /\ received'[Len(received) + 1].upTo = heard
  BY <1>a, <1>6, <1>7, Getting
<1>9. /\ Len(received) \in Nat /\ DOMAIN received = 1 .. Len(received)
      /\ \A k \in 1 .. Len(received) : received[k].upTo \in Nat
  BY <1>a, ReceivedTypes
<1>10. \A k \in 1 .. Len(received) : received[k].upTo <= from /\ received[k].upTo < heard
  <2>1. \A k \in 1 .. Len(received) : received[k].upTo <= from
    BY <1>5, <1>9 DEF Along
  <2>. QED
    BY <1>1, <1>5, <1>9, <2>1
<1>11. ReaderTypes'
  <2>1. <<>> \in Seq(Byte) /\ Len(<<>>) <= heard
    BY <1>1
  <2>. QED
    BY <1>2, <1>8, <2>1 DEF ReaderInv, ReaderTypes
<1>12. ASSUME NEW l \in Lines, l.to <= heard
       PROVE  \E k \in DOMAIN received' : received'[k].upTo = l.to
  <2>1. l.to <= Passed
    BY <1>1, <1>4, <1>12, NoLineEnds
  <2>2. PICK k \in DOMAIN received : received[k].upTo = l.to
    BY <2>1 DEF ReaderInv, ShortLinesArrive
  <2>3. k \in 1 .. Len(received) /\ k \in 1 .. Len(received) + 1
    BY <1>9
  <2>. QED
    BY <1>8, <2>2, <2>3
<1>13. ASSUME NEW h \in DOMAIN received', NEW k \in DOMAIN received', h < k
       PROVE  received'[h].upTo < received'[k].upTo
  <2>1. h \in 1 .. Len(received)
    BY <1>8, <1>9, <1>13
  <2>2. CASE k \in 1 .. Len(received)
    BY <1>8, <1>9, <1>13, <2>1, <2>2 DEF ReaderInv, ShortLinesArrive
  <2>3. CASE k = Len(received) + 1
    BY <1>8, <1>10, <2>1, <2>3
  <2>. QED
    BY <1>8, <1>9, <2>2, <2>3
<1>14. ASSUME NEW k \in 1 .. Len(received)
       PROVE  \E l \in Lines : received'[k].upTo = l.to /\ Yields(l, received'[k].item)
  <2>1. ~CutOff(k)
    <3>1. CutOff(k) => received[k].upTo = spoken
      BY DEF CutOff
    <3>. QED
      BY <1>1, <1>10, <3>1
  <2>2. \E l \in Lines : received[k].upTo = l.to /\ Yields(l, received[k].item)
    BY <1>9, <2>1 DEF ReaderInv, ShortLinesArrive
  <2>. QED
    BY <1>8, <2>2
<1>c. PICK last : last = Len(received')
  OBVIOUS
<1>15. CutOff(last)'
  <2>. DEFINE l == [from |-> from, to |-> j]
  <2>1. l.from = from /\ l.to = j
    OBVIOUS
  <2>2. l \in Span /\ from < j
    BY <1>1, <1>5, OutputType DEF Span
  <2>3. ASSUME NEW i \in from + 1 .. j - 1 PROVE Output[i] # Newline
    <3>1. i \in from + 1 .. Passed \/ i \in Passed + 1 .. heard
      BY <1>1, <1>b
    <3>. QED
      BY <1>4, <1>5, <3>1 DEF InLine
  <2>4. from = 0 \/ Output[from] = Newline
    BY <1>5 DEF InLine
  <2>5. j = spoken' + 1 /\ from < spoken' /\ heard' = spoken' /\ heard = spoken'
    BY <1>1, <1>2, <1>5
  <2>. HIDE DEF l, j
  <2>6. Begins(l)
    BY <2>1, <2>2, <2>3, <2>4 DEF Begins
  <2>7. Yields(l, item)
    BY <1>b, <1>5, <1>6, <2>1, LineYields
  <2>8. received'[last].item = item /\ received'[last].upTo = heard
    BY <1>8, <1>c
  <2>9. \E m \in Span : Begins(m) /\ m.to = spoken' + 1 /\ m.from < spoken' /\ Yields(m, received'[last].item)
    BY <2>1, <2>2, <2>5, <2>6, <2>7, <2>8
  <2>10. last = Len(received') /\ received'[last].upTo = spoken' /\ child' = "exited" /\ heard' = spoken'
    BY <1>2, <1>c, <2>5, <2>8
  <2>11. (\E m \in Span : Begins(m) /\ m.to = spoken + 1 /\ m.from < spoken /\ Yields(m, received[last].item))'
    BY <2>9 DEF Span, Begins, Yields, Short
  <2>. QED
    BY <2>10, <2>11 DEF CutOff
<1>16. ShortLinesArrive'
  <2>1. \A l \in Lines : l.to <= heard => \E k \in DOMAIN received' : received'[k].upTo = l.to
    BY <1>12
  <2>2. \A h, k \in DOMAIN received' : h < k => received'[h].upTo < received'[k].upTo
    BY <1>13
  <2>3. \A k \in DOMAIN received' :
          \/ \E l \in Lines : received'[k].upTo = l.to /\ Yields(l, received'[k].item)
          \/ CutOff(k)'
    <3>1. \A k \in DOMAIN received' : k \in 1 .. Len(received) \/ k = last
      BY <1>8, <1>9, <1>c
    <3>. QED
      BY <1>14, <1>15, <3>1
  <2>. QED
    BY <1>3, <2>1, <2>2, <2>3 DEF ShortLinesArrive, Lines, Begins, Yields, Short
<1>17. InLine(from)' /\ from \in 0 .. Passed'
  <2>1. from \in 0 .. heard
    BY <1>1, <1>5
  <2>2. ASSUME NEW i \in from + 1 .. heard PROVE Output[i] # Newline
    <3>1. i \in from + 1 .. Passed \/ i \in Passed + 1 .. heard
      BY <1>1
    <3>. QED
      BY <1>4, <1>5, <3>1 DEF InLine
  <2>. QED
    BY <1>3, <1>5, <2>1, <2>2 DEF InLine
<1>18. CutShort(from)'
  <2>1. Len(received') # 0 /\ \A k \in 1 .. Len(received') - 1 : k \in 1 .. Len(received)
    BY <1>8, <1>9
  <2>2. received' # <<>>
    BY <2>1
  <2>3. \A k \in 1 .. Len(received') - 1 : received'[k].upTo <= from
    BY <1>8, <1>10, <2>1
  <2>4. CutOff(Len(received))'
    BY <1>15, <1>c
  <2>. QED
    BY <1>2, <2>2, <2>3, <2>4 DEF CutShort
<1>. QED
  BY <1>2, <1>11, <1>16, <1>17, <1>18 DEF ReaderInv

LEMMA ReaderInvKept ==
  ASSUME ReaderInv, [StdioNext]_stdioVars
  PROVE  ReaderInv'
  BY WhichReaderMove, RestsKeeps, WaitsKeeps, DropsKeeps, StopsKeeps, FindsKeeps

LEMMA ReaderInvInit == StdioInit \/ NoStdio => ReaderInv
<1>. SUFFICES ASSUME StdioInit \/ NoStdio PROVE ReaderInv
  OBVIOUS
<1>1. buf = <<>> /\ Len(buf) = 0 /\ heard = 0 /\ spoken = 0 /\ received = <<>> /\ reading = "idle"
      /\ child \in {"running", "exited"}
  BY DEF StdioInit, NoStdio
<1>2. Passed = 0
  <2>1. heard - Len(buf) = 0 - 0
    BY <1>1
  <2>. QED
    BY <2>1 DEF Passed
<1>3. ReaderTypes
  BY <1>1, OutputType DEF ReaderTypes
<1>4. InLine(0) /\ Along(0) /\ 0 \in 0 .. Passed
  BY <1>1, <1>2 DEF InLine, Along
<1>5. ShortLinesArrive
  <2>1. \A l \in Lines : ~ (l.to <= Passed)
    BY <1>2, LineTypes
  <2>. QED
    BY <1>1, <2>1 DEF ShortLinesArrive
<1>. QED
  BY <1>1, <1>3, <1>4, <1>5 DEF ReaderInv

\* Whatever bytes the child writes, of whatever lengths the lines and the chunks are, and
\* wherever a command comes in between: the lines come in, each once and in order.
THEOREM EveryLineArrives == StdioSpec => []ShortLinesArrive
<1>1. ReaderInv => ShortLinesArrive
  BY DEF ReaderInv
<1>2. ReaderInv /\ [StdioNext]_stdioVars => ReaderInv'
  BY ReaderInvKept
<1>. QED
  BY <1>1, <1>2, ReaderInvInit, PTL DEF StdioSpec

-----------------------------------------------------------------------------
(* HTTP: types *)

PostType ==
  [state: {"unsent", "spawned", "sent", "streaming", "done"},
   session: Session \cup {None}, version: BOOLEAN,
   out: Seq(Items), answered: BOOLEAN,
   end: {None, "ok", "accepted", "expired", "failed"}]

ListenerType ==
  [state: {"off", "connecting", "streaming", "waiting", "stopped"},
   out: Seq(Items), events: BOOLEAN, delay: ReconnectMin .. ReconnectMax,
   wait: ReconnectMin .. ReconnectMax, end: {None, "ended", "failed"}]

LEMMA BlankTypes == Unsent \in PostType /\ NoListener \in ListenerType
  BY HttpAssumption DEF HttpAssumption, Unsent, NoListener, PostType, ListenerType

LEMMA ItemTypes ==
  /\ \A r \in Asking : Answer(r) \in Items /\ Synth(r) \in Items
  /\ Other \in Items /\ Fatal \in Items
  BY DEF Answer, Synth, Other, Fatal, Items

LEMMA EventTypes ==
  ASSUME NEW item \in Events
  PROVE  item \in Items /\ item.kind \in {"Answer", "Other"}
<1>1. Awaited \subseteq Asking
  BY DEF Awaited, Arrived
<1>. QED
  BY <1>1, ItemTypes DEF Events, Answer, Other

LEMMA FinishedType ==
  ASSUME NEW p \in Post, NEW post \in PostType, NEW pushes \in Seq(Items),
         NEW end \in {"ok", "accepted", "expired", "failed"}
  PROVE  FinishPost(post, p, pushes, end) \in PostType
<1>1. Resolution(p, end) \in Seq(Items)
  BY ItemTypes DEF Resolution
<1>2. pushes \o Resolution(p, end) \in Seq(Items)
  BY <1>1
<1>. DEFINE out == pushes \o Resolution(p, end)
<1>. HIDE DEF out
<1>3. [Unsent EXCEPT !.state = "done", !.out = out] \in PostType
  BY <1>2, BlankTypes DEF PostType, out
<1>4. [post EXCEPT !.state = "done", !.out = out, !.end = end] \in PostType
  BY <1>2 DEF PostType, out
<1>. QED
  BY <1>3, <1>4 DEF FinishPost, Over, out

LEMMA RespondedType ==
  ASSUME HttpTypeOK, NEW p \in Post, NEW now, NEW post \in Responded(p, now)
  PROVE  post \in PostType
<1>1. posts[p] \in PostType
  BY DEF HttpTypeOK, PostType
<1>2. <<>> \in Seq(Items) /\ <<Other>> \in Seq(Items)
  BY ItemTypes
<1>3. CASE post \in {FinishPost(posts[p], p, <<>>, IF now # None THEN "expired" ELSE "failed"),
                     FinishPost(posts[p], p, <<>>, "accepted"), FinishPost(posts[p], p, <<>>, "failed"),
                     FinishPost(posts[p], p, <<Other>>, "failed")}
  BY <1>1, <1>2, <1>3, FinishedType
<1>4. CASE post = [posts[p] EXCEPT !.state = "streaming"]
  BY <1>1, <1>4 DEF PostType
<1>5. ASSUME NEW item \in Events,
             post = FinishPost([posts[p] EXCEPT !.answered = (item = Answer(p))], p, <<item>>,
                               IF p \in Asking /\ item # Answer(p) THEN "failed" ELSE "ok")
      PROVE  post \in PostType
  <2>1. [posts[p] EXCEPT !.answered = (item = Answer(p))] \in PostType
    BY <1>1 DEF PostType
  <2>2. <<item>> \in Seq(Items)
    BY EventTypes
  <2>. QED
    BY <1>5, <2>1, <2>2, FinishedType
<1>. QED
  BY <1>3, <1>4, <1>5 DEF Responded

\* A POST's task that changes into one of its type.
LEMMA PostTypes ==
  ASSUME HttpTypeOK, NEW p \in Post, NEW post \in PostType, posts' = [posts EXCEPT ![p] = post]
  PROVE  posts' \in [Post -> PostType]
  BY DEF HttpTypeOK, PostType

LEMMA PushTypes ==
  ASSUME HttpTypeOK, NEW item \in Items, PushItem(item)
  PROVE  /\ inbound' \in Seq(Items) /\ Len(inbound') <= InboundQueue
         /\ first' \in [Asking -> {None, "Answer", "Synth"}] /\ expired' \in BOOLEAN
<1>1. inbound' \in Seq(Items) /\ Len(inbound') = Len(inbound) + 1 /\ Len(inbound) < InboundQueue
  BY DEF PushItem, HttpTypeOK
<1>2. Len(inbound') <= InboundQueue
  BY <1>1, HttpAssumption DEF HttpTypeOK, HttpAssumption
<1>3. first' \in [Asking -> {None, "Answer", "Synth"}]
  <2>1. first \in [Asking -> {None, "Answer", "Synth"}]
    BY DEF HttpTypeOK
  <2>2. CASE item.kind \in {"Answer", "Synth"} /\ first[item.to] = None
    BY <2>1, <2>2 DEF PushItem
  <2>. QED
    BY <2>1, <2>2 DEF PushItem
<1>4. expired' \in BOOLEAN
  BY DEF PushItem, HttpTypeOK
<1>. QED
  BY <1>1, <1>2, <1>3, <1>4

LEMMA ListenerTypes ==
  ASSUME HttpTypeOK
  PROVE  /\ \A end \in {"ended", "failed"}, delay \in ReconnectMin .. ReconnectMax :
              TryAgain(end, delay) => listener' \in ListenerType /\ hint' \in Hint \cup {0}
         /\ Reconnect => listener' \in ListenerType
         /\ \A pushes \in Seq(Items) : Stop(pushes) => listener' \in ListenerType /\ hint' \in Hint \cup {0}
<1>1. listener \in ListenerType /\ hint \in Hint \cup {0}
  BY DEF HttpTypeOK, ListenerType
<1>2. ReconnectMin \in Nat /\ ReconnectMax \in Nat /\ ReconnectMin <= ReconnectMax /\ Hint \subseteq Nat
      /\ ReconnectMin > 0
  BY HttpAssumption DEF HttpAssumption
<1>3. ASSUME NEW end \in {"ended", "failed"}, NEW delay \in ReconnectMin .. ReconnectMax, TryAgain(end, delay)
      PROVE  listener' \in ListenerType /\ hint' \in Hint \cup {0}
  <2>. DEFINE wait == IF hint > 0 THEN Max2(ReconnectMin, Min2(hint, ReconnectMax)) ELSE delay
  <2>1. wait \in ReconnectMin .. ReconnectMax
    BY <1>1, <1>2 DEF Max2, Min2
  <2>2. /\ listener' = [listener EXCEPT
             !.state = "waiting", !.end = end, !.events = FALSE, !.delay = delay, !.wait = wait]
        /\ hint' = 0
    BY <1>3 DEF TryAgain
  <2>. HIDE DEF wait
  <2>. QED
    BY <1>1, <2>1, <2>2 DEF ListenerType
<1>4. ASSUME Reconnect
      PROVE  listener' \in ListenerType
  <2>. DEFINE delay == Min2(2 * listener.delay, ReconnectMax)
  <2>1. listener.delay \in ReconnectMin .. ReconnectMax
    BY <1>1 DEF ListenerType
  <2>2. delay \in ReconnectMin .. ReconnectMax /\ ReconnectMin \in ReconnectMin .. ReconnectMax
    BY <1>2, <2>1 DEF Min2
  <2>3. listener' = [listener EXCEPT !.state = "connecting", !.end = None,
                                    !.wait = ReconnectMin, !.delay = delay]
    BY <1>1, <1>4 DEF Reconnect, ListenerType
  <2>. HIDE DEF delay
  <2>. QED
    BY <1>1, <2>2, <2>3 DEF ListenerType
<1>5. ASSUME NEW pushes \in Seq(Items), Stop(pushes)
      PROVE  listener' \in ListenerType /\ hint' \in Hint \cup {0}
  BY <1>1, <1>5 DEF Stop, ListenerType
<1>. QED
  BY <1>3, <1>4, <1>5

LEMMA HttpTypeKept ==
  ASSUME HttpTypeOK, [HttpNext]_httpVars
  PROVE  HttpTypeOK'
<1>0. /\ posts \in [Post -> PostType] /\ listener \in ListenerType
      /\ "initialized" \in Post /\ \A n \in Note : n \in Post
  BY DEF HttpTypeOK, PostType, ListenerType, Post
<1>. DEFINE Rest ==
       /\ phase' \in {"initialize", "ordered", "running", "closed"}
       /\ inbound' \in Seq(Items) /\ Len(inbound') <= InboundQueue
       /\ session' \in Session \cup {None} /\ opened' \in Session \cup {None}
       /\ version' \in BOOLEAN /\ expired' \in BOOLEAN
       /\ hint' \in Hint \cup {0}
       /\ budget' \in 0 .. MaxItems
       /\ first' \in [Asking -> {None, "Answer", "Synth"}]
<1>1. SUFFICES posts' \in [Post -> PostType] /\ listener' \in ListenerType /\ Rest
  BY DEF HttpTypeOK, PostType, ListenerType
<1>2. Spend => budget' \in 0 .. MaxItems
  BY HttpAssumption DEF Spend, HttpTypeOK, HttpAssumption
<1>3. ASSUME Close PROVE posts' \in [Post -> PostType] /\ listener' \in ListenerType /\ Rest
  <2>1. posts' \in [Post -> PostType] /\ listener' \in ListenerType
    BY <1>3, BlankTypes DEF Close
  <2>2. inbound' \in Seq(Items) /\ Len(inbound') <= InboundQueue /\ budget' \in 0 .. MaxItems
    BY <1>3, HttpAssumption DEF Close, HttpAssumption
  <2>3. first' \in [Asking -> {None, "Answer", "Synth"}]
    BY <1>3 DEF Close
  <2>. QED
    BY <1>3, <2>1, <2>2, <2>3 DEF Close
<1>4. \A p \in Post : Spawn(p) => posts' \in [Post -> PostType]
  <2>1. \A p \in Post : [posts[p] EXCEPT !.state = "spawned"] \in PostType
    BY <1>0 DEF PostType
  <2>. QED
    BY <1>0, <2>1 DEF Spawn
<1>5. Pong => posts' \in [Post -> PostType]
  BY <1>0, <1>4 DEF Pong
<1>6. ASSUME inbound' = Tail(inbound), inbound # <<>>
      PROVE  inbound' \in Seq(Items) /\ Len(inbound') <= InboundQueue
  BY <1>6, HttpAssumption DEF HttpTypeOK, HttpAssumption
<1>7. CASE UNCHANGED httpVars
  BY <1>0, <1>7 DEF httpVars, HttpTypeOK
<1>8. CASE AwaitInitialize
  <2>1. CASE Close
    BY <1>3, <2>1
  <2>2. CASE /\ inbound' = Tail(inbound) /\ inbound # <<>>
             /\ phase' = "ordered" /\ version' = TRUE /\ Spawn("initialized")
             /\ UNCHANGED <<listener, session, hint, budget, first, opened, expired>>
    BY <1>0, <1>4, <1>6, <2>2 DEF HttpTypeOK
  <2>3. CASE inbound # <<>> /\ (Pong \/ UNCHANGED posts) /\ Take
    BY <1>0, <1>5, <1>6, <2>3 DEF HttpTypeOK, Take, Stay
  <2>. QED
    BY <1>8, <2>1, <2>2, <2>3 DEF AwaitInitialize
<1>9. CASE Ordered
  <2>1. CASE Close
    BY <1>3, <2>1
  <2>2. CASE /\ phase' = "running" /\ opened' = session
             /\ listener' = [listener EXCEPT !.state = "connecting"]
             /\ UNCHANGED <<posts, inbound, session, version, hint, budget, first, expired>>
    BY <1>0, <2>2 DEF HttpTypeOK, ListenerType
  <2>. QED
    BY <1>9, <2>1, <2>2 DEF Ordered
<1>10. CASE InitTimeout \/ HttpShutdown
  BY <1>3, <1>10 DEF InitTimeout, HttpShutdown
<1>11. CASE Receive
  <2>1. CASE Close
    BY <1>3, <2>1
  <2>2. CASE Take /\ inbound # <<>> /\ (Pong \/ UNCHANGED posts)
    BY <1>0, <1>5, <1>6, <2>2 DEF HttpTypeOK, Take, Stay
  <2>. QED
    BY <1>11, <2>1, <2>2 DEF Receive
<1>12. CASE HttpCommand
  <2>1. posts' \in [Post -> PostType]
    BY <1>4, <1>12 DEF HttpCommand, Post
  <2>. QED
    BY <1>0, <1>12, <2>1 DEF HttpTypeOK, HttpCommand, Stay
<1>13. CASE GetRespond
  <2>1. /\ <<Fatal>> \in Seq(Items) /\ <<>> \in Seq(Items)
        /\ listener.delay \in ReconnectMin .. ReconnectMax
    BY <1>0, ItemTypes DEF ListenerType
  <2>2. listener' \in ListenerType /\ hint' \in Hint \cup {0}
    <3>1. CASE listener' = [listener EXCEPT !.state = "streaming"] /\ UNCHANGED hint
      BY <1>0, <3>1 DEF HttpTypeOK, ListenerType
    <3>. QED
      BY <1>13, <2>1, <3>1, ListenerTypes DEF GetRespond
  <2>. QED
    BY <1>0, <1>13, <2>2 DEF GetRespond, HttpTypeOK
<1>14. CASE GetEvent
  <2>1. listener' \in ListenerType /\ hint' \in Hint \cup {0}
    <3>1. ASSUME NEW item \in Events, listener' = [listener EXCEPT !.out = <<item>>, !.events = TRUE]
          PROVE  listener' \in ListenerType
      <4>1. <<item>> \in Seq(Items)
        BY EventTypes
      <4>. QED
        BY <1>0, <3>1, <4>1 DEF ListenerType
    <3>2. listener' = [listener EXCEPT !.events = TRUE] => listener' \in ListenerType
      BY <1>0 DEF ListenerType
    <3>. QED
      BY <1>14, <3>1, <3>2 DEF GetEvent, HttpTypeOK
  <2>. QED
    BY <1>0, <1>2, <1>14, <2>1 DEF GetEvent, HttpTypeOK
<1>15. CASE GetEnds
  <2>1. /\ listener.delay \in ReconnectMin .. ReconnectMax
        /\ ReconnectMin \in ReconnectMin .. ReconnectMax
    BY <1>0, HttpAssumption DEF ListenerType, HttpAssumption
  <2>2. listener' \in ListenerType /\ hint' \in Hint \cup {0}
    BY <1>15, <2>1, ListenerTypes DEF GetEnds
  <2>. QED
    BY <1>0, <1>15, <2>2 DEF GetEnds, HttpTypeOK
<1>16. CASE Reconnect
  <2>1. listener' \in ListenerType
    BY <1>16, ListenerTypes
  <2>. QED
    BY <1>0, <1>16, <2>1 DEF Reconnect, HttpTypeOK
<1>17. CASE PushListener
  <2>1. listener.out \in Seq(Items) /\ listener.out # <<>>
    BY <1>0, <1>17 DEF ListenerType, PushListener
  <2>2. Head(listener.out) \in Items /\ Tail(listener.out) \in Seq(Items)
    BY <2>1
  <2>3. listener' \in ListenerType
    BY <1>0, <1>17, <2>2 DEF PushListener, ListenerType
  <2>. QED
    BY <1>0, <1>17, <2>2, <2>3, PushTypes DEF PushListener, HttpTypeOK
<1>18. ASSUME NEW p \in Post, PushPost(p)
       PROVE  posts' \in [Post -> PostType] /\ listener' \in ListenerType /\ Rest
  <2>1. posts[p].out \in Seq(Items) /\ posts[p].out # <<>>
    BY <1>0, <1>18 DEF PostType, PushPost
  <2>2. Head(posts[p].out) \in Items /\ Tail(posts[p].out) \in Seq(Items)
    BY <2>1
  <2>3. [posts[p] EXCEPT !.out = Tail(@)] \in PostType
    BY <1>0, <2>2 DEF PostType
  <2>4. posts' \in [Post -> PostType]
    BY <1>0, <1>18, <2>3 DEF PushPost
  <2>. QED
    BY <1>0, <1>18, <2>2, <2>4, PushTypes DEF PushPost, HttpTypeOK
<1>19. ASSUME NEW p \in Post, PostStep(p)
       PROVE  posts' \in [Post -> PostType] /\ listener' \in ListenerType /\ Rest
  <2>0. posts[p] \in PostType /\ <<>> \in Seq(Items)
    BY <1>0
  <2>1. CASE StartPost(p)
    <3>1. [posts[p] EXCEPT !.state = "sent", !.session = session, !.version = version] \in PostType
      BY <2>0 DEF PostType, HttpTypeOK
    <3>2. posts' \in [Post -> PostType]
      BY <1>0, <2>1, <3>1 DEF StartPost
    <3>. QED
      BY <1>0, <2>1, <3>2 DEF StartPost, HttpTypeOK
  <2>2. CASE Respond(p)
    <3>1. session' \in Session \cup {None}
      BY <2>2 DEF Respond, Capture, HttpTypeOK
    <3>2. posts' \in [Post -> PostType]
      <4>1. PICK post \in Responded(p, session') : posts' = [posts EXCEPT ![p] = post]
        BY <2>2 DEF Respond
      <4>. QED
        BY <1>0, <4>1, RespondedType
    <3>. QED
      BY <1>0, <2>2, <3>1, <3>2 DEF Respond, HttpTypeOK
  <2>3. CASE PostFails(p)
    <3>1. FinishPost(posts[p], p, <<>>, "failed") \in PostType
      BY <2>0, FinishedType
    <3>2. posts' \in [Post -> PostType]
      BY <1>0, <2>3, <3>1 DEF PostFails
    <3>. QED
      BY <1>0, <2>3, <3>2 DEF PostFails, HttpTypeOK
  <2>4. CASE PostEvent(p)
    <3>1. ASSUME NEW item \in Events
          PROVE  [posts[p] EXCEPT !.out = <<item>>, !.answered = @ \/ item = Answer(p)] \in PostType
      <4>1. <<item>> \in Seq(Items)
        BY EventTypes
      <4>. QED
        BY <2>0, <4>1 DEF PostType
    <3>2. posts' \in [Post -> PostType]
      BY <1>0, <2>4, <3>1 DEF PostEvent
    <3>. QED
      BY <1>0, <1>2, <2>4, <3>2 DEF PostEvent, HttpTypeOK
  <2>5. CASE PostRetry(p)
    BY <1>0, <1>2, <2>5 DEF PostRetry, HttpTypeOK
  <2>6. CASE PostEnds(p)
    <3>1. \A end \in {"ok", "failed"} : FinishPost(posts[p], p, <<>>, end) \in PostType
      BY <2>0, FinishedType
    <3>2. posts' = [posts EXCEPT ![p] = FinishPost(posts[p], p, <<>>, "ok")]
          \/ posts' = [posts EXCEPT ![p] = FinishPost(posts[p], p, <<>>, "failed")]
      BY <2>6 DEF PostEnds
    <3>3. posts' \in [Post -> PostType]
      BY <1>0, <3>1, <3>2
    <3>. QED
      BY <1>0, <2>6, <3>3 DEF PostEnds, HttpTypeOK
  <2>. QED
    BY <1>19, <2>1, <2>2, <2>3, <2>4, <2>5, <2>6 DEF PostStep
<1>. QED
  BY <1>7, <1>8, <1>9, <1>10, <1>11, <1>12, <1>13, <1>14, <1>15, <1>16, <1>17, <1>18, <1>19
     DEF HttpNext, Handshake, HttpActor, ListenerStep

-----------------------------------------------------------------------------
(* HTTP: the handshake *)

\* Nothing is asked and no stream is opened before `initialized` has been accepted; the
\* version is known by then, and a session, once there is one, stays.
HandshakeInv ==
  /\ phase \in {"initialize", "ordered"} =>
       listener.state = "off" /\ \A r \in Request : posts[r].state = "unsent"
  /\ phase = "initialize" => posts["initialized"].state = "unsent"
  /\ phase = "ordered" => version
  /\ phase = "running" =>
       /\ version /\ opened \in {session, None}
       /\ posts["initialized"].state = "done" /\ posts["initialized"].end \in {"ok", "accepted"}
  /\ phase = "closed" => listener.state = "off" /\ \A p \in Post : posts[p] = Unsent
  /\ \A r \in Request : Delivered(r) =>
       /\ posts[r].version /\ posts[r].session \in {opened, session}
       /\ opened # None => posts[r].session = opened

\* What the steps of a task leave alone: it fixes its headers in its first, and no
\* response assigns a second session.
LEMMA PostStepKeeps ==
  ASSUME HttpTypeOK, NEW p \in Post, PostStep(p)
  PROVE  /\ phase # "closed" /\ posts[p].state \in {"spawned", "sent", "streaming"}
         /\ UNCHANGED <<phase, listener, version, opened>> /\ (session' = session \/ session = None)
         /\ \A q \in Post \ {p} : posts'[q] = posts[q]
         /\ posts[p].state = "spawned" =>
              session' = session /\ posts'[p].session = session /\ posts'[p].version = version
         /\ posts[p].state # "spawned" /\ p \notin Note =>
              posts'[p].session = posts[p].session /\ posts'[p].version = posts[p].version
<1>0. posts \in [Post -> PostType] /\ posts[p] \in PostType
  BY DEF HttpTypeOK, PostType
<1>. DEFINE Same(post) ==
       p \notin Note => post.session = posts[p].session /\ post.version = posts[p].version
<1>1. \A out, end : Same(FinishPost(posts[p], p, out, end))
  BY <1>0 DEF FinishPost, Over, PostType
<1>2. CASE StartPost(p)
  BY <1>0, <1>2 DEF StartPost, Open, PostType
<1>3. CASE Respond(p)
  <2>1. PICK post \in Responded(p, session') : posts' = [posts EXCEPT ![p] = post]
    BY <1>3 DEF Respond
  <2>2. Same([posts[p] EXCEPT !.state = "streaming"])
    BY <1>0 DEF PostType
  <2>3. \A item, end : Same(FinishPost([posts[p] EXCEPT !.answered = (item = Answer(p))], p, <<item>>, end))
    BY <1>0 DEF FinishPost, Over, PostType
  <2>4. Same(post)
    <3>1. CASE post = [posts[p] EXCEPT !.state = "streaming"]
      BY <2>2, <3>1
    <3>2. ASSUME NEW item \in Events, NEW end,
                 post = FinishPost([posts[p] EXCEPT !.answered = (item = Answer(p))], p, <<item>>, end)
          PROVE  Same(post)
      BY <2>3, <3>2
    <3>3. ASSUME NEW out, NEW end, post = FinishPost(posts[p], p, out, end)
          PROVE  Same(post)
      BY <1>1, <3>3
    <3>4. \/ post = [posts[p] EXCEPT !.state = "streaming"]
          \/ \E item \in Events, end \in {"failed", "ok"} :
               post = FinishPost([posts[p] EXCEPT !.answered = (item = Answer(p))], p, <<item>>, end)
          \/ \E out, end : post = FinishPost(posts[p], p, out, end)
      <4>1. \/ post \in {FinishPost(posts[p], p, <<>>, IF session' # None THEN "expired" ELSE "failed"),
                         FinishPost(posts[p], p, <<>>, "accepted"), FinishPost(posts[p], p, <<>>, "failed"),
                         FinishPost(posts[p], p, <<Other>>, "failed"), [posts[p] EXCEPT !.state = "streaming"]}
            \/ \E item \in Events :
                 post = FinishPost([posts[p] EXCEPT !.answered = (item = Answer(p))], p, <<item>>,
                                   IF p \in Asking /\ item # Answer(p) THEN "failed" ELSE "ok")
        BY DEF Responded
      <4>2. \A end : post = FinishPost(posts[p], p, <<>>, end) \/ post = FinishPost(posts[p], p, <<Other>>, end) =>
                     \E out, e : post = FinishPost(posts[p], p, out, e)
        OBVIOUS
      <4>3. ASSUME NEW item \in Events,
                   post = FinishPost([posts[p] EXCEPT !.answered = (item = Answer(p))], p, <<item>>,
                                     IF p \in Asking /\ item # Answer(p) THEN "failed" ELSE "ok")
            PROVE  \E it \in Events, end \in {"failed", "ok"} :
                     post = FinishPost([posts[p] EXCEPT !.answered = (it = Answer(p))], p, <<it>>, end)
        BY <4>3
      <4>. QED
        BY <4>1, <4>2, <4>3
    <3>. HIDE DEF Same
    <3>. QED
      BY <3>1, <3>2, <3>3, <3>4
  <2>5. session' = session \/ session = None
    BY <1>3 DEF Respond, Capture
  <2>. QED
    BY <1>0, <1>3, <2>1, <2>4, <2>5 DEF Respond, Open
<1>4. CASE PostFails(p)
  <2>1. posts' = [posts EXCEPT ![p] = FinishPost(posts[p], p, <<>>, "failed")]
    BY <1>0, <1>4 DEF PostFails
  <2>. QED
    BY <1>0, <1>1, <1>4, <2>1 DEF PostFails, Open
<1>5. CASE PostEvent(p)
  <2>1. PICK item \in Events :
          posts' = [posts EXCEPT ![p].out = <<item>>, ![p].answered = @ \/ item = Answer(p)]
    BY <1>5 DEF PostEvent
  <2>. QED
    BY <1>0, <1>5, <2>1 DEF PostEvent, Open, PostType
<1>6. CASE PostRetry(p)
  BY <1>0, <1>6 DEF PostRetry, Open
<1>7. CASE PostEnds(p)
  <2>1. PICK end \in {"ok", "failed"} : posts' = [posts EXCEPT ![p] = FinishPost(posts[p], p, <<>>, end)]
    BY <1>0, <1>7 DEF PostEnds
  <2>. QED
    BY <1>0, <1>1, <1>7, <2>1 DEF PostEnds, Open
<1>. QED
  BY <1>2, <1>3, <1>4, <1>5, <1>6, <1>7 DEF PostStep

LEMMA HandshakeKept ==
  ASSUME HttpTypeOK, HandshakeInv, [HttpNext]_httpVars
  PROVE  HandshakeInv'
<1>0. /\ posts \in [Post -> PostType] /\ listener \in ListenerType
      /\ "initialized" \in Post /\ \A r \in Request : r \in Post /\ r # "initialized" /\ r \notin Note
      /\ \A n \in Note : n \in Post /\ n # "initialized" /\ n \notin Request
  BY HttpAssumption DEF HttpTypeOK, PostType, ListenerType, Post, HttpAssumption
<1>1. ASSUME Close
      PROVE  HandshakeInv'
  BY <1>0, <1>1 DEF Close, HandshakeInv, NoListener, Unsent, Delivered
\* Nothing the invariant speaks of is touched.
<1>2. ASSUME UNCHANGED <<phase, session, version, opened>>, listener'.state = listener.state,
             \A p \in Post :
               /\ posts'[p].state = posts[p].state /\ posts'[p].session = posts[p].session
               /\ posts'[p].version = posts[p].version /\ posts'[p].end = posts[p].end,
             phase # "closed"
      PROVE  HandshakeInv'
  BY <1>0, <1>2 DEF HandshakeInv, Delivered
<1>3. ASSUME UNCHANGED <<phase, session, version, opened, posts>>, listener.state # "off", phase # "closed"
      PROVE  HandshakeInv'
  BY <1>0, <1>3 DEF HandshakeInv, Delivered
<1>4. ASSUME NEW p \in Request \cup Note, posts[p].state = "unsent", Spawn(p), phase # "closed",
             p \in Request => phase = "running", UNCHANGED <<phase, session, version, opened, listener>>
      PROVE  HandshakeInv'
  <2>1. \A q \in Post : q # p => posts'[q] = posts[q]
    BY <1>0, <1>4 DEF Spawn
  <2>2. posts'[p].state = "spawned"
    BY <1>0, <1>4 DEF Spawn, PostType
  <2>. QED
    BY <1>0, <1>4, <2>1, <2>2 DEF HandshakeInv, Delivered
<1>5. CASE UNCHANGED httpVars
  BY <1>5 DEF httpVars, HandshakeInv, Delivered
<1>6. CASE AwaitInitialize
  <2>1. CASE Close
    BY <1>1, <2>1
  <2>2. CASE /\ phase = "initialize" /\ phase' = "ordered" /\ version' = TRUE /\ Spawn("initialized")
             /\ UNCHANGED <<listener, session, opened>>
    <3>1. \A r \in Request : posts'[r] = posts[r]
      BY <1>0, <2>2 DEF Spawn
    <3>2. /\ listener'.state = "off"
          /\ \A r \in Request : posts'[r].state = "unsent" /\ ~Delivered(r)'
      BY <2>2, <3>1 DEF HandshakeInv, Delivered
    <3>3. version' /\ phase' = "ordered"
      BY <2>2
    <3>. QED
      BY <3>2, <3>3 DEF HandshakeInv
  <2>3. CASE phase = "initialize" /\ Pong /\ Take
    BY <1>0, <1>4, <2>3 DEF Pong, Take, Stay
  <2>4. CASE phase = "initialize" /\ UNCHANGED posts /\ Take
    BY <1>2, <2>4 DEF Take, Stay
  <2>. QED
    BY <1>6, <2>1, <2>2, <2>3, <2>4 DEF AwaitInitialize
<1>7. CASE Ordered
  <2>1. CASE Close
    BY <1>1, <2>1
  <2>2. CASE /\ phase = "ordered" /\ posts["initialized"].state = "done"
             /\ posts["initialized"].end \in {"ok", "accepted"}
             /\ phase' = "running" /\ opened' = session /\ UNCHANGED <<posts, session, version>>
    BY <1>0, <2>2 DEF HandshakeInv, Delivered
  <2>. QED
    BY <1>7, <2>1, <2>2 DEF Ordered
<1>8. CASE InitTimeout \/ HttpShutdown
  BY <1>1, <1>8 DEF InitTimeout, HttpShutdown
<1>9. CASE Receive
  <2>1. CASE Close
    BY <1>1, <2>1
  <2>2. CASE phase = "running" /\ Pong /\ Take
    BY <1>4, <2>2 DEF Pong, Take, Stay
  <2>3. CASE phase = "running" /\ UNCHANGED posts /\ Take
    BY <1>2, <2>3 DEF Take, Stay
  <2>. QED
    BY <1>9, <2>1, <2>2, <2>3 DEF Receive
<1>10. CASE HttpCommand
  BY <1>4, <1>10 DEF HttpCommand, Stay
<1>11. CASE ListenerStep
  BY <1>3, <1>11 DEF ListenerStep, GetRespond, GetEvent, GetEnds, Reconnect, Open
<1>12. CASE PushListener
  <2>1. listener'.state = listener.state
    BY <1>0, <1>12 DEF PushListener, ListenerType
  <2>. QED
    BY <1>2, <1>12, <2>1 DEF PushListener, Open
<1>13. ASSUME NEW p \in Post, PushPost(p)
       PROVE  HandshakeInv'
  <2>1. \A q \in Post :
          /\ posts'[q].state = posts[q].state /\ posts'[q].session = posts[q].session
          /\ posts'[q].version = posts[q].version /\ posts'[q].end = posts[q].end
    BY <1>0, <1>13 DEF PushPost, PostType
  <2>. QED
    BY <1>2, <1>13, <2>1 DEF PushPost, Open
<1>14. ASSUME NEW p \in Post, PostStep(p)
       PROVE  HandshakeInv'
  <2>1. /\ phase # "closed" /\ posts[p].state \in {"spawned", "sent", "streaming"}
        /\ UNCHANGED <<phase, listener, version, opened>> /\ (session' = session \/ session = None)
        /\ \A q \in Post \ {p} : posts'[q] = posts[q]
        /\ posts[p].state = "spawned" =>
             session' = session /\ posts'[p].session = session /\ posts'[p].version = version
        /\ posts[p].state # "spawned" /\ p \notin Note =>
             posts'[p].session = posts[p].session /\ posts'[p].version = posts[p].version
    BY <1>14, PostStepKeeps
  <2>2. phase \in {"initialize", "ordered", "running"}
    BY <2>1 DEF HttpTypeOK
  <2>3. \A r \in Request : posts[r].state # "unsent" => phase = "running" /\ version /\ opened \in {session, None}
    BY <2>1, <2>2 DEF HandshakeInv
  <2>4. \A r \in Request : Delivered(r)' =>
          /\ posts'[r].version /\ posts'[r].session \in {opened', session'}
          /\ opened' # None => posts'[r].session = opened'
    <3>1. ASSUME NEW r \in Request, r # p, Delivered(r)'
          PROVE  /\ posts'[r].version /\ posts'[r].session \in {opened', session'}
                 /\ opened' # None => posts'[r].session = opened'
      <4>1. posts'[r] = posts[r] /\ Delivered(r)
        BY <1>0, <2>1, <3>1 DEF Delivered
      <4>2. opened \in {session, None}
        BY <2>3, <4>1 DEF Delivered
      <4>. QED
        BY <2>1, <4>1, <4>2 DEF HandshakeInv
    <3>2. ASSUME p \in Request
          PROVE  /\ posts'[p].version /\ posts'[p].session \in {opened', session'}
                 /\ opened' # None => posts'[p].session = opened'
      <4>1. version /\ opened \in {session, None}
        BY <2>1, <2>3, <3>2
      <4>2. CASE posts[p].state = "spawned"
        BY <2>1, <4>1, <4>2
      <4>3. CASE posts[p].state # "spawned"
        <5>1. Delivered(p) /\ p \notin Note
          BY <1>0, <2>1, <3>2, <4>3 DEF Delivered
        <5>. QED
          BY <2>1, <3>2, <4>1, <4>3, <5>1 DEF HandshakeInv
      <4>. QED
        BY <4>2, <4>3
    <3>. QED
      BY <3>1, <3>2
  <2>5. phase = "running" => p # "initialized" /\ opened' \in {session', None}
    BY <2>1 DEF HandshakeInv
  <2>6. phase \in {"initialize", "ordered"} => p \notin Request
    BY <2>1 DEF HandshakeInv
  <2>7. phase = "initialize" => p # "initialized"
    BY <2>1 DEF HandshakeInv
  <2>. QED
    BY <1>0, <2>1, <2>4, <2>5, <2>6, <2>7 DEF HandshakeInv
<1>. QED
  BY <1>5, <1>6, <1>7, <1>8, <1>9, <1>10, <1>11, <1>12, <1>13, <1>14
     DEF HttpNext, Handshake, HttpActor

-----------------------------------------------------------------------------
(* HTTP: what a task owes its request *)

IsLast(out, item) == out # <<>> /\ out[Len(out)] = item

\* Only the POST of a request that is over makes an answer up, its own; what a body
\* carried is pushed before that; and a POST that is over without an answer has told why,
\* or is about to.  came is the answer that came first, over whether the session ended.
PostOwes(p, post, came, over) ==
  /\ \A i \in DOMAIN post.out :
       post.out[i].kind = "Synth" => post.out[i] = Synth(p) /\ post.state = "done"
  /\ p \in Asking =>
       /\ post.state \in {"unsent", "spawned", "sent"} => post.out = <<>> /\ ~post.answered
       /\ post.answered => came = "Answer" \/ (came = None /\ post.out = <<Answer(p)>>)
       /\ came = "Synth" => post.state = "done"
       /\ post.state = "done" =>
            \/ post.end = "ok" /\ post.answered
            \/ post.end = "accepted"
            \/ post.end = "expired" /\ (over \/ IsLast(post.out, Fatal))
            \/ post.end = "failed" /\ (came # None \/ IsLast(post.out, Synth(p)))

AnswersInv ==
  /\ \A p \in Post : PostOwes(p, posts[p], first[p], expired)
  /\ \A i \in DOMAIN listener.out : listener.out[i].kind # "Synth"

LEMMA FinishedOwes ==
  ASSUME NEW p \in Post, NEW post \in PostType, NEW came, NEW over,
         NEW pushes \in Seq(Items), \A i \in DOMAIN pushes : pushes[i].kind # "Synth",
         NEW end \in {"ok", "accepted", "expired", "failed"}, p \in Asking => came # "Synth",
         p \in Asking /\ end = "ok" => post.answered,
         p \in Asking /\ post.answered =>
           came = "Answer" \/ (came = None /\ pushes = <<Answer(p)>> /\ end = "ok")
  PROVE  PostOwes(p, FinishPost(post, p, pushes, end), came, over)
<1>. DEFINE told == Resolution(p, end)
            out == pushes \o told
            new == FinishPost(post, p, pushes, end)
<1>0. p \in Asking => p # "initialized" /\ p \notin Note
  BY HttpAssumption DEF Asking, HttpAssumption
<1>1. /\ told = <<>> \/ told = <<Fatal>> \/ (told = <<Synth(p)>> /\ p \in Asking)
      /\ end = "ok" => told = <<>>
      /\ p \in Asking /\ end = "expired" => told = <<Fatal>>
      /\ p \in Asking /\ end = "failed" => told = <<Synth(p)>>
  BY <1>0 DEF Resolution
<1>2. told \in Seq(Items) /\ (Len(told) = 0 \/ Len(told) = 1)
  <2>1. /\ \A item \in Items : <<item>> \in Seq(Items) /\ Len(<<item>>) = 1
        /\ <<>> \in Seq(Items) /\ Len(<<>>) = 0
    OBVIOUS
  <2>2. Fatal \in Items /\ (p \in Asking => Synth(p) \in Items)
    BY ItemTypes
  <2>. QED
    BY <1>1, <2>1, <2>2
<1>3. /\ new.out = out /\ new.state = "done"
      /\ p \in Asking => new.end = end /\ new.answered = post.answered
  BY <1>0 DEF FinishPost, Over, Unsent, PostType
<1>4. /\ \A i \in 1 .. Len(pushes) : out[i] = pushes[i]
      /\ \A i \in 1 .. Len(told) : out[Len(pushes) + i] = told[i]
      /\ out \in Seq(Items) /\ Len(out) = Len(pushes) + Len(told) /\ DOMAIN out = 1 .. Len(out)
  BY <1>2
<1>. HIDE DEF told, out, new
<1>5. ASSUME NEW i \in DOMAIN out, out[i].kind = "Synth"
      PROVE  out[i] = Synth(p)
  <2>1. CASE i \in 1 .. Len(pushes)
    BY <1>4, <1>5, <2>1
  <2>2. CASE i \notin 1 .. Len(pushes)
    <3>1. Len(told) = 1 /\ i = Len(pushes) + 1
      <4>1. Len(pushes) \in Nat /\ Len(told) \in Nat /\ i \in 1 .. Len(pushes) + Len(told)
        BY <1>2, <1>4, <1>5
      <4>2. i \in Nat /\ i > Len(pushes) /\ i <= Len(pushes) + Len(told)
        BY <2>2, <4>1
      <4>3. \A m, n, k \in Nat : (n = 0 \/ n = 1) /\ k > m /\ k <= m + n => n = 1 /\ k = m + 1
        OBVIOUS
      <4>. QED
        BY <1>2, <4>1, <4>2, <4>3
    <3>2. out[i] = told[1]
      BY <1>4, <3>1
    <3>. QED
      BY <1>1, <1>5, <3>1, <3>2 DEF Fatal
  <2>. QED
    BY <2>1, <2>2
<1>6. \A item : told = <<item>> => IsLast(out, item)
  BY <1>4 DEF IsLast
<1>7. pushes = <<Answer(p)>> /\ end = "ok" => out = <<Answer(p)>>
  BY <1>1 DEF out
<1>. QED
  BY <1>1, <1>3, <1>5, <1>6, <1>7 DEF PostOwes, new

\* That an answer of the server's comes first, or that the session ends, owes nobody more.
LEMMA OwesNoMore ==
  ASSUME NEW p \in Post, NEW post \in PostType, NEW came, NEW after, NEW over \in BOOLEAN, NEW later \in BOOLEAN,
         PostOwes(p, post, came, over), over => later,
         p \in Asking => after = came \/ (came = None /\ after = "Answer")
  PROVE  PostOwes(p, post, after, later)
<1>1. "Answer" # None /\ post.answered \in BOOLEAN
  BY HttpAssumption DEF HttpAssumption, PostType
<1>2. CASE p \in Asking
  <2>1. CASE after = came
    BY <1>1, <2>1 DEF PostOwes
  <2>2. CASE came = None /\ after = "Answer"
    BY <1>1, <2>2 DEF PostOwes
  <2>. QED
    BY <1>2, <2>1, <2>2
<1>3. CASE p \notin Asking
  BY <1>3 DEF PostOwes
<1>. QED
  BY <1>2, <1>3

LEMMA LastOfTail ==
  ASSUME NEW out \in Seq(Items), NEW item, IsLast(out, item), Head(out) # item
  PROVE  IsLast(Tail(out), item)
<1>1. /\ Len(out) > 1 /\ Tail(out)[Len(out) - 1] = out[Len(out)]
      /\ Tail(out) \in Seq(Items) /\ Len(Tail(out)) = Len(out) - 1
  BY DEF IsLast
<1>2. Tail(out) # <<>>
  BY <1>1
<1>3. Tail(out)[Len(Tail(out))] = item
  BY <1>1 DEF IsLast
<1>. QED
  BY <1>2, <1>3 DEF IsLast

\* What is pushed when it is not made up, and who learns of it.
LEMMA PushedAnswers ==
  ASSUME HttpTypeOK, NEW item \in Items, PushItem(item)
  PROVE  /\ expired \in BOOLEAN /\ expired' \in BOOLEAN /\ (expired => expired')
         /\ item = Fatal => expired'
         /\ \A q \in Asking :
              /\ first'[q] \in {None, "Answer", "Synth"}
              /\ first'[q] = first[q] \/ first[q] = None
              /\ first'[q] # first[q] => item = [kind |-> first'[q], to |-> q]
              /\ item = Answer(q) \/ item = Synth(q) => first'[q] # None
              /\ item = Answer(q) /\ first[q] = None => first'[q] = "Answer"
<1>1. first \in [Asking -> {None, "Answer", "Synth"}] /\ expired \in BOOLEAN
  BY DEF HttpTypeOK
<1>2. /\ expired' = (expired \/ item = Fatal)
      /\ first' = IF item.kind \in {"Answer", "Synth"} /\ first[item.to] = None
                  THEN [first EXCEPT ![item.to] = item.kind] ELSE first
  BY DEF PushItem
<1>3. item.kind \in {"Answer", "Synth"} => item.to \in Asking /\ item = [kind |-> item.kind, to |-> item.to]
  BY DEF Items
<1>4. None \notin {"Answer", "Synth"}
  BY HttpAssumption DEF HttpAssumption
<1>5. /\ expired \in BOOLEAN /\ expired' \in BOOLEAN /\ (expired => expired')
      /\ item = Fatal => expired'
  BY <1>1, <1>2
<1>6. ASSUME NEW q \in Asking
      PROVE  /\ first'[q] \in {None, "Answer", "Synth"}
             /\ first'[q] = first[q] \/ first[q] = None
             /\ first'[q] # first[q] => item = [kind |-> first'[q], to |-> q]
             /\ item = Answer(q) \/ item = Synth(q) => first'[q] # None
             /\ item = Answer(q) /\ first[q] = None => first'[q] = "Answer"
  <2>1. CASE item.kind \in {"Answer", "Synth"} /\ first[item.to] = None
    <3>1. \A x \in Asking : first'[x] = IF x = item.to THEN item.kind ELSE first[x]
      BY <1>1, <1>2, <2>1
    <3>. QED
      BY <1>1, <1>3, <1>4, <2>1, <3>1 DEF Answer, Synth
  <2>2. CASE ~(item.kind \in {"Answer", "Synth"} /\ first[item.to] = None)
    <3>1. first' = first
      BY <1>2, <2>2
    <3>. QED
      BY <1>1, <2>2, <3>1 DEF Answer, Synth
  <2>. QED
    BY <2>1, <2>2
<1>. QED
  BY <1>5, <1>6

LEMMA PushedOwes ==
  ASSUME HttpTypeOK, NEW p \in Post, PushItem(Head(posts[p].out)), posts[p].out # <<>>,
         PostOwes(p, posts[p], first[p], expired)
  PROVE  PostOwes(p, [posts[p] EXCEPT !.out = Tail(@)], first'[p], expired')
<1>. DEFINE post == posts[p]
            new == [posts[p] EXCEPT !.out = Tail(@)]
            item == Head(post.out)
<1>1. /\ post \in PostType /\ post.out \in Seq(Items) /\ item \in Items /\ item = post.out[1]
      /\ 1 \in DOMAIN post.out
      /\ new.out = Tail(post.out) /\ new.state = post.state /\ new.answered = post.answered /\ new.end = post.end
  BY DEF HttpTypeOK, PostType
<1>2. /\ Tail(post.out) \in Seq(Items) /\ DOMAIN Tail(post.out) = 1 .. Len(post.out) - 1
      /\ \A i \in DOMAIN Tail(post.out) : i + 1 \in DOMAIN post.out /\ Tail(post.out)[i] = post.out[i + 1]
  BY <1>1
<1>. HIDE DEF post, new, item
<1>3. /\ expired => expired'
      /\ item = Fatal => expired'
      /\ p \in Asking =>
              /\ first'[p] \in {None, "Answer", "Synth"}
              /\ first'[p] = first[p] \/ first[p] = None
              /\ first'[p] # first[p] => item = [kind |-> first'[p], to |-> p]
              /\ item = Answer(p) \/ item = Synth(p) => first'[p] # None
              /\ item = Answer(p) /\ first[p] = None => first'[p] = "Answer"
  BY <1>1, PushedAnswers DEF item, post
<1>4. \A i \in DOMAIN new.out : new.out[i].kind = "Synth" => new.out[i] = Synth(p) /\ new.state = "done"
  BY <1>1, <1>2 DEF PostOwes, post
<1>5. CASE p \in Asking
  <2>1. item = Synth(p) => new.state = "done" /\ (post.answered => first[p] # None)
    <3>1. Synth(p).kind = "Synth" /\ Answer(p).kind = "Answer" /\ "Answer" # None
      BY HttpAssumption DEF Synth, Answer, HttpAssumption
    <3>2. post.out = <<Answer(p)>> => item = Answer(p)
      BY <1>1
    <3>3. post.answered => first[p] = "Answer" \/ post.out = <<Answer(p)>>
      BY <1>5 DEF PostOwes, post
    <3>4. item = Synth(p) => post.state = "done"
      BY <1>1, <3>1 DEF PostOwes, post
    <3>. QED
      BY <1>1, <3>1, <3>2, <3>3, <3>4
  <2>2. new.state \notin {"unsent", "spawned", "sent"}
    BY <1>1, <1>5 DEF PostOwes, post
  <2>3. new.answered => first'[p] = "Answer"
    BY <1>1, <1>3, <1>5, <2>1 DEF PostOwes, post, Answer, Synth
  <2>4. first'[p] = "Synth" => new.state = "done"
    BY <1>1, <1>3, <1>5, <2>1 DEF PostOwes, post, Synth
  <2>5. \A last : IsLast(post.out, last) => IsLast(new.out, last) \/ item = last
    BY <1>1, LastOfTail DEF item
  <2>6. first[p] # None => first'[p] # None
    BY <1>3, <1>5
  <2>7. new.state = "done" =>
            \/ new.end = "ok" /\ new.answered
            \/ new.end = "accepted"
            \/ new.end = "expired" /\ (expired' \/ IsLast(new.out, Fatal))
            \/ new.end = "failed" /\ (first'[p] # None \/ IsLast(new.out, Synth(p)))
    <3>1. CASE post.end = "expired" /\ (expired \/ IsLast(post.out, Fatal))
      BY <1>1, <1>3, <2>5, <3>1
    <3>2. CASE post.end = "failed" /\ (first[p] # None \/ IsLast(post.out, Synth(p)))
      <4>1. IsLast(post.out, Synth(p)) => IsLast(new.out, Synth(p)) \/ first'[p] # None
        BY <1>3, <1>5, <2>5
      <4>. QED
        BY <1>1, <2>6, <3>2, <4>1
    <3>. QED
      BY <1>1, <1>5, <3>1, <3>2 DEF PostOwes, post
  <2>. QED
    BY <1>4, <2>2, <2>3, <2>4, <2>7 DEF PostOwes, new
<1>6. CASE p \notin Asking
  BY <1>4, <1>6 DEF PostOwes, new
<1>. QED
  BY <1>5, <1>6

\* A POST of which nothing is known owes nothing.
LEMMA BlankOwes ==
  ASSUME NEW p \in Post, NEW came, NEW over, p \in Asking => came = None
  PROVE  PostOwes(p, Unsent, came, over) /\ PostOwes(p, [Unsent EXCEPT !.state = "spawned"], came, over)
  BY HttpAssumption DEF PostOwes, Unsent, HttpAssumption

\* The steps of a task but its pushes.
LEMMA StepOwes ==
  ASSUME HttpTypeOK, NEW p \in Post, PostOwes(p, posts[p], first[p], expired), PostStep(p)
  PROVE  /\ \E post \in PostType : posts' = [posts EXCEPT ![p] = post] /\ PostOwes(p, post, first[p], expired)
         /\ UNCHANGED <<listener, first, expired>>
<1>. DEFINE Good(post) == post \in PostType /\ PostOwes(p, post, first[p], expired)
<1>0. /\ posts \in [Post -> PostType] /\ posts[p] \in PostType
      /\ <<>> \in Seq(Items) /\ \A i \in DOMAIN <<>> : <<>>[i].kind # "Synth"
      /\ p \in Asking => p \notin Note
      /\ "Answer" # None /\ "Synth" # None
  BY HttpAssumption DEF HttpTypeOK, PostType, HttpAssumption, Asking
<1>1. UNCHANGED <<listener, first, expired>>
  BY DEF PostStep, StartPost, Respond, PostFails, PostEvent, PostRetry, PostEnds
<1>2. SUFFICES \E post : posts' = [posts EXCEPT ![p] = post] /\ Good(post)
  BY <1>1
<1>3. CASE StartPost(p)
  <2>. DEFINE post == [posts[p] EXCEPT !.state = "sent", !.session = session, !.version = version]
  <2>1. post \in PostType /\ post.state = "sent" /\ post.out = posts[p].out /\ post.answered = posts[p].answered
    BY <1>0 DEF PostType, HttpTypeOK
  <2>2. posts' = [posts EXCEPT ![p] = post] /\ posts[p].state = "spawned"
    BY <1>3 DEF StartPost
  <2>. HIDE DEF post
  <2>3. PostOwes(p, post, first[p], expired)
    BY <2>1, <2>2 DEF PostOwes
  <2>. QED
    BY <2>1, <2>2, <2>3
<1>4. ASSUME posts[p].state \in {"sent", "streaming"}, p \in Asking => posts[p].out = <<>>,
             NEW end \in {"ok", "accepted", "expired", "failed"},
             p \in Asking /\ end = "ok" => posts[p].answered
      PROVE  Good(FinishPost(posts[p], p, <<>>, end))
  <2>1. p \in Asking => /\ first[p] # "Synth"
                        /\ posts[p].answered => first[p] = "Answer"
    BY <1>4 DEF PostOwes
  <2>2. FinishPost(posts[p], p, <<>>, end) \in PostType
    BY <1>0, FinishedType
  <2>3. PostOwes(p, FinishPost(posts[p], p, <<>>, end), first[p], expired)
    BY <1>0, <1>4, <2>1, FinishedOwes
  <2>. QED
    BY <2>2, <2>3
<1>5. CASE Respond(p)
  <2>1. PICK post \in Responded(p, session') : posts' = [posts EXCEPT ![p] = post]
    BY <1>5 DEF Respond
  <2>2. posts[p].state = "sent" /\ (p \in Asking => posts[p].out = <<>> /\ ~posts[p].answered /\ first[p] # "Synth")
    BY <1>5 DEF Respond, PostOwes
  <2>3. ASSUME NEW pushes \in Seq(Items), \A i \in DOMAIN pushes : pushes[i].kind # "Synth",
               NEW old \in PostType, NEW end \in {"ok", "accepted", "expired", "failed"},
               p \in Asking /\ end = "ok" => old.answered,
               p \in Asking /\ old.answered => pushes = <<Answer(p)>> /\ end = "ok" /\ first[p] # "Synth",
               post = FinishPost(old, p, pushes, end)
        PROVE  Good(post)
    <3>1. p \in Asking => first[p] \in {None, "Answer", "Synth"}
      BY DEF HttpTypeOK
    <3>2. p \in Asking /\ old.answered =>
            first[p] = "Answer" \/ (first[p] = None /\ pushes = <<Answer(p)>> /\ end = "ok")
      BY <2>3, <3>1
    <3>3. PostOwes(p, FinishPost(old, p, pushes, end), first[p], expired)
      BY <2>2, <2>3, <3>2, FinishedOwes
    <3>4. FinishPost(old, p, pushes, end) \in PostType
      BY <2>3, FinishedType
    <3>. QED
      BY <2>3, <3>3, <3>4
  <2>4. ASSUME post \in {FinishPost(posts[p], p, <<>>, IF session' # None THEN "expired" ELSE "failed"),
                         FinishPost(posts[p], p, <<>>, "accepted"), FinishPost(posts[p], p, <<>>, "failed")}
        PROVE  Good(post)
    BY <1>0, <2>2, <2>3, <2>4
  <2>5. ASSUME post = FinishPost(posts[p], p, <<Other>>, "failed")
        PROVE  Good(post)
    <3>1. <<Other>> \in Seq(Items) /\ \A i \in DOMAIN <<Other>> : <<Other>>[i].kind # "Synth"
      BY ItemTypes DEF Other
    <3>. QED
      BY <1>0, <2>2, <2>3, <2>5, <3>1
  <2>6. ASSUME post = [posts[p] EXCEPT !.state = "streaming"]
        PROVE  Good(post)
    <3>1. post \in PostType /\ post.state = "streaming" /\ post.out = posts[p].out /\ post.answered = posts[p].answered
      BY <1>0, <2>6 DEF PostType
    <3>2. PostOwes(p, post, first[p], expired)
      BY <2>2, <3>1 DEF PostOwes
    <3>. QED
      BY <3>1, <3>2
  <2>7. ASSUME NEW item \in Events,
               post = FinishPost([posts[p] EXCEPT !.answered = (item = Answer(p))], p, <<item>>,
                                 IF p \in Asking /\ item # Answer(p) THEN "failed" ELSE "ok")
        PROVE  Good(post)
    <3>. DEFINE old == [posts[p] EXCEPT !.answered = (item = Answer(p))]
    <3>1. old \in PostType /\ old.answered = (item = Answer(p))
      BY <1>0 DEF PostType
    <3>2. <<item>> \in Seq(Items) /\ \A i \in DOMAIN <<item>> : <<item>>[i].kind # "Synth"
      BY EventTypes
    <3>. HIDE DEF old
    <3>3. post = FinishPost(old, p, <<item>>, IF p \in Asking /\ item # Answer(p) THEN "failed" ELSE "ok")
      BY <2>7 DEF old
    <3>. QED
      BY <2>2, <2>3, <3>1, <3>2, <3>3
  <2>8. Good(post)
    BY <2>4, <2>5, <2>6, <2>7 DEF Responded
  <2>. QED
    BY <2>1, <2>8
<1>6. CASE PostFails(p)
  <2>1. posts' = [posts EXCEPT ![p] = FinishPost(posts[p], p, <<>>, "failed")]
    BY <1>0, <1>6 DEF PostFails
  <2>2. posts[p].state = "sent" /\ (p \in Asking => posts[p].out = <<>>)
    BY <1>6 DEF PostFails, PostOwes
  <2>. QED
    BY <1>4, <2>1, <2>2
<1>7. CASE PostEvent(p)
  <2>1. PICK item \in Events :
          posts' = [posts EXCEPT ![p].out = <<item>>, ![p].answered = @ \/ item = Answer(p)]
    BY <1>7 DEF PostEvent
  <2>. DEFINE post == [posts[p] EXCEPT !.out = <<item>>, !.answered = @ \/ item = Answer(p)]
  <2>2. <<item>> \in Seq(Items) /\ item.kind # "Synth"
    BY EventTypes
  <2>3. /\ post \in PostType /\ post.state = "streaming" /\ post.out = <<item>>
        /\ post.answered => posts[p].answered \/ item = Answer(p)
    BY <1>0, <1>7, <2>2 DEF PostType, PostEvent
  <2>4. posts' = [posts EXCEPT ![p] = post]
    BY <1>0, <2>1 DEF PostType
  <2>. HIDE DEF post
  <2>5. p \in Asking => first[p] \in {None, "Answer", "Synth"} /\ first[p] # "Synth"
    BY <1>7 DEF HttpTypeOK, PostOwes, PostEvent
  <2>6. p \in Asking /\ posts[p].answered => first[p] = "Answer"
    BY <1>7 DEF PostOwes, PostEvent
  <2>7. PostOwes(p, post, first[p], expired)
    BY <2>2, <2>3, <2>5, <2>6 DEF PostOwes
  <2>. QED
    BY <2>3, <2>4, <2>7
<1>8. CASE PostRetry(p)
  <2>1. posts' = [posts EXCEPT ![p] = posts[p]]
    BY <1>0, <1>8 DEF PostRetry
  <2>. QED
    BY <1>0, <2>1
<1>9. CASE PostEnds(p)
  <2>1. /\ posts[p].state = "streaming" /\ posts[p].out = <<>>
        /\ \/ posts' = [posts EXCEPT ![p] = FinishPost(posts[p], p, <<>>,
                                          IF p \in Asking /\ ~posts[p].answered THEN "failed" ELSE "ok")]
           \/ posts' = [posts EXCEPT ![p] = FinishPost(posts[p], p, <<>>, "failed")]
    BY <1>0, <1>9 DEF PostEnds
  <2>. QED
    BY <1>4, <2>1
<1>. QED
  BY <1>3, <1>5, <1>6, <1>7, <1>8, <1>9 DEF PostStep


\* Every step of the whole keeps what is owed.
LEMMA AnswersKept ==
  ASSUME HttpTypeOK, HandshakeInv, AnswersInv, [HttpNext]_httpVars
  PROVE  AnswersInv'
<1>0. /\ posts \in [Post -> PostType] /\ listener \in ListenerType
      /\ first \in [Asking -> {None, "Answer", "Synth"}] /\ expired \in BOOLEAN
  BY DEF HttpTypeOK, PostType, ListenerType
<1>1. \A p \in Post : PostOwes(p, posts[p], first[p], expired)
  BY DEF AnswersInv
<1>2. ASSUME UNCHANGED <<posts, first, expired>>
      PROVE  \A p \in Post : PostOwes(p, posts'[p], first'[p], expired')
  BY <1>1, <1>2
<1>3. ASSUME NEW p \in Post, NEW post \in PostType, posts' = [posts EXCEPT ![p] = post],
             PostOwes(p, post, first[p], expired), UNCHANGED <<first, expired>>
      PROVE  \A q \in Post : PostOwes(q, posts'[q], first'[q], expired')
  BY <1>0, <1>1, <1>3
<1>4. ASSUME NEW p \in Post, Spawn(p), posts[p].state = "unsent", UNCHANGED <<first, expired>>
      PROVE  \A q \in Post : PostOwes(q, posts'[q], first'[q], expired')
  <2>. DEFINE post == [posts[p] EXCEPT !.state = "spawned"]
  <2>1. post \in PostType /\ post.state = "spawned" /\ post.out = posts[p].out /\ post.answered = posts[p].answered
    BY <1>0 DEF PostType
  <2>2. posts' = [posts EXCEPT ![p] = post]
    BY <1>0, <1>4 DEF Spawn
  <2>. HIDE DEF post
  <2>3. PostOwes(p, posts[p], first[p], expired)
    BY <1>1
  <2>4. PostOwes(p, post, first[p], expired)
    BY <1>4, <2>1, <2>3 DEF PostOwes
  <2>. QED
    BY <1>3, <1>4, <2>1, <2>2, <2>4
<1>5. \A n \in Note : n \in Post
  BY DEF Post
<1>6. ASSUME Pong, UNCHANGED <<first, expired>>
      PROVE  \A p \in Post : PostOwes(p, posts'[p], first'[p], expired')
  BY <1>4, <1>5, <1>6 DEF Pong
<1>7. ASSUME NEW item \in Items, PushItem(item), item.kind # "Synth", NEW p \in Post
      PROVE  PostOwes(p, posts[p], first'[p], expired')
  <2>1. p \in Asking => first'[p] = first[p] \/ (first[p] = None /\ first'[p] = "Answer")
    BY <1>7, PushedAnswers
  <2>2. expired \in BOOLEAN /\ expired' \in BOOLEAN /\ (expired => expired')
    BY <1>7, PushedAnswers
  <2>. QED
    BY <1>0, <1>1, <2>1, <2>2, OwesNoMore
<1>. DEFINE Listens == \A i \in DOMAIN listener'.out : listener'.out[i].kind # "Synth"
<1>8. listener' = listener => Listens
  BY DEF AnswersInv
<1>9. SUFFICES (\A p \in Post : PostOwes(p, posts'[p], first'[p], expired')) /\ Listens
  BY DEF AnswersInv
<1>10. ASSUME Close
       PROVE  (\A p \in Post : PostOwes(p, posts'[p], first'[p], expired')) /\ Listens
  <2>1. \A p \in Asking : p \in Post
    BY DEF Asking, Post
  <2>2. \A p \in Post : posts'[p] = Unsent /\ (p \in Asking => first'[p] = None)
    BY <1>10, <2>1 DEF Close
  <2>3. \A p \in Post : PostOwes(p, posts'[p], first'[p], expired')
    BY <2>2, BlankOwes
  <2>. QED
    BY <1>10, <2>3 DEF Close, NoListener
<1>11. CASE UNCHANGED httpVars
  BY <1>2, <1>8, <1>11 DEF httpVars
<1>12. CASE AwaitInitialize
  <2>1. CASE Close
    BY <1>10, <2>1
  <2>2. CASE Spawn("initialized") /\ phase = "initialize" /\ UNCHANGED <<listener, first, expired>>
    <3>1. "initialized" \in Post /\ posts["initialized"].state = "unsent"
      BY <2>2 DEF HandshakeInv, Post
    <3>. QED
      BY <1>4, <1>8, <2>2, <3>1
  <2>3. CASE (Pong \/ UNCHANGED posts) /\ UNCHANGED <<listener, first, expired>>
    BY <1>2, <1>6, <1>8, <2>3
  <2>. QED
    BY <1>12, <2>1, <2>2, <2>3 DEF AwaitInitialize, Take, Stay
<1>13. CASE Ordered
  <2>1. CASE Close
    BY <1>10, <2>1
  <2>2. CASE /\ listener' = [listener EXCEPT !.state = "connecting"]
             /\ UNCHANGED <<posts, first, expired>>
    <3>1. listener'.out = listener.out
      BY <1>0, <2>2 DEF ListenerType
    <3>2. Listens
      BY <3>1 DEF AnswersInv
    <3>. QED
      BY <1>2, <2>2, <3>2
  <2>. QED
    BY <1>13, <2>1, <2>2 DEF Ordered
<1>14. CASE InitTimeout \/ HttpShutdown
  BY <1>10, <1>14 DEF InitTimeout, HttpShutdown
<1>15. CASE Receive
  <2>1. CASE Close
    BY <1>10, <2>1
  <2>2. CASE (Pong \/ UNCHANGED posts) /\ UNCHANGED <<listener, first, expired>>
    BY <1>2, <1>6, <1>8, <2>2
  <2>. QED
    BY <1>15, <2>1, <2>2 DEF Receive, Take, Stay
<1>16. CASE HttpCommand
  <2>1. PICK p \in Request \cup Note : posts[p].state = "unsent" /\ Spawn(p)
    BY <1>16 DEF HttpCommand
  <2>2. p \in Post /\ UNCHANGED <<listener, first, expired>>
    BY <1>16 DEF Post, HttpCommand, Stay
  <2>. QED
    BY <1>4, <1>8, <2>1, <2>2
<1>17. CASE ListenerStep
  <2>1. UNCHANGED <<posts, first, expired>>
    BY <1>17 DEF ListenerStep, GetRespond, GetEvent, GetEnds, Reconnect
  <2>2. \A pushes : listener' = [listener EXCEPT !.state = "stopped", !.out = pushes] => listener'.out = pushes
    BY <1>0 DEF ListenerType
  <2>3. \/ listener'.out = listener.out \/ listener'.out = <<>> \/ listener'.out = <<Fatal>>
        \/ \E item \in Events : listener'.out = <<item>>
    <3>1. CASE GetRespond
      BY <1>0, <2>2, <3>1 DEF GetRespond, Stop, TryAgain, ListenerType
    <3>2. CASE GetEvent
      BY <1>0, <3>2 DEF GetEvent, ListenerType
    <3>3. CASE GetEnds
      BY <1>0, <3>3 DEF GetEnds, TryAgain, ListenerType
    <3>4. CASE Reconnect
      BY <1>0, <3>4 DEF Reconnect, ListenerType
    <3>. QED
      BY <1>17, <3>1, <3>2, <3>3, <3>4 DEF ListenerStep
  <2>4. \A item : item.kind # "Synth" => \A i \in DOMAIN <<item>> : <<item>>[i].kind # "Synth"
    OBVIOUS
  <2>5. Fatal.kind # "Synth" /\ \A item \in Events : item.kind # "Synth"
    BY EventTypes DEF Fatal
  <2>6. Listens
    BY <2>3, <2>4, <2>5 DEF AnswersInv
  <2>. QED
    BY <1>2, <2>1, <2>6
<1>18. CASE PushListener
  <2>1. listener.out \in Seq(Items) /\ listener.out # <<>> /\ listener'.out = Tail(listener.out)
    BY <1>0, <1>18 DEF PushListener, ListenerType
  <2>2. /\ Head(listener.out) \in Items /\ Head(listener.out) = listener.out[1] /\ 1 \in DOMAIN listener.out
        /\ \A i \in DOMAIN Tail(listener.out) :
             i + 1 \in DOMAIN listener.out /\ Tail(listener.out)[i] = listener.out[i + 1]
    BY <2>1
  <2>3. Listens /\ Head(listener.out).kind # "Synth"
    BY <2>1, <2>2 DEF AnswersInv
  <2>4. PushItem(Head(listener.out)) /\ UNCHANGED posts
    BY <1>18 DEF PushListener
  <2>. QED
    BY <1>7, <2>2, <2>3, <2>4
<1>19. ASSUME NEW p \in Post, PushPost(p)
       PROVE  (\A q \in Post : PostOwes(q, posts'[q], first'[q], expired')) /\ Listens
  <2>. DEFINE item == Head(posts[p].out)
              post == [posts[p] EXCEPT !.out = Tail(@)]
  <2>1. /\ posts[p].out \in Seq(Items) /\ posts[p].out # <<>> /\ PushItem(item)
        /\ posts' = [posts EXCEPT ![p] = post] /\ UNCHANGED listener
    BY <1>0, <1>19 DEF PushPost, PostType
  <2>2. item \in Items /\ item = posts[p].out[1] /\ 1 \in DOMAIN posts[p].out
    BY <2>1
  <2>3. PostOwes(p, post, first'[p], expired')
    BY <1>1, <2>1, PushedOwes
  <2>4. item.kind = "Synth" => item = Synth(p)
    BY <1>1, <2>2 DEF PostOwes
  <2>5. ASSUME NEW q \in Post, q # p
        PROVE  PostOwes(q, posts[q], first'[q], expired')
    <3>1. CASE item.kind # "Synth"
      BY <1>7, <2>1, <2>2, <3>1
    <3>2. CASE item.kind = "Synth"
      <4>1. q \in Asking => first'[q] = first[q]
        <5>1. Synth(p).to = p
          BY DEF Synth
        <5>2. q \in Asking /\ first'[q] # first[q] => item = [kind |-> first'[q], to |-> q]
          BY <2>1, <2>2, PushedAnswers
        <5>. QED
          BY <2>4, <2>5, <3>2, <5>1, <5>2
      <4>2. expired \in BOOLEAN /\ expired' \in BOOLEAN /\ (expired => expired')
        BY <2>1, <2>2, PushedAnswers
      <4>. QED
        BY <1>0, <1>1, <4>1, <4>2, OwesNoMore
    <3>. QED
      BY <3>1, <3>2
  <2>6. posts'[p] = post /\ \A q \in Post : q # p => posts'[q] = posts[q]
    BY <1>0, <2>1
  <2>. QED
    BY <1>8, <2>1, <2>3, <2>5, <2>6
<1>20. ASSUME NEW p \in Post, PostStep(p)
       PROVE  (\A q \in Post : PostOwes(q, posts'[q], first'[q], expired')) /\ Listens
  BY <1>1, <1>3, <1>8, <1>20, StepOwes
<1>. QED
  BY <1>11, <1>12, <1>13, <1>14, <1>15, <1>16, <1>17, <1>18, <1>19, <1>20
     DEF HttpNext, Handshake, HttpActor

-----------------------------------------------------------------------------
(* HTTP: the theorems *)

HttpInv == HttpTypeOK /\ HandshakeInv /\ AnswersInv

LEMMA HttpInvInit == HttpInit \/ NoHttp => HttpInv
<1>1. HttpInit => HttpInv
  <2>1. SUFFICES ASSUME HttpInit PROVE HttpInv
    OBVIOUS
  <2>2. \A p \in Post : posts[p] = Unsent \/ (posts[p] = [Unsent EXCEPT !.state = "spawned"] /\ p = "initialize")
    BY <2>1 DEF HttpInit
  <2>3. [Unsent EXCEPT !.state = "spawned"] \in PostType
    BY BlankTypes DEF PostType
  <2>4. posts \in [Post -> PostType] /\ listener \in ListenerType
    BY <2>1, <2>2, <2>3, BlankTypes DEF HttpInit
  <2>5. HttpTypeOK
    <3>1. inbound \in Seq(Items) /\ Len(inbound) <= InboundQueue /\ budget \in 0 .. MaxItems
      BY <2>1, HttpAssumption DEF HttpInit, HttpAssumption
    <3>. QED
      BY <2>1, <2>4, <3>1 DEF HttpInit, HttpTypeOK, PostType, ListenerType
  <2>6. HandshakeInv
    <3>1. "initialized" \in Post /\ \A r \in Request : r \in Post /\ r # "initialize"
      BY HttpAssumption DEF Post, HttpAssumption
    <3>2. posts["initialized"] = Unsent /\ \A r \in Request : posts[r] = Unsent
      BY <2>2, <3>1
    <3>3. Unsent.state = "unsent" /\ listener.state = "off" /\ phase = "initialize"
      BY <2>1 DEF HttpInit, Unsent, NoListener
    <3>. QED
      BY <3>2, <3>3 DEF HandshakeInv, Delivered
  <2>7. AnswersInv
    <3>1. \A p \in Post : p \in Asking => first[p] = None
      BY <2>1 DEF HttpInit
    <3>2. \A p \in Post : PostOwes(p, posts[p], first[p], expired)
      BY <2>2, <3>1, BlankOwes
    <3>. QED
      BY <2>1, <3>2 DEF AnswersInv, HttpInit, NoListener
  <2>. QED
    BY <2>5, <2>6, <2>7 DEF HttpInv
<1>2. NoHttp => HttpInv
  <2>1. SUFFICES ASSUME NoHttp PROVE HttpInv
    OBVIOUS
  <2>2. \A p \in Post : posts[p] = Unsent
    BY <2>1 DEF NoHttp
  <2>3. posts \in [Post -> PostType] /\ listener \in ListenerType
    BY <2>1, BlankTypes DEF NoHttp
  <2>4. HttpTypeOK
    <3>1. inbound \in Seq(Items) /\ Len(inbound) <= InboundQueue /\ budget \in 0 .. MaxItems
      BY <2>1, HttpAssumption DEF NoHttp, HttpAssumption
    <3>. QED
      BY <2>1, <2>3, <3>1 DEF NoHttp, HttpTypeOK, PostType, ListenerType
  <2>5. HandshakeInv
    <3>1. \A r \in Request : posts[r] = Unsent
      BY <2>2 DEF Post
    <3>2. Unsent.state = "unsent" /\ listener.state = "off" /\ phase = "closed"
      BY <2>1 DEF NoHttp, Unsent, NoListener
    <3>. QED
      BY <2>2, <3>1, <3>2 DEF HandshakeInv, Delivered
  <2>6. AnswersInv
    <3>1. \A p \in Post : p \in Asking => first[p] = None
      BY <2>1 DEF NoHttp
    <3>2. \A p \in Post : PostOwes(p, posts[p], first[p], expired)
      BY <2>2, <3>1, BlankOwes
    <3>. QED
      BY <2>1, <3>2 DEF AnswersInv, NoHttp, NoListener
  <2>. QED
    BY <2>4, <2>5, <2>6 DEF HttpInv
<1>. QED
  BY <1>1, <1>2

LEMMA HttpInvKept == HttpInv /\ [HttpNext]_httpVars => HttpInv'
  BY HttpTypeKept, HandshakeKept, AnswersKept DEF HttpInv

LEMMA HttpInvHolds == HttpSpec => []HttpInv
  BY HttpInvInit, HttpInvKept, PTL DEF HttpSpec

\* Every POST, the listener and the channel keep their types, and the channel its bound.
THEOREM HttpTypes == HttpSpec => []HttpTypeOK
<1>1. HttpInv => HttpTypeOK
  BY DEF HttpInv
<1>. QED
  BY <1>1, HttpInvHolds, PTL

LEMMA AnswersFollow ==
  ASSUME HttpInv
  PROVE  FinishedPostsAnswer
<1>1. SUFFICES ASSUME NEW r \in Asking, posts[r].out = <<>>
               PROVE  /\ posts[r].state = "done" =>
                           \/ first[r] # None
                           \/ posts[r].end = "accepted"
                           \/ posts[r].end = "expired" /\ expired
                      /\ posts[r].answered => first[r] = "Answer"
  BY DEF FinishedPostsAnswer
<1>2. PostOwes(r, posts[r], first[r], expired)
  BY DEF HttpInv, AnswersInv, Asking, Post
<1>3. posts[r].out # <<Answer(r)>> /\ \A item : ~IsLast(posts[r].out, item)
  BY <1>1 DEF IsLast
<1>. QED
  BY <1>2, <1>3, HttpAssumption DEF PostOwes, HttpAssumption

\* A request whose POST is over has an answer or a reason for none, and an answer its body
\* carried comes before one made here (post_task, run_post).
THEOREM EveryPostAnswers == HttpSpec => []FinishedPostsAnswer
  BY AnswersFollow, HttpInvHolds, PTL

LEMMA OrderFollows ==
  ASSUME HttpInv
  PROVE  LifecycleInOrder
<1>1. phase \in {"initialize", "ordered", "running", "closed"} /\ HandshakeInv
  BY DEF HttpInv, HttpTypeOK
<1>2. ASSUME NEW r \in Request, Delivered(r)
      PROVE  posts["initialized"].end \in {"ok", "accepted"}
  <2>1. posts[r].state # "unsent" /\ posts[r] # Unsent /\ r \in Post
    BY <1>2 DEF Delivered, Unsent, Post
  <2>. QED
    BY <1>1, <2>1 DEF HandshakeInv
<1>3. listener.state # "off" =>
        /\ posts["initialized"].end \in {"ok", "accepted"} /\ version
        /\ opened # None => session = opened
  BY <1>1 DEF HandshakeInv
<1>. QED
  BY <1>1, <1>2, <1>3 DEF HandshakeInv, LifecycleInOrder

\* Requests and the GET stream wait for `initialized`, and go out with the version and the
\* session of the handshake (send_ordered, capture_session).
THEOREM HandshakeComesFirst == HttpSpec => []LifecycleInOrder
  BY OrderFollows, HttpInvHolds, PTL

-----------------------------------------------------------------------------
(* SSE *)

Plain == Symbol \ {"LF", "CR"}

Item ==
  [kind: {"Oversized", "InvalidUtf8", "Retry"}]
    \cup [kind: {"Event"}, type: Seq(Symbol) \cup {NoType}, data: Seq(Symbol)]

ParserType ==
  [line: Seq(Plain), data: Seq(Symbol \ {"CR"}), type: Seq(Symbol) \cup {NoType},
   oversized: BOOLEAN, invalid: BOOLEAN, swallow: BOOLEAN, atStart: BOOLEAN, items: Seq(Item)]

\* The parsers there can be: neither the line nor the data grows beyond the limit.
Parsers == {p \in ParserType : Len(p.line) <= MaxEvent /\ Len(p.data) <= MaxEvent}

LEMMA SameParser ==
  ASSUME NEW p \in Parsers, NEW q \in ParserType, q.line = p.line, q.data = p.data
  PROVE  q \in Parsers
  BY DEF Parsers

LEMMA ResetParses ==
  ASSUME NEW p \in ParserType, Len(p.line) <= MaxEvent
  PROVE  ResetEvent(p) \in Parsers
<1>1. <<>> \in Seq(Symbol \ {"CR"}) /\ Len(<<>>) = 0 /\ 0 <= MaxEvent
  BY SseAssumption DEF SseAssumption
<1>2. ResetEvent(p) \in ParserType /\ ResetEvent(p).line = p.line /\ ResetEvent(p).data = <<>>
  BY <1>1 DEF ResetEvent, ParserType
<1>. QED
  BY <1>1, <1>2 DEF Parsers

LEMMA DispatchParses ==
  ASSUME NEW p \in ParserType, Len(p.line) <= MaxEvent
  PROVE  Dispatch(p) \in Parsers
<1>. DEFINE item == IF p.invalid THEN <<InvalidUtf8>>
                    ELSE IF p.oversized THEN <<OversizedEvent>>
                    ELSE IF p.data # <<>> THEN <<Event(p.type, Front(p.data))>>
                    ELSE <<>>
            q == [p EXCEPT !.items = @ \o item]
<1>1. p.data \in Seq(Symbol) /\ p.type \in Seq(Symbol) \cup {NoType} /\ p.items \in Seq(Item)
  BY DEF ParserType
<1>2. p.data # <<>> => Event(p.type, Front(p.data)) \in Item
  <2>. SUFFICES ASSUME p.data # <<>> PROVE Event(p.type, Front(p.data)) \in Item
    OBVIOUS
  <2>1. Front(p.data) \in Seq(Symbol)
    BY <1>1 DEF Front
  <2>. QED
    BY <1>1, <2>1 DEF Event, Item
<1>3. InvalidUtf8 \in Item /\ OversizedEvent \in Item
  BY DEF InvalidUtf8, OversizedEvent, Item
<1>4. item \in Seq(Item)
  BY <1>2, <1>3
<1>. HIDE DEF item
<1>5. p.items \o item \in Seq(Item)
  BY <1>1, <1>4
<1>6. q \in ParserType /\ q.line = p.line
  BY <1>5 DEF ParserType
<1>7. Dispatch(p) = ResetEvent(q)
  BY DEF Dispatch, item
<1>. HIDE DEF q
<1>. QED
  BY <1>6, <1>7, ResetParses

LEMMA AddDataParses ==
  ASSUME NEW p \in Parsers, NEW value \in Seq(Plain)
  PROVE  AddData(p, value) \in Parsers
<1>1. p \in ParserType /\ p.data \in Seq(Symbol \ {"CR"}) /\ Len(p.line) <= MaxEvent /\ Len(p.data) <= MaxEvent
      /\ MaxEvent \in Nat
  BY SseAssumption DEF Parsers, ParserType, SseAssumption
<1>2. CASE Len(p.data) + Len(value) + 1 > MaxEvent
  <2>. DEFINE q == [p EXCEPT !.oversized = TRUE, !.data = <<>>]
  <2>1. <<>> \in Seq(Symbol \ {"CR"}) /\ Len(<<>>) <= MaxEvent
    BY <1>1
  <2>2. q \in ParserType /\ q.line = p.line /\ q.data = <<>>
    BY <1>1, <2>1 DEF ParserType
  <2>3. q \in Parsers
    BY <1>1, <2>1, <2>2 DEF Parsers
  <2>. QED
    BY <1>2, <2>3 DEF AddData
<1>3. CASE ~ (Len(p.data) + Len(value) + 1 > MaxEvent) /\ p.oversized
  BY <1>3 DEF AddData
<1>4. CASE ~ (Len(p.data) + Len(value) + 1 > MaxEvent) /\ ~p.oversized
  <2>. DEFINE longer == p.data \o value \o <<"LF">>  q == [p EXCEPT !.data = longer]
  <2>1. value \in Seq(Symbol \ {"CR"}) /\ <<"LF">> \in Seq(Symbol \ {"CR"})
    BY DEF Plain, Symbol
  <2>2. longer \in Seq(Symbol \ {"CR"}) /\ Len(longer) = Len(p.data) + Len(value) + 1
    BY <1>1, <2>1
  <2>3. Len(longer) <= MaxEvent
    BY <1>1, <1>4, <2>2
  <2>. HIDE DEF longer
  <2>4. q \in ParserType /\ q.line = p.line /\ q.data = longer
    BY <1>1, <2>2 DEF ParserType
  <2>5. q \in Parsers
    BY <1>1, <2>3, <2>4 DEF Parsers
  <2>. QED
    BY <1>4, <2>5 DEF AddData, longer
<1>. QED
  BY <1>2, <1>3, <1>4

LEMMA FieldParses ==
  ASSUME NEW p \in Parsers, NEW line \in Seq(Plain), line # <<>>
  PROVE  Field(p, line) \in Parsers
<1>1. Tail(line) \in Seq(Plain) /\ Tail(line) \in Seq(Symbol)
  BY DEF Plain
<1>2. p \in ParserType
  BY DEF Parsers
<1>3. CASE line[1] = "data"
  BY <1>1, <1>3, AddDataParses DEF Field
<1>4. CASE line[1] = "event"
  <2>. DEFINE q == [p EXCEPT !.type = Tail(line)]
  <2>1. q \in ParserType /\ q.line = p.line /\ q.data = p.data
    BY <1>1, <1>2 DEF ParserType
  <2>2. q \in Parsers
    BY <2>1 DEF Parsers
  <2>. QED
    BY <1>4, <2>2 DEF Field
<1>5. CASE line[1] = "retry" /\ Len(line) > 1 /\ \A i \in 2 .. Len(line) : line[i] = "x"
  <2>. DEFINE q == [p EXCEPT !.items = Append(@, Retry)]
  <2>1. Append(p.items, Retry) \in Seq(Item)
    <3>1. Retry \in Item /\ p.items \in Seq(Item)
      BY <1>2 DEF Retry, Item, ParserType
    <3>. QED
      BY <3>1
  <2>2. q \in ParserType /\ q.line = p.line /\ q.data = p.data
    BY <1>2, <2>1 DEF ParserType
  <2>3. q \in Parsers
    BY <2>2 DEF Parsers
  <2>. QED
    BY <1>5, <2>3 DEF Field
<1>6. CASE line[1] \notin {"data", "event", "retry"}
  BY <1>6 DEF Field
<1>7. CASE line[1] = "retry" /\ ~ (Len(line) > 1 /\ \A i \in 2 .. Len(line) : line[i] = "x")
  <2>. DEFINE isHint == line[1] = "retry" /\ Len(line) > 1 /\ \A i \in 2 .. Len(line) : line[i] = "x"
              hinted == [p EXCEPT !.items = Append(@, Retry)]
              typed == [p EXCEPT !.type = Tail(line)]
  <2>1. ~isHint /\ line[1] # "data" /\ line[1] # "event"
    BY <1>7
  <2>2. Field(p, line) = CASE line[1] = "data" -> AddData(p, Tail(line))
                            [] line[1] = "event" -> typed
                            [] isHint -> hinted
                            [] OTHER -> p
    BY DEF Field
  <2>. HIDE DEF isHint, hinted, typed
  <2>3. Field(p, line) = p
    BY <2>1, <2>2
  <2>. QED
    BY <2>3
<1>. QED
  BY <1>3, <1>4, <1>5, <1>6, <1>7

LEMMA EndLineParses ==
  ASSUME NEW p \in Parsers
  PROVE  EndLine(p) \in Parsers
<1>. DEFINE raw == p.line
            line == IF p.atStart /\ raw # <<>> /\ raw[1] = "BOM" THEN Tail(raw) ELSE raw
            q == [p EXCEPT !.line = <<>>, !.atStart = FALSE]
            r == [q EXCEPT !.invalid = TRUE]
<1>1. p \in ParserType /\ raw \in Seq(Plain) /\ Len(p.data) <= MaxEvent /\ <<>> \in Seq(Plain) /\ Len(<<>>) <= MaxEvent
  BY SseAssumption DEF Parsers, ParserType, SseAssumption
<1>2. line \in Seq(Plain)
  BY <1>1
<1>3. q \in ParserType /\ q.line = <<>> /\ q.data = p.data
  BY <1>1 DEF ParserType
<1>4. q \in Parsers
  BY <1>1, <1>3 DEF Parsers
<1>. HIDE DEF q, line
<1>5. r \in ParserType /\ r.line = q.line /\ r.data = q.data
  BY <1>3 DEF ParserType
<1>6. r \in Parsers
  BY <1>4, <1>5, SameParser
<1>7. Dispatch(q) \in Parsers
  BY <1>1, <1>3, DispatchParses
<1>8. line # <<>> => Field(q, line) \in Parsers
  BY <1>2, <1>4, FieldParses
<1>9. EndLine(p) = IF "bad" \in ToSet(raw) THEN r ELSE IF line = <<>> THEN Dispatch(q) ELSE Field(q, line)
  BY DEF EndLine, q, line
<1>. QED
  BY <1>6, <1>7, <1>8, <1>9

LEMMA StepParses ==
  ASSUME NEW p \in Parsers, NEW byte \in Symbol
  PROVE  Step(p, byte) \in Parsers
<1>1. p \in ParserType /\ p.line \in Seq(Plain) /\ Len(p.line) <= MaxEvent /\ Len(p.data) <= MaxEvent /\ MaxEvent \in Nat
  BY SseAssumption DEF Parsers, ParserType, SseAssumption
<1>2. CASE byte = "LF" /\ p.swallow
  <2>. DEFINE q == [p EXCEPT !.swallow = FALSE]
  <2>1. q \in ParserType /\ q.line = p.line /\ q.data = p.data
    BY <1>1 DEF ParserType
  <2>2. q \in Parsers
    BY <2>1, SameParser
  <2>. QED
    BY <1>2, <2>2 DEF Step
<1>3. CASE byte = "LF" /\ ~p.swallow
  BY <1>3, EndLineParses DEF Step
<1>4. CASE byte = "CR"
  <2>. DEFINE r == EndLine(p)  q == [r EXCEPT !.swallow = TRUE]
  <2>1. r \in Parsers /\ r \in ParserType
    BY EndLineParses DEF Parsers
  <2>2. Step(p, byte) = q
    BY <1>4 DEF Step
  <2>. HIDE DEF r
  <2>3. q \in ParserType /\ q.line = r.line /\ q.data = r.data
    BY <2>1 DEF ParserType
  <2>. QED
    BY <2>1, <2>2, <2>3, SameParser
<1>5. CASE byte \notin {"LF", "CR"} /\ Len(p.line) < MaxEvent
  <2>. DEFINE longer == Append(p.line, byte)  q == [p EXCEPT !.swallow = FALSE, !.line = longer]
  <2>1. byte \in Plain
    BY <1>5 DEF Plain
  <2>2. longer \in Seq(Plain) /\ Len(longer) = Len(p.line) + 1
    BY <1>1, <2>1
  <2>3. Len(longer) <= MaxEvent
    <3>1. Len(p.line) \in Nat
      BY <1>1
    <3>. QED
      BY <1>1, <1>5, <2>2, <3>1
  <2>4. Step(p, byte) = q
    BY <1>5 DEF Step
  <2>. HIDE DEF longer
  <2>5. q \in ParserType /\ q.line = longer /\ q.data = p.data
    BY <1>1, <2>2 DEF ParserType
  <2>. QED
    BY <1>1, <2>3, <2>4, <2>5 DEF Parsers
<1>6. CASE byte \notin {"LF", "CR"} /\ ~ (Len(p.line) < MaxEvent)
  <2>. DEFINE q == [p EXCEPT !.swallow = FALSE, !.oversized = TRUE]
  <2>1. q \in ParserType /\ q.line = p.line /\ q.data = p.data
    BY <1>1 DEF ParserType
  <2>2. Step(p, byte) = q
    BY <1>6 DEF Step
  <2>. QED
    BY <2>1, <2>2, SameParser
<1>. QED
  BY <1>2, <1>3, <1>4, <1>5, <1>6

-----------------------------------------------------------------------------
(* SSE: one sequence after another *)

\* What FlattenSeq computes on the way, for the first n.
Flat(f, seqs, n) == f = [i \in 1 .. n |-> IF i = 1 THEN seqs[i] ELSE f[i - 1] \o seqs[i]]

LEMMA FlatSteps ==
  ASSUME NEW f, NEW seqs, NEW n \in Nat, Flat(f, seqs, n)
  PROVE  /\ 1 \in 1 .. n => f[1] = seqs[1]
         /\ \A k \in Nat \ {0} : k + 1 \in 1 .. n => f[k + 1] = f[k] \o seqs[k + 1]
<1>1. ASSUME NEW i \in 1 .. n
      PROVE  f[i] = IF i = 1 THEN seqs[i] ELSE f[i - 1] \o seqs[i]
  BY DEF Flat
<1>2. ASSUME NEW k \in Nat \ {0}, k + 1 \in 1 .. n
      PROVE  f[k + 1] = f[k] \o seqs[k + 1]
  <2>1. k + 1 # 1 /\ (k + 1) - 1 = k
    OBVIOUS
  <2>. QED
    BY <1>1, <1>2, <2>1
<1>. QED
  BY <1>1, <1>2

LEMMA FlatExists ==
  ASSUME NEW seqs, NEW N \in Nat
  PROVE  \E f : Flat(f, seqs, N)
<1>. DEFINE S == {n \in Nat : \E f : Flat(f, seqs, n)}
<1>1. 0 \in S
  <2>1. Flat([i \in 1 .. 0 |-> i], seqs, 0)
    BY DEF Flat
  <2>. QED
    BY <2>1
<1>2. ASSUME NEW n \in Nat, n \in S
      PROVE  n + 1 \in S
  <2>1. PICK f : Flat(f, seqs, n)
    BY <1>2
  <2>. DEFINE g == [i \in 1 .. n + 1 |->
                      IF i # n + 1 THEN f[i] ELSE IF i = 1 THEN seqs[i] ELSE f[i - 1] \o seqs[i]]
  <2>2. ASSUME NEW i \in 1 .. n + 1
        PROVE  g[i] = IF i = 1 THEN seqs[i] ELSE g[i - 1] \o seqs[i]
    <3>1. CASE i = n + 1
      <4>1. i # 1 => i - 1 \in 1 .. n + 1 /\ i - 1 # n + 1
        OBVIOUS
      <4>2. i # 1 => g[i - 1] = f[i - 1]
        BY <4>1
      <4>3. g[i] = IF i = 1 THEN seqs[i] ELSE f[i - 1] \o seqs[i]
        BY <3>1
      <4>. HIDE DEF g
      <4>. QED
        BY <4>2, <4>3
    <3>2. CASE i # n + 1
      <4>1. i \in 1 .. n /\ (i # 1 => i - 1 \in 1 .. n + 1 /\ i - 1 # n + 1)
        BY <3>2
      <4>2. f[i] = IF i = 1 THEN seqs[i] ELSE f[i - 1] \o seqs[i]
        BY <2>1, <4>1 DEF Flat
      <4>3. g[i] = f[i] /\ (i # 1 => g[i - 1] = f[i - 1])
        BY <3>2, <4>1
      <4>. HIDE DEF g
      <4>. QED
        BY <4>2, <4>3
    <3>. QED
      BY <3>1, <3>2
  <2>3. g = [i \in 1 .. n + 1 |-> g[i]]
    OBVIOUS
  <2>. HIDE DEF g
  <2>4. Flat(g, seqs, n + 1)
    BY <2>2, <2>3 DEF Flat
  <2>. QED
    BY <2>4
<1>3. 0 .. N \subseteq S
  <2>1. \A n \in Nat : n < N /\ n \in S => n + 1 \in S
    BY <1>2
  <2>. HIDE DEF S
  <2>. QED
    BY <1>1, <2>1, Induct
<1>4. N \in S
  <2>. HIDE DEF S
  <2>. QED
    BY <1>3
<1>. QED
  BY <1>4

\* The sequences on the way, and that they depend on no later ones.
LEMMA FlatTypes ==
  ASSUME NEW S, NEW f, NEW seqs, NEW n \in Nat, Flat(f, seqs, n), \A i \in 1 .. n : seqs[i] \in Seq(S)
  PROVE  \A i \in 1 .. n : f[i] \in Seq(S)
<1>. DEFINE T == {k \in Nat : k \in 1 .. n => f[k] \in Seq(S)}
<1>1. 0 \in T
  OBVIOUS
<1>2. ASSUME NEW k \in Nat, k < n, k \in T
      PROVE  k + 1 \in T
  <2>1. CASE k = 0
    <3>1. 1 \in 1 .. n /\ k + 1 = 1
      BY <1>2, <2>1
    <3>2. f[1] = seqs[1]
      BY <3>1, FlatSteps
    <3>. QED
      BY <3>1, <3>2
  <2>2. CASE k # 0
    <3>1. k + 1 \in 1 .. n /\ k \in Nat \ {0} /\ k \in 1 .. n /\ k + 1 \in Nat
      BY <1>2, <2>2
    <3>2. f[k + 1] = f[k] \o seqs[k + 1]
      BY <3>1, FlatSteps
    <3>3. f[k] \in Seq(S) /\ seqs[k + 1] \in Seq(S)
      BY <1>2, <3>1
    <3>4. f[k + 1] \in Seq(S)
      BY <3>2, <3>3
    <3>. QED
      BY <3>1, <3>4
  <2>. QED
    BY <2>1, <2>2
<1>3. 0 .. n \subseteq T
  <2>. HIDE DEF T
  <2>. QED
    BY <1>1, <1>2, Induct
<1>. QED
  BY <1>3

LEMMA FlatAgree ==
  ASSUME NEW f, NEW g, NEW s, NEW r, NEW n \in Nat, NEW m \in Nat, n <= m,
         Flat(f, s, n), Flat(g, r, m), \A i \in 1 .. n : r[i] = s[i]
  PROVE  \A i \in 1 .. n : g[i] = f[i]
<1>. DEFINE T == {k \in Nat : k \in 1 .. n => g[k] = f[k]}
<1>1. 0 \in T
  OBVIOUS
<1>2. ASSUME NEW k \in Nat, k < n, k \in T
      PROVE  k + 1 \in T
  <2>1. CASE k = 0
    <3>1. 1 \in 1 .. n /\ 1 \in 1 .. m /\ k + 1 = 1
      BY <1>2, <2>1
    <3>2. f[1] = s[1]
      BY <3>1, FlatSteps, ZenonT(60)
    <3>3. g[1] = r[1]
      BY <3>1, FlatSteps, ZenonT(60)
    <3>4. r[1] = s[1]
      BY <3>1
    <3>. QED
      BY <3>1, <3>2, <3>3, <3>4
  <2>2. CASE k # 0
    <3>1. /\ k + 1 \in 1 .. n /\ k + 1 \in 1 .. m /\ k + 1 \in Nat
          /\ k \in Nat \ {0} /\ k \in 1 .. n
      BY <1>2, <2>2
    <3>2. f[k + 1] = f[k] \o s[k + 1]
      BY <3>1, FlatSteps, ZenonT(60)
    <3>3. g[k + 1] = g[k] \o r[k + 1]
      BY <3>1, FlatSteps, ZenonT(60)
    <3>4. g[k] = f[k] /\ r[k + 1] = s[k + 1]
      BY <1>2, <3>1
    <3>. QED
      BY <3>1, <3>2, <3>3, <3>4
  <2>. QED
    BY <2>1, <2>2
<1>3. 0 .. n \subseteq T
  <2>. HIDE DEF T
  <2>. QED
    BY <1>1, <1>2, Induct
<1>. QED
  BY <1>3

LEMMA FlattenIs ==
  ASSUME NEW seqs, Len(seqs) \in Nat, Len(seqs) # 0
  PROVE  \E f : Flat(f, seqs, Len(seqs)) /\ FlattenSeq(seqs) = f[Len(seqs)]
<1>. DEFINE N == Len(seqs)
            f == CHOOSE g : Flat(g, seqs, N)
<1>1. Flat(f, seqs, N)
  <2>1. \E g : Flat(g, seqs, N)
    BY FlatExists
  <2>. QED
    BY <2>1, Zenon
<1>2. FlattenSeq(seqs) = f[N]
  BY DEF FlattenSeq, Flat
<1>. HIDE DEF f
<1>. QED
  BY <1>1, <1>2

LEMMA FlattenNone == FlattenSeq(<<>>) = <<>>
BY DEF FlattenSeq

LEMMA FlattenType ==
  ASSUME NEW S, NEW seqs \in Seq(Seq(S))
  PROVE  FlattenSeq(seqs) \in Seq(S)
<1>1. CASE Len(seqs) = 0
  <2>1. seqs = <<>> /\ <<>> \in Seq(S)
    BY <1>1
  <2>2. FlattenSeq(seqs) = <<>>
    BY <2>1, FlattenNone
  <2>. QED
    BY <2>1, <2>2
<1>2. CASE Len(seqs) # 0
  <2>1. PICK f : Flat(f, seqs, Len(seqs)) /\ FlattenSeq(seqs) = f[Len(seqs)]
    BY <1>2, FlattenIs
  <2>2. \A i \in 1 .. Len(seqs) : seqs[i] \in Seq(S)
    OBVIOUS
  <2>. QED
    BY <1>2, <2>1, <2>2, FlatTypes, SMTT(30)
<1>. QED
  BY <1>1, <1>2

LEMMA FlattenAppend ==
  ASSUME NEW S, NEW seqs \in Seq(Seq(S)), NEW last \in Seq(S)
  PROVE  FlattenSeq(Append(seqs, last)) = FlattenSeq(seqs) \o last
<1>. DEFINE N == Len(seqs)
            more == Append(seqs, last)
<1>1. Len(more) = N + 1 /\ N \in Nat /\ more[N + 1] = last /\ \A i \in 1 .. N : more[i] = seqs[i]
  OBVIOUS
<1>. HIDE DEF more
<1>2. PICK g : Flat(g, more, N + 1) /\ FlattenSeq(more) = g[N + 1]
  BY <1>1, FlattenIs
<1>. HIDE DEF N
<1>3. CASE N = 0
  <2>1. seqs = <<>>
    BY <1>3 DEF N
  <2>2. g[1] = last
    <3>1. 1 \in 1 .. N + 1 /\ N + 1 = 1 /\ N + 1 \in Nat
      BY <1>3
    <3>2. g[1] = more[1]
      BY <1>2, <3>1, FlatSteps
    <3>. QED
      BY <1>1, <3>1, <3>2
  <2>3. FlattenSeq(more) = last
    BY <1>2, <1>3, <2>2
  <2>. QED
    BY <2>1, <2>3, FlattenNone DEF more
<1>4. CASE N # 0
  <2>1. PICK f : Flat(f, seqs, N) /\ FlattenSeq(seqs) = f[N]
    BY <1>1, <1>4, FlattenIs DEF N
  <2>2. g[N] = f[N]
    <3>1. N + 1 \in Nat /\ N <= N + 1 /\ N \in 1 .. N
      BY <1>1, <1>4
    <3>2. \A i \in 1 .. N : g[i] = f[i]
      BY <1>1, <1>2, <2>1, <3>1, FlatAgree
    <3>. QED
      BY <3>1, <3>2
  <2>3. g[N + 1] = g[N] \o last
    <3>1. N + 1 \in Nat /\ N \in Nat \ {0} /\ N + 1 \in 1 .. N + 1
      BY <1>1, <1>4
    <3>2. g[N + 1] = g[N] \o more[N + 1]
      BY <1>2, <3>1, FlatSteps
    <3>. QED
      BY <1>1, <3>2
  <2>. QED
    BY <1>2, <2>1, <2>2, <2>3 DEF more
<1>. QED
  BY <1>3, <1>4

LEMMA FlattenNothing ==
  ASSUME NEW n \in Nat
  PROVE  FlattenSeq([i \in 1 .. n |-> <<>>]) = <<>>
<1>. DEFINE nothing == [i \in 1 .. n |-> <<>>]
<1>1. Len(nothing) = n /\ \A i \in 1 .. n : nothing[i] = <<>> /\ nothing[i] \in Seq({})
  OBVIOUS
<1>2. nothing \in Seq(Seq({}))
  OBVIOUS
<1>. HIDE DEF nothing
<1>3. FlattenSeq(nothing) \in Seq({})
  BY <1>2, FlattenType
<1>4. Len(FlattenSeq(nothing)) = 0
  <2>. SUFFICES ASSUME Len(FlattenSeq(nothing)) # 0 PROVE FALSE
    OBVIOUS
  <2>1. 1 \in 1 .. Len(FlattenSeq(nothing))
    BY <1>3
  <2>2. FlattenSeq(nothing)[1] \in {}
    BY <1>3, <2>1
  <2>. QED
    BY <2>2
<1>5. FlattenSeq(nothing) = <<>>
  BY <1>3, <1>4
<1>. QED
  BY <1>5 DEF nothing

-----------------------------------------------------------------------------
(* SSE: positions *)

LEMMA MaxIs ==
  ASSUME NEW S, S \subseteq Nat, NEW m \in S, \A x \in S : x <= m
  PROVE  Max(S) = m
<1>1. \E x \in S : \A y \in S : x >= y
  OBVIOUS
<1>2. Max(S) \in S /\ \A y \in S : Max(S) >= y
  BY <1>1, Zenon DEF Max
<1>3. Max(S) \in Nat /\ m \in Nat /\ Max(S) >= m /\ Max(S) <= m
  BY <1>2
<1>. HIDE DEF Max
<1>. QED
  BY <1>3

LEMMA MaxOf ==
  ASSUME NEW n \in Nat, NEW S, S \subseteq 0 .. n, S # {}
  PROVE  Max(S) \in S /\ \A y \in S : y <= Max(S)
<1>. DEFINE T == {k \in Nat : k <= n /\ n - k \in S}
<1>1. T \subseteq Nat /\ T # {}
  <2>1. PICK x \in S : TRUE
    OBVIOUS
  <2>2. x \in Nat /\ n - x \in Nat /\ n - x <= n /\ n - (n - x) = x
    BY <2>1
  <2>. QED
    BY <2>1, <2>2
<1>2. PICK k \in T : \A j \in T : k <= j
  <2>. HIDE DEF T
  <2>. QED
    BY <1>1, LeastOf
<1>3. k \in Nat /\ k <= n /\ n - k \in S
  BY <1>2
<1>4. ASSUME NEW y \in S
      PROVE  y <= n - k
  <2>1. y \in Nat /\ n - y \in Nat /\ n - y <= n /\ n - (n - y) = y
    OBVIOUS
  <2>2. n - y \in T
    BY <2>1
  <2>3. k <= n - y
    BY <1>2, <2>2
  <2>. QED
    BY <1>3, <2>1, <2>3
<1>5. S \subseteq Nat
  OBVIOUS
<1>6. Max(S) = n - k
  BY <1>3, <1>4, <1>5, MaxIs
<1>. QED
  BY <1>3, <1>4, <1>6

LEMMA AfterRange ==
  ASSUME NEW n \in Nat, NEW S, S \subseteq 1 .. n
  PROVE  /\ After(S) \in 1 .. n + 1
         /\ \A x \in S : x < After(S)
<1>1. CASE S = {}
  BY <1>1 DEF After
<1>2. CASE S # {}
  <2>1. S \subseteq 0 .. n
    OBVIOUS
  <2>2. Max(S) \in S /\ \A y \in S : y <= Max(S)
    BY <1>2, <2>1, MaxOf
  <2>3. PICK m \in S : m = Max(S)
    BY <2>2
  <2>4. After(S) = m + 1
    BY <1>2, <2>3 DEF After
  <2>5. m \in 1 .. n /\ \A y \in S : y \in Nat /\ y <= m
    BY <2>2, <2>3
  <2>. QED
    BY <2>4, <2>5
<1>. QED
  BY <1>1, <1>2

LEMMA AfterLast ==
  ASSUME NEW n \in Nat, NEW S, S \subseteq 1 .. n, n \in S
  PROVE  After(S) = n + 1
<1>1. Max(S) = n
  <2>1. S \subseteq Nat /\ \A x \in S : x <= n
    OBVIOUS
  <2>. QED
    BY <2>1, MaxIs
<1>. QED
  BY <1>1 DEF After

\* One more byte.
Longer(s, t) ==
  /\ s \in Seq(Symbol) /\ t \in Seq(Symbol) /\ Len(s) = Len(t) + 1
  /\ \A i \in 1 .. Len(t) : s[i] = t[i]

LEMMA LongerTypes ==
  ASSUME NEW s, NEW t, Longer(s, t)
  PROVE  /\ Len(t) \in Nat /\ Len(s) = Len(t) + 1 /\ Len(t) + 1 \in 1 .. Len(t) + 1
         /\ s[Len(t) + 1] \in Symbol
         /\ \A i \in 1 .. Len(t) : s[i] = t[i] /\ t[i] \in Symbol
  BY DEF Longer

LEMMA LineStartIs ==
  ASSUME NEW t \in Seq(Symbol), NEW n \in 0 .. Len(t)
  PROVE  /\ LineStart(t, n) \in 1 .. n + 1
         /\ \A i \in LineStart(t, n) .. n : t[i] \notin Ending
         /\ n > 0 /\ t[n] \in Ending => LineStart(t, n) = n + 1
<1>. DEFINE S == {i \in 1 .. n : t[i] \in Ending}
<1>1. n \in Nat /\ S \subseteq 1 .. n /\ LineStart(t, n) = After(S)
  BY DEF LineStart
<1>2. After(S) \in 1 .. n + 1 /\ \A x \in S : x < After(S)
  <2>. HIDE DEF S
  <2>. QED
    BY <1>1, AfterRange
<1>3. ASSUME n > 0, t[n] \in Ending
      PROVE  After(S) = n + 1
  <2>1. n \in S
    BY <1>1, <1>3
  <2>. HIDE DEF S
  <2>. QED
    BY <1>1, <2>1, AfterLast
<1>4. ASSUME NEW i \in After(S) .. n
      PROVE  t[i] \notin Ending
  <2>1. i \in 1 .. n /\ ~ (i < After(S))
    BY <1>1, <1>2
  <2>2. i \notin S
    BY <1>2, <2>1
  <2>. QED
    BY <2>1, <2>2
<1>. HIDE DEF S
<1>. QED
  BY <1>1, <1>2, <1>3, <1>4

LEMMA SubSeqSame ==
  ASSUME NEW s \in Seq(Symbol), NEW t \in Seq(Symbol), NEW n \in Nat, NEW a \in 1 .. n + 1,
         n <= Len(s), n <= Len(t), \A i \in 1 .. n : s[i] = t[i]
  PROVE  SubSeq(s, a, n) = SubSeq(t, a, n)
<1>1. \A i \in a .. n : s[i] = t[i]
  OBVIOUS
<1>. QED
  BY <1>1 

LEMMA LineAfterIs ==
  ASSUME NEW t \in Seq(Symbol), NEW n \in 0 .. Len(t)
  PROVE  /\ LineAfter(t, n) \in Seq(Plain)
         /\ Len(LineAfter(t, n)) = (n + 1) - LineStart(t, n)
<1>. DEFINE a == LineStart(t, n)  L == SubSeq(t, a, n)
<1>1. a \in 1 .. n + 1 /\ \A i \in a .. n : t[i] \notin Ending
  BY LineStartIs
<1>. HIDE DEF a
<1>2. ASSUME NEW i \in a .. n
      PROVE  t[i] \in Plain
  BY <1>1 DEF Plain, Ending
<1>3. L \in Seq(Plain) /\ Len(L) = (n + 1) - a
  BY <1>1, <1>2
<1>. QED
  BY <1>3 DEF LineAfter, a

-----------------------------------------------------------------------------
(* SSE: what the grammar says of a text, it says of every longer one *)

LEMMA EndsLineStays ==
  ASSUME NEW s, NEW t, Longer(s, t), NEW i \in 1 .. Len(t)
  PROVE  EndsLine(s, i) = EndsLine(t, i)
<1>1. i > 1 => i - 1 \in 1 .. Len(t)
  BY LongerTypes
<1>2. s[i] = t[i] /\ (i > 1 => s[i - 1] = t[i - 1])
  BY <1>1, LongerTypes
<1>. QED
  BY <1>2 DEF EndsLine

LEMMA LineStartStays ==
  ASSUME NEW s, NEW t, Longer(s, t), NEW n \in 0 .. Len(t)
  PROVE  LineStart(s, n) = LineStart(t, n)
<1>1. \A i \in 1 .. n : i \in 1 .. Len(t)
  BY LongerTypes
<1>2. {i \in 1 .. n : s[i] \in Ending} = {i \in 1 .. n : t[i] \in Ending}
  BY <1>1, LongerTypes
<1>. QED
  BY <1>2 DEF LineStart

LEMMA LineAfterStays ==
  ASSUME NEW s, NEW t, Longer(s, t), NEW n \in 0 .. Len(t)
  PROVE  LineAfter(s, n) = LineAfter(t, n)
<1>1. n \in Nat /\ n <= Len(s) /\ n <= Len(t) /\ s \in Seq(Symbol) /\ t \in Seq(Symbol)
  BY DEF Longer
<1>2. \A i \in 1 .. n : s[i] = t[i]
  BY LongerTypes
<1>3. LineStart(t, n) \in 1 .. n + 1
  BY <1>1, LineStartIs
<1>4. SubSeq(s, LineStart(t, n), n) = SubSeq(t, LineStart(t, n), n)
  BY <1>1, <1>2, <1>3, SubSeqSame
<1>. QED
  BY <1>4, LineStartStays DEF LineAfter

LEMMA ContentStays ==
  ASSUME NEW s, NEW t, Longer(s, t), NEW n \in 0 .. Len(t)
  PROVE  Content(s, n) = Content(t, n)
  BY LineStartStays, LineAfterStays DEF Content

LEMMA BlankStays ==
  ASSUME NEW s, NEW t, Longer(s, t), NEW i \in 1 .. Len(t)
  PROVE  Blank(s, i) = Blank(t, i)
<1>1. i - 1 \in 0 .. Len(t)
  BY LongerTypes
<1>2. Content(s, i - 1) = Content(t, i - 1)
  BY <1>1, ContentStays
<1>3. EndsLine(s, i) = EndsLine(t, i)
  BY EndsLineStays
<1>. QED
  BY <1>2, <1>3 DEF Blank

\* Where the event under way begins.
EventStart(t, n) == After({b \in 1 .. n : Blank(t, b)})

LEMMA EventStartIs ==
  ASSUME NEW t, NEW n \in Nat
  PROVE  /\ EventStart(t, n) \in 1 .. n + 1
         /\ Block(t, n) = {i \in EventStart(t, n) .. n : EndsLine(t, i)}
<1>1. {b \in 1 .. n : Blank(t, b)} \subseteq 1 .. n
  OBVIOUS
<1>2. EventStart(t, n) \in 1 .. n + 1
  BY <1>1, AfterRange DEF EventStart
<1>. QED
  BY <1>2 DEF Block, EventStart

LEMMA BlockIs ==
  ASSUME NEW t, NEW n \in Nat
  PROVE  Block(t, n) \subseteq 1 .. n
<1>1. PICK a \in 1 .. n + 1 : a = EventStart(t, n)
  BY EventStartIs
<1>2. Block(t, n) = {i \in a .. n : EndsLine(t, i)}
  BY <1>1, EventStartIs
<1>. QED
  BY <1>1, <1>2

LEMMA EventStartStays ==
  ASSUME NEW s, NEW t, Longer(s, t), NEW n \in 0 .. Len(t)
  PROVE  EventStart(s, n) = EventStart(t, n)
<1>1. \A i \in 1 .. n : i \in 1 .. Len(t)
  BY LongerTypes
<1>2. {b \in 1 .. n : Blank(s, b)} = {b \in 1 .. n : Blank(t, b)}
  BY <1>1, BlankStays
<1>. QED
  BY <1>2 DEF EventStart

LEMMA BlockStays ==
  ASSUME NEW s, NEW t, Longer(s, t), NEW n \in 0 .. Len(t)
  PROVE  Block(s, n) = Block(t, n)
<1>1. n \in Nat /\ \A i \in 1 .. n : i \in 1 .. Len(t)
  BY LongerTypes
<1>2. PICK a \in 1 .. n + 1 : a = EventStart(t, n)
  BY <1>1, EventStartIs
<1>3. Block(t, n) = {i \in a .. n : EndsLine(t, i)}
  BY <1>1, <1>2, EventStartIs
<1>4. Block(s, n) = {i \in a .. n : EndsLine(s, i)}
  BY <1>1, <1>2, EventStartIs, EventStartStays
<1>5. \A i \in a .. n : EndsLine(s, i) = EndsLine(t, i)
  <2>1. \A i \in a .. n : i \in 1 .. Len(t)
    BY <1>1, <1>2
  <2>. QED
    BY <2>1, EndsLineStays
<1>. QED
  BY <1>3, <1>4, <1>5

LEMMA BlockContentStays ==
  ASSUME NEW s, NEW t, Longer(s, t), NEW n \in 0 .. Len(t)
  PROVE  \A i \in Block(t, n) : /\ i \in 1 .. n /\ i - 1 \in 0 .. Len(t)
                                /\ Content(s, i - 1) = Content(t, i - 1)
                                /\ Value(s, i) = Value(t, i)
                                /\ LineAfter(s, i - 1) = LineAfter(t, i - 1)
<1>1. ASSUME NEW i \in Block(t, n)
      PROVE  i \in 1 .. n /\ i - 1 \in 0 .. Len(t)
  <2>1. n \in Nat
    OBVIOUS
  <2>2. i \in 1 .. n
    BY <2>1, BlockIs
  <2>. QED
    BY <2>2, LongerTypes
<1>2. ASSUME NEW i \in Block(t, n)
      PROVE  Content(s, i - 1) = Content(t, i - 1) /\ LineAfter(s, i - 1) = LineAfter(t, i - 1)
  <2>1. i - 1 \in 0 .. Len(t)
    BY <1>1
  <2>. QED
    BY <2>1, ContentStays, LineAfterStays
<1>. QED
  BY <1>1, <1>2 DEF Value

LEMMA NamedStays ==
  ASSUME NEW s, NEW t, Longer(s, t), NEW n \in 0 .. Len(t), NEW field
  PROVE  Named(s, n, field) = Named(t, n, field) /\ Named(t, n, field) \subseteq Block(t, n)
  BY BlockStays, BlockContentStays DEF Named

LEMMA DataStays ==
  ASSUME NEW s, NEW t, Longer(s, t), NEW n \in 0 .. Len(t)
  PROVE  Data(s, n) = Data(t, n)
<1>1. Named(s, n, "data") = Named(t, n, "data") /\ Named(t, n, "data") \subseteq Block(t, n)
  BY NamedStays
<1>2. \A i \in Named(t, n, "data") : Value(s, i) = Value(t, i)
  BY <1>1, BlockContentStays
<1>3. [i \in 1 .. n |-> IF i \in Named(s, n, "data") THEN Append(Value(s, i), "LF") ELSE <<>>]
      = [i \in 1 .. n |-> IF i \in Named(t, n, "data") THEN Append(Value(t, i), "LF") ELSE <<>>]
  BY <1>1, <1>2
<1>. QED
  BY <1>3 DEF Data

LEMMA TypeStays ==
  ASSUME NEW s, NEW t, Longer(s, t), NEW n \in 0 .. Len(t)
  PROVE  Type(s, n) = Type(t, n)
<1>1. Named(s, n, "event") = Named(t, n, "event") /\ Named(t, n, "event") \subseteq Block(t, n)
  BY NamedStays
<1>2. CASE Named(t, n, "event") = {}
  BY <1>1, <1>2 DEF Type
<1>3. CASE Named(t, n, "event") # {}
  <2>1. n \in Nat
    OBVIOUS
  <2>2. Named(t, n, "event") \subseteq 0 .. n
    BY <2>1, <1>1, BlockIs
  <2>3. Max(Named(t, n, "event")) \in Named(t, n, "event")
    BY <1>3, <2>1, <2>2, MaxOf
  <2>4. Value(s, Max(Named(t, n, "event"))) = Value(t, Max(Named(t, n, "event")))
    BY <1>1, <2>3, BlockContentStays
  <2>. QED
    BY <1>1, <1>3, <2>4 DEF Type
<1>. QED
  BY <1>2, <1>3

LEMMA DamagedStays ==
  ASSUME NEW s, NEW t, Longer(s, t), NEW n \in 0 .. Len(t)
  PROVE  Damaged(s, n) = Damaged(t, n)
  BY BlockStays, BlockContentStays DEF Damaged

\* A line of the event is too long.
LineTooLong(t, n) == \E i \in Block(t, n) : Len(LineAfter(t, i - 1)) > MaxEvent

LEMMA TooLongIs ==
  ASSUME NEW t, NEW n \in Nat
  PROVE  TooLong(t, n) <=> \/ LineTooLong(t, n)
                           \/ Len(LineAfter(t, n)) > MaxEvent
                           \/ Len(Data(t, n)) > MaxEvent
<1>1. (n + 1) - 1 = n
  OBVIOUS
<1>. DEFINE Long(i) == Len(LineAfter(t, i - 1)) > MaxEvent
<1>2. Long(n + 1) <=> Len(LineAfter(t, n)) > MaxEvent
  BY <1>1
<1>3. LineTooLong(t, n) <=> \E i \in Block(t, n) : Long(i)
  BY DEF LineTooLong
<1>4. TooLong(t, n) <=> (\E i \in Block(t, n) \cup {n + 1} : Long(i)) \/ Len(Data(t, n)) > MaxEvent
  BY DEF TooLong
<1>. HIDE DEF Long
<1>5. (\E i \in Block(t, n) \cup {n + 1} : Long(i)) <=> (\E i \in Block(t, n) : Long(i)) \/ Long(n + 1)
  OBVIOUS
<1>. QED
  BY <1>2, <1>3, <1>4, <1>5

LEMMA LineTooLongStays ==
  ASSUME NEW s, NEW t, Longer(s, t), NEW n \in 0 .. Len(t)
  PROVE  LineTooLong(s, n) = LineTooLong(t, n)
  BY BlockStays, BlockContentStays DEF LineTooLong

LEMMA EventStays ==
  ASSUME NEW s, NEW t, Longer(s, t), NEW n \in 0 .. Len(t)
  PROVE  EventAfter(s, n) = EventAfter(t, n)
<1>1. n \in Nat
  OBVIOUS
<1>2. TooLong(s, n) = TooLong(t, n)
  <2>1. LineTooLong(s, n) = LineTooLong(t, n)
    BY LineTooLongStays
  <2>2. LineAfter(s, n) = LineAfter(t, n) /\ Data(s, n) = Data(t, n)
    BY LineAfterStays, DataStays
  <2>3. TooLong(t, n) <=> LineTooLong(t, n) \/ Len(LineAfter(t, n)) > MaxEvent \/ Len(Data(t, n)) > MaxEvent
    BY <1>1, TooLongIs
  <2>4. TooLong(s, n) <=> LineTooLong(s, n) \/ Len(LineAfter(s, n)) > MaxEvent \/ Len(Data(s, n)) > MaxEvent
    BY <1>1, TooLongIs
  <2>5. TooLong(s, n) <=> TooLong(t, n)
    BY <2>1, <2>2, <2>3, <2>4
  <2>6. TooLong(s, n) \in BOOLEAN /\ TooLong(t, n) \in BOOLEAN
    BY DEF TooLong
  <2>. QED
    BY <2>5, <2>6
<1>. QED
  BY <1>2, DamagedStays, DataStays, TypeStays DEF EventAfter

LEMMA ItemStays ==
  ASSUME NEW s, NEW t, Longer(s, t), NEW i \in 1 .. Len(t)
  PROVE  ItemAt(s, i) = ItemAt(t, i)
<1>1. i - 1 \in 0 .. Len(t)
  BY LongerTypes
<1>2. Content(s, i - 1) = Content(t, i - 1)
  BY <1>1, ContentStays
<1>3. EventAfter(s, i - 1) = EventAfter(t, i - 1)
  BY <1>1, EventStays
<1>4. EndsLine(s, i) = EndsLine(t, i) /\ Blank(s, i) = Blank(t, i)
  BY EndsLineStays, BlankStays
<1>. QED
  BY <1>2, <1>3, <1>4 DEF ItemAt

-----------------------------------------------------------------------------
(* SSE: the kinds of what the grammar finds *)

LEMMA KeptIs ==
  ASSUME NEW L \in Seq(Plain)
  PROVE  /\ Kept(L) \in Seq(Plain)
         /\ Len(L) <= MaxEvent => Kept(L) = L /\ Len(Kept(L)) = Len(L)
         /\ Len(L) > MaxEvent => Len(Kept(L)) = MaxEvent
         /\ Len(Kept(L)) \in Nat
<1>1. MaxEvent \in Nat /\ Len(L) \in Nat
  BY SseAssumption DEF SseAssumption
<1>2. CASE Len(L) > MaxEvent
  <2>1. SubSeq(L, 1, MaxEvent) \in Seq(Plain) /\ Len(SubSeq(L, 1, MaxEvent)) = MaxEvent
    BY <1>1, <1>2
  <2>. QED
    BY <1>1, <1>2, <2>1 DEF Kept
<1>3. CASE ~ (Len(L) > MaxEvent)
  BY <1>1, <1>3 DEF Kept
<1>. QED
  BY <1>2, <1>3

LEMMA InSeq ==
  ASSUME NEW S, NEW q \in Seq(S), NEW x
  PROVE  x \in ToSet(q) <=> \E i \in 1 .. Len(q) : q[i] = x
<1>1. DOMAIN q = 1 .. Len(q)
  OBVIOUS
<1>. QED
  BY <1>1 DEF ToSet

LEMMA UnmarkedIs ==
  ASSUME NEW L \in Seq(Plain)
  PROVE  /\ Unmarked(L) \in Seq(Plain)
         /\ "bad" \in ToSet(L) <=> "bad" \in ToSet(Unmarked(L))
<1>1. CASE L # <<>> /\ L[1] = "BOM"
  <2>1. Unmarked(L) = Tail(L) /\ Tail(L) \in Seq(Plain) /\ Len(Tail(L)) = Len(L) - 1 /\ Len(L) \in Nat
    BY <1>1 DEF Unmarked
  <2>2. \A i \in 1 .. Len(L) - 1 : Tail(L)[i] = L[i + 1]
    BY <1>1
  <2>3. ASSUME NEW i \in 1 .. Len(L), L[i] = "bad"
        PROVE  \E j \in 1 .. Len(Tail(L)) : Tail(L)[j] = "bad"
    <3>1. i # 1
      BY <1>1, <2>3
    <3>2. i - 1 \in 1 .. Len(L) - 1 /\ (i - 1) + 1 = i
      BY <2>1, <3>1
    <3>3. Tail(L)[i - 1] = "bad"
      BY <2>2, <2>3, <3>2
    <3>. QED
      BY <2>1, <3>2, <3>3
  <2>4. ASSUME NEW j \in 1 .. Len(Tail(L)), Tail(L)[j] = "bad"
        PROVE  \E i \in 1 .. Len(L) : L[i] = "bad"
    <3>1. j \in 1 .. Len(L) - 1 /\ j + 1 \in 1 .. Len(L)
      BY <2>1
    <3>2. L[j + 1] = "bad"
      BY <2>2, <2>4, <3>1
    <3>. QED
      BY <3>1, <3>2
  <2>5. "bad" \in ToSet(L) <=> \E i \in 1 .. Len(L) : L[i] = "bad"
    BY InSeq
  <2>6. "bad" \in ToSet(Tail(L)) <=> \E j \in 1 .. Len(Tail(L)) : Tail(L)[j] = "bad"
    BY <2>1, InSeq
  <2>7. "bad" \in ToSet(L) <=> "bad" \in ToSet(Tail(L))
    BY <2>3, <2>4, <2>5, <2>6
  <2>. QED
    BY <2>1, <2>7
<1>2. CASE ~ (L # <<>> /\ L[1] = "BOM")
  BY <1>2 DEF Unmarked
<1>. QED
  BY <1>1, <1>2

LEMMA ContentIs ==
  ASSUME NEW t \in Seq(Symbol), NEW n \in 0 .. Len(t)
  PROVE  /\ Content(t, n) \in Seq(Plain)
         /\ Content(t, n) # <<>> => Tail(Content(t, n)) \in Seq(Plain)
<1>1. Kept(LineAfter(t, n)) \in Seq(Plain)
  BY LineAfterIs, KeptIs
<1>2. Unmarked(Kept(LineAfter(t, n))) \in Seq(Plain)
  BY <1>1, UnmarkedIs
<1>3. Content(t, n) \in Seq(Plain)
  BY <1>1, <1>2 DEF Content
<1>. QED
  BY <1>3

LEMMA ValueIs ==
  ASSUME NEW t \in Seq(Symbol), NEW n \in 0 .. Len(t), NEW field, NEW i \in Named(t, n, field)
  PROVE  i \in 1 .. n /\ Value(t, i) \in Seq(Plain)
<1>1. n \in Nat /\ Len(t) \in Nat
  OBVIOUS
<1>2. i \in Block(t, n) /\ Content(t, i - 1) # <<>>
  BY DEF Named
<1>3. i \in 1 .. n
  BY <1>1, <1>2, BlockIs
<1>4. i - 1 \in 0 .. Len(t)
  BY <1>1, <1>3
<1>5. Tail(Content(t, i - 1)) \in Seq(Plain)
  BY <1>2, <1>4, ContentIs
<1>. QED
  BY <1>3, <1>5 DEF Value

\* What the data lines contribute, position by position.
Values(t, n) ==
  [i \in 1 .. n |-> IF i \in Named(t, n, "data") THEN Append(Value(t, i), "LF") ELSE <<>>]

LEMMA ValuesIs ==
  ASSUME NEW t \in Seq(Symbol), NEW n \in 0 .. Len(t)
  PROVE  /\ Values(t, n) \in [1 .. n -> Seq(Symbol)]
         /\ Data(t, n) = FlattenSeq(Values(t, n))
         /\ Data(t, n) \in Seq(Symbol)
<1>1. ASSUME NEW i \in 1 .. n
      PROVE  Values(t, n)[i] \in Seq(Symbol)
  <2>1. CASE i \in Named(t, n, "data")
    <3>1. Value(t, i) \in Seq(Plain)
      BY <2>1, ValueIs
    <3>2. Value(t, i) \in Seq(Symbol) /\ "LF" \in Symbol
      BY <3>1 DEF Plain, Symbol
    <3>3. Append(Value(t, i), "LF") \in Seq(Symbol)
      BY <3>2
    <3>. QED
      BY <2>1, <3>3 DEF Values
  <2>2. CASE i \notin Named(t, n, "data")
    BY <2>2 DEF Values
  <2>. QED
    BY <2>1, <2>2
<1>2. Values(t, n) = [i \in 1 .. n |-> Values(t, n)[i]]
  BY DEF Values
<1>3. Values(t, n) \in [1 .. n -> Seq(Symbol)]
  BY <1>1, <1>2
<1>4. Values(t, n) \in Seq(Seq(Symbol))
  BY <1>3
<1>5. Data(t, n) = FlattenSeq(Values(t, n))
  BY DEF Data, Values
<1>. QED
  BY <1>3, <1>4, <1>5, FlattenType

LEMMA TypeIs ==
  ASSUME NEW t \in Seq(Symbol), NEW n \in 0 .. Len(t)
  PROVE  Type(t, n) \in Seq(Symbol) \cup {NoType}
<1>1. CASE Named(t, n, "event") = {}
  BY <1>1 DEF Type
<1>2. CASE Named(t, n, "event") # {}
  <2>1. n \in Nat
    OBVIOUS
  <2>2. Named(t, n, "event") \subseteq 0 .. n
    <3>1. Named(t, n, "event") \subseteq 1 .. n
      BY ValueIs
    <3>. QED
      BY <2>1, <3>1
  <2>3. Max(Named(t, n, "event")) \in Named(t, n, "event")
    BY <1>2, <2>1, <2>2, MaxOf
  <2>4. Value(t, Max(Named(t, n, "event"))) \in Seq(Plain)
    BY <2>3, ValueIs
  <2>5. Type(t, n) \in Seq(Plain)
    BY <1>2, <2>4 DEF Type
  <2>6. Type(t, n) \in Seq(Symbol)
    BY <2>5 DEF Plain
  <2>. QED
    BY <2>6
<1>. QED
  BY <1>1, <1>2

LEMMA EventIs ==
  ASSUME NEW t \in Seq(Symbol), NEW n \in 0 .. Len(t)
  PROVE  EventAfter(t, n) \in Seq(Item)
<1>1. Data(t, n) \in Seq(Symbol) /\ Type(t, n) \in Seq(Symbol) \cup {NoType}
  BY ValuesIs, TypeIs
<1>2. InvalidUtf8 \in Item /\ OversizedEvent \in Item
  BY DEF InvalidUtf8, OversizedEvent, Item
<1>3. <<InvalidUtf8>> \in Seq(Item) /\ <<OversizedEvent>> \in Seq(Item) /\ <<>> \in Seq(Item)
  BY <1>2
<1>4. ASSUME Data(t, n) # <<>>
      PROVE  <<Event(Type(t, n), Front(Data(t, n)))>> \in Seq(Item)
  <2>1. Front(Data(t, n)) \in Seq(Symbol)
    BY <1>1, <1>4 DEF Front
  <2>2. Event(Type(t, n), Front(Data(t, n))) \in Item
    BY <1>1, <2>1 DEF Event, Item
  <2>. QED
    BY <2>2
<1>. QED
  BY <1>3, <1>4 DEF EventAfter

LEMMA ItemIs ==
  ASSUME NEW t \in Seq(Symbol), NEW i \in 1 .. Len(t)
  PROVE  ItemAt(t, i) \in Seq(Item)
<1>1. i - 1 \in 0 .. Len(t)
  OBVIOUS
<1>2. EventAfter(t, i - 1) \in Seq(Item)
  BY <1>1, EventIs
<1>3. Retry \in Item
  BY DEF Retry, Item
<1>4. <<Retry>> \in Seq(Item) /\ <<>> \in Seq(Item)
  BY <1>3
<1>. QED
  BY <1>2, <1>4 DEF ItemAt

LEMMA AppendIs ==
  ASSUME NEW S, NEW n \in Nat, NEW f \in [1 .. n -> S], NEW g \in [1 .. n + 1 -> S],
         \A i \in 1 .. n : g[i] = f[i]
  PROVE  g = Append(f, g[n + 1]) /\ f \in Seq(S) /\ g[n + 1] \in S
<1>1. f \in Seq(S) /\ Len(f) = n
  OBVIOUS
<1>2. g \in Seq(S) /\ Len(g) = n + 1 /\ g[n + 1] \in S
  OBVIOUS
<1>. DEFINE h == Append(f, g[n + 1])
<1>3. h \in Seq(S) /\ Len(h) = n + 1 /\ h[n + 1] = g[n + 1] /\ \A i \in 1 .. n : h[i] = f[i]
  BY <1>1, <1>2
<1>. HIDE DEF h
<1>4. ASSUME NEW i \in 1 .. n + 1
      PROVE  g[i] = h[i]
  <2>1. i = n + 1 \/ i \in 1 .. n
    OBVIOUS
  <2>. QED
    BY <1>3, <2>1
<1>5. g = h
  BY <1>2, <1>3, <1>4
<1>. QED
  BY <1>1, <1>2, <1>5 DEF h

LEMMA ItemsGrow ==
  ASSUME NEW s, NEW t, Longer(s, t)
  PROVE  /\ ItemsOf(s) = ItemsOf(t) \o ItemAt(s, Len(t) + 1)
         /\ ItemsOf(t) \in Seq(Item)
<1>. DEFINE f == [i \in 1 .. Len(t) |-> ItemAt(t, i)]
            g == [i \in 1 .. Len(t) + 1 |-> ItemAt(s, i)]
<1>1. Len(t) \in Nat /\ Len(s) = Len(t) + 1 /\ s \in Seq(Symbol) /\ t \in Seq(Symbol)
      /\ DOMAIN s = 1 .. Len(s) /\ DOMAIN t = 1 .. Len(t)
  BY DEF Longer
<1>2. f \in [1 .. Len(t) -> Seq(Item)]
  BY <1>1, ItemIs
<1>3. g \in [1 .. Len(t) + 1 -> Seq(Item)]
  BY <1>1, ItemIs
<1>4. \A i \in 1 .. Len(t) : g[i] = f[i]
  <2>1. ASSUME NEW i \in 1 .. Len(t)
        PROVE  i \in 1 .. Len(t) + 1 /\ ItemAt(s, i) = ItemAt(t, i)
    BY <1>1, ItemStays
  <2>. QED
    BY <2>1
<1>5. g[Len(t) + 1] = ItemAt(s, Len(t) + 1)
  BY <1>1
<1>6. ItemsOf(s) = FlattenSeq(g) /\ ItemsOf(t) = FlattenSeq(f)
  BY <1>1 DEF ItemsOf
<1>. HIDE DEF f, g
<1>7. g = Append(f, g[Len(t) + 1]) /\ f \in Seq(Seq(Item)) /\ g[Len(t) + 1] \in Seq(Item)
  BY <1>1, <1>2, <1>3, <1>4, AppendIs
<1>8. FlattenSeq(g) = FlattenSeq(f) \o g[Len(t) + 1]
  BY <1>7, FlattenAppend
<1>9. FlattenSeq(f) \in Seq(Item)
  BY <1>7, FlattenType
<1>. QED
  BY <1>5, <1>6, <1>8, <1>9

-----------------------------------------------------------------------------
(* SSE: what one more byte changes *)

\* A byte of a line.
LEMMA LineGrows ==
  ASSUME NEW s, NEW t, Longer(s, t), s[Len(t) + 1] \notin Ending
  PROVE  /\ LineStart(s, Len(t) + 1) = LineStart(t, Len(t))
         /\ LineAfter(s, Len(t) + 1) = Append(LineAfter(t, Len(t)), s[Len(t) + 1])
<1>. DEFINE n == Len(t)  b == s[n + 1]  a == LineStart(t, n)
<1>1. n \in Nat /\ Len(s) = n + 1 /\ s \in Seq(Symbol) /\ t \in Seq(Symbol) /\ \A i \in 1 .. n : s[i] = t[i]
  BY DEF Longer
<1>. HIDE DEF n
<1>2. {i \in 1 .. n + 1 : s[i] \in Ending} = {i \in 1 .. n : t[i] \in Ending}
  <2>1. s[n + 1] \notin Ending
    BY DEF n
  <2>2. \A i \in 1 .. n + 1 : i = n + 1 \/ i \in 1 .. n
    BY <1>1
  <2>3. \A i \in 1 .. n : i \in 1 .. n + 1
    BY <1>1
  <2>. QED
    BY <1>1, <2>1, <2>2, <2>3
<1>3. LineStart(s, n + 1) = a
  BY <1>2 DEF LineStart
<1>4. a \in 1 .. n + 1
  BY <1>1, LineStartIs DEF n
<1>. HIDE DEF a
<1>5. SubSeq(s, a, n + 1) = Append(SubSeq(t, a, n), s[n + 1])
  <2>. DEFINE L == SubSeq(s, a, n + 1)  K == SubSeq(t, a, n)  M == Append(K, s[n + 1])
  <2>1. L \in Seq(Symbol) /\ Len(L) = (n + 2) - a /\ \A i \in 1 .. (n + 2) - a : L[i] = s[(a + i) - 1]
    BY <1>1, <1>4
  <2>2. K \in Seq(Symbol) /\ Len(K) = (n + 1) - a /\ \A i \in 1 .. (n + 1) - a : K[i] = t[(a + i) - 1]
    BY <1>1, <1>4
  <2>. HIDE DEF L, K
  <2>3. s[n + 1] \in Symbol
    BY <1>1
  <2>4. M \in Seq(Symbol) /\ Len(M) = (n + 2) - a /\ M[(n + 2) - a] = s[n + 1]
        /\ \A i \in 1 .. (n + 1) - a : M[i] = K[i]
    BY <1>1, <1>4, <2>2, <2>3
  <2>. HIDE DEF M
  <2>5. ASSUME NEW i \in 1 .. (n + 2) - a
        PROVE  L[i] = M[i]
    <3>1. CASE i = (n + 2) - a
      <4>1. (a + i) - 1 = n + 1
        BY <1>1, <1>4, <3>1
      <4>. QED
        BY <2>1, <2>4, <3>1, <4>1
    <3>2. CASE i # (n + 2) - a
      <4>1. i \in 1 .. (n + 1) - a /\ (a + i) - 1 \in 1 .. n
        BY <1>1, <1>4, <3>2
      <4>2. L[i] = s[(a + i) - 1] /\ M[i] = t[(a + i) - 1]
        BY <2>1, <2>2, <2>4, <4>1
      <4>. QED
        BY <1>1, <4>1, <4>2
    <3>. QED
      BY <3>1, <3>2
  <2>6. L = M
    BY <2>1, <2>4, <2>5
  <2>. QED
    BY <2>6 DEF L, M, K
<1>. QED
  BY <1>3, <1>5 DEF LineAfter, n, a

\* The byte that ends one, or the line feed after it.
LEMMA LineStops ==
  ASSUME NEW s, NEW t, Longer(s, t), s[Len(t) + 1] \in Ending
  PROVE  LineStart(s, Len(t) + 1) = Len(t) + 2 /\ LineAfter(s, Len(t) + 1) = <<>>
<1>1. Len(t) \in Nat /\ Len(s) = Len(t) + 1 /\ s \in Seq(Symbol)
  BY DEF Longer
<1>2. Len(t) + 1 \in 0 .. Len(s) /\ Len(t) + 1 > 0 /\ (Len(t) + 1) + 1 = Len(t) + 2
  BY <1>1
<1>3. LineStart(s, Len(t) + 1) = Len(t) + 2
  BY <1>1, <1>2, LineStartIs
<1>4. LineAfter(s, Len(t) + 1) \in Seq(Plain) /\ Len(LineAfter(s, Len(t) + 1)) = 0
  BY <1>1, <1>2, <1>3, LineAfterIs
<1>. QED
  BY <1>3, <1>4

\* The lines of the event, after one more byte.
LEMMA BlockGrows ==
  ASSUME NEW s, NEW t, Longer(s, t)
  PROVE  /\ Blank(s, Len(t) + 1) => Block(s, Len(t) + 1) = {}
         /\ ~Blank(s, Len(t) + 1) /\ EndsLine(s, Len(t) + 1)
              => Block(s, Len(t) + 1) = Block(t, Len(t)) \cup {Len(t) + 1}
         /\ ~EndsLine(s, Len(t) + 1) => Block(s, Len(t) + 1) = Block(t, Len(t))
<1>. DEFINE n == Len(t)
<1>1. n \in Nat /\ n \in 0 .. n /\ n + 1 \in Nat
  BY DEF Longer
<1>2. EventStart(s, n) = EventStart(t, n) /\ Block(s, n) = Block(t, n)
  BY <1>1, EventStartStays, BlockStays
<1>. HIDE DEF n
<1>3. PICK a \in 1 .. n + 1 : a = EventStart(s, n)
  BY <1>1, EventStartIs
<1>4. Block(s, n) = {i \in a .. n : EndsLine(s, i)}
  BY <1>1, <1>3, EventStartIs
<1>5. CASE Blank(s, n + 1)
  <2>1. EventStart(s, n + 1) = n + 2
    <3>1. {b \in 1 .. n + 1 : Blank(s, b)} \subseteq 1 .. n + 1 /\ n + 1 \in {b \in 1 .. n + 1 : Blank(s, b)}
      BY <1>1, <1>5
    <3>2. EventStart(s, n + 1) = (n + 1) + 1
      BY <1>1, <3>1, AfterLast DEF EventStart
    <3>. QED
      BY <1>1, <3>2
  <2>2. Block(s, n + 1) = {i \in n + 2 .. n + 1 : EndsLine(s, i)}
    BY <1>1, <2>1, EventStartIs
  <2>3. Block(s, n + 1) = {}
    BY <1>1, <2>2
  <2>4. EndsLine(s, n + 1)
    BY <1>5 DEF Blank
  <2>. QED
    BY <1>5, <2>3, <2>4 DEF n
<1>6. CASE ~Blank(s, n + 1)
  <2>1. EventStart(s, n + 1) = a
    <3>1. {b \in 1 .. n + 1 : Blank(s, b)} = {b \in 1 .. n : Blank(s, b)}
      <4>1. \A b \in 1 .. n + 1 : b = n + 1 \/ b \in 1 .. n
        BY <1>1
      <4>2. \A b \in 1 .. n : b \in 1 .. n + 1
        BY <1>1
      <4>. QED
        BY <1>6, <4>1, <4>2
    <3>. QED
      BY <1>3, <3>1 DEF EventStart
  <2>2. Block(s, n + 1) = {i \in a .. n + 1 : EndsLine(s, i)}
    BY <1>1, <2>1, EventStartIs
  <2>3. \A i \in a .. n + 1 : i = n + 1 \/ i \in a .. n
    BY <1>1, <1>3
  <2>4. n + 1 \in a .. n + 1 /\ \A i \in a .. n : i \in a .. n + 1
    BY <1>1, <1>3
  <2>5. EndsLine(s, n + 1) => Block(s, n + 1) = Block(s, n) \cup {n + 1}
    BY <1>4, <2>2, <2>3, <2>4
  <2>6. ~EndsLine(s, n + 1) => Block(s, n + 1) = Block(s, n)
    BY <1>4, <2>2, <2>3, <2>4
  <2>. QED
    BY <1>2, <1>6, <2>5, <2>6 DEF n
<1>. QED
  BY <1>5, <1>6

\* The last position, in its line's terms.
LEMMA LastLine ==
  ASSUME NEW s, NEW t, Longer(s, t)
  PROVE  /\ (Len(t) + 1) - 1 = Len(t)
         /\ Content(s, (Len(t) + 1) - 1) = Content(t, Len(t))
         /\ LineAfter(s, (Len(t) + 1) - 1) = LineAfter(t, Len(t))
         /\ EventAfter(s, (Len(t) + 1) - 1) = EventAfter(t, Len(t))
         /\ Value(s, Len(t) + 1) = Tail(Content(t, Len(t)))
         /\ Blank(s, Len(t) + 1) <=> EndsLine(s, Len(t) + 1) /\ Content(t, Len(t)) = <<>>
<1>1. Len(t) \in 0 .. Len(t) /\ (Len(t) + 1) - 1 = Len(t)
  BY LongerTypes
<1>2. Content(s, Len(t)) = Content(t, Len(t)) /\ LineAfter(s, Len(t)) = LineAfter(t, Len(t))
      /\ EventAfter(s, Len(t)) = EventAfter(t, Len(t))
  BY <1>1, ContentStays, LineAfterStays, EventStays
<1>. QED
  BY <1>1, <1>2 DEF Value, Blank

LEMMA MaxNext ==
  ASSUME NEW n \in Nat, NEW S, S \subseteq 1 .. n
  PROVE  Max(S \cup {n + 1}) = n + 1
<1>1. n + 1 \in Nat
  OBVIOUS
<1>2. \A x \in S : x \in Nat /\ x <= n + 1
  OBVIOUS
<1>3. \A x \in S \cup {n + 1} : x \in Nat /\ x <= n + 1
  BY <1>1, <1>2
<1>4. S \cup {n + 1} \subseteq Nat /\ n + 1 \in S \cup {n + 1}
  BY <1>3
<1>. QED
  BY <1>3, <1>4, MaxIs

\* A byte that ends no line: the event is what it was.
LEMMA NamedSame ==
  ASSUME NEW s, NEW t, Longer(s, t), ~EndsLine(s, Len(t) + 1), NEW field
  PROVE  Named(s, Len(t) + 1, field) = Named(t, Len(t), field)
<1>1. Len(t) \in 0 .. Len(t)
  BY LongerTypes
<1>2. Block(s, Len(t) + 1) = Block(t, Len(t))
  BY BlockGrows
<1>3. \A i \in Block(t, Len(t)) : Content(s, i - 1) = Content(t, i - 1)
  BY <1>1, BlockContentStays
<1>. QED
  BY <1>2, <1>3 DEF Named

\* One more line of it.
LEMMA NamedMore ==
  ASSUME NEW s, NEW t, Longer(s, t), EndsLine(s, Len(t) + 1), Content(t, Len(t)) # <<>>, NEW field
  PROVE  Named(s, Len(t) + 1, field)
           = Named(t, Len(t), field)
               \cup (IF Content(t, Len(t))[1] = field THEN {Len(t) + 1} ELSE {})
<1>1. Len(t) \in 0 .. Len(t)
  BY LongerTypes
<1>2. Block(s, Len(t) + 1) = Block(t, Len(t)) \cup {Len(t) + 1}
  BY BlockGrows, LastLine
<1>3. \A i \in Block(t, Len(t)) : Content(s, i - 1) = Content(t, i - 1)
  BY <1>1, BlockContentStays
<1>4. Content(s, (Len(t) + 1) - 1) = Content(t, Len(t))
  BY LastLine
<1>. QED
  BY <1>2, <1>3, <1>4 DEF Named

LEMMA DataGrows ==
  ASSUME NEW s, NEW t, Longer(s, t), NEW last,
         last = IF Len(t) + 1 \in Named(s, Len(t) + 1, "data") THEN Append(Value(s, Len(t) + 1), "LF") ELSE <<>>,
         \A i \in 1 .. Len(t) : i \in Named(s, Len(t) + 1, "data") <=> i \in Named(t, Len(t), "data")
  PROVE  Data(s, Len(t) + 1) = Data(t, Len(t)) \o last
<1>. DEFINE n == Len(t)
<1>1. n \in Nat /\ n \in 0 .. n /\ n + 1 \in 0 .. Len(s) /\ s \in Seq(Symbol) /\ t \in Seq(Symbol)
      /\ n + 1 \in 1 .. n + 1
  BY DEF Longer
<1>2. Values(t, n) \in [1 .. n -> Seq(Symbol)] /\ Data(t, n) = FlattenSeq(Values(t, n))
  BY <1>1, ValuesIs
<1>3. Values(s, n + 1) \in [1 .. n + 1 -> Seq(Symbol)] /\ Data(s, n + 1) = FlattenSeq(Values(s, n + 1))
  BY <1>1, ValuesIs
<1>4. ASSUME NEW i \in 1 .. n
      PROVE  Values(s, n + 1)[i] = Values(t, n)[i]
  <2>1. i \in 1 .. n + 1
    BY <1>1
  <2>2. Values(s, n + 1)[i] = IF i \in Named(s, n + 1, "data") THEN Append(Value(s, i), "LF") ELSE <<>>
    BY <2>1 DEF Values
  <2>3. Values(t, n)[i] = IF i \in Named(t, n, "data") THEN Append(Value(t, i), "LF") ELSE <<>>
    BY DEF Values
  <2>4. i \in Named(s, n + 1, "data") <=> i \in Named(t, n, "data")
    OBVIOUS
  <2>5. i \in Named(t, n, "data") => Value(s, i) = Value(t, i)
    <3>1. Named(t, n, "data") \subseteq Block(t, n)
      BY DEF Named
    <3>. QED
      BY <1>1, <3>1, BlockContentStays
  <2>. QED
    BY <2>2, <2>3, <2>4, <2>5
<1>5. Values(s, n + 1)[n + 1] = last
  BY <1>1 DEF Values
<1>6. /\ Values(s, n + 1) = Append(Values(t, n), Values(s, n + 1)[n + 1])
      /\ Values(t, n) \in Seq(Seq(Symbol)) /\ Values(s, n + 1)[n + 1] \in Seq(Symbol)
  <2>. DEFINE f == Values(t, n)  g == Values(s, n + 1)
  <2>1. f \in [1 .. n -> Seq(Symbol)] /\ g \in [1 .. n + 1 -> Seq(Symbol)] /\ \A i \in 1 .. n : g[i] = f[i]
    BY <1>2, <1>3, <1>4
  <2>. HIDE DEF n, f, g
  <2>2. g = Append(f, g[n + 1]) /\ f \in Seq(Seq(Symbol)) /\ g[n + 1] \in Seq(Symbol)
    BY <1>1, <2>1, AppendIs
  <2>. QED
    BY <2>2 DEF f, g
<1>7. Values(s, n + 1) = Append(Values(t, n), last) /\ last \in Seq(Symbol)
  BY <1>5, <1>6
<1>8. FlattenSeq(Values(s, n + 1)) = FlattenSeq(Values(t, n)) \o last
  BY <1>6, <1>7, FlattenAppend
<1>. QED
  BY <1>2, <1>3, <1>8

\* No line ends here.
LEMMA QuietByte ==
  ASSUME NEW s, NEW t, Longer(s, t), ~EndsLine(s, Len(t) + 1)
  PROVE  /\ Data(s, Len(t) + 1) = Data(t, Len(t))
         /\ Type(s, Len(t) + 1) = Type(t, Len(t))
         /\ Damaged(s, Len(t) + 1) = Damaged(t, Len(t))
         /\ LineTooLong(s, Len(t) + 1) = LineTooLong(t, Len(t))
         /\ ItemAt(s, Len(t) + 1) = <<>>
<1>. DEFINE n == Len(t)
<1>1. n \in Nat /\ n \in 0 .. n /\ t \in Seq(Symbol)
  BY DEF Longer
<1>2. Block(s, n + 1) = Block(t, n)
  BY BlockGrows
<1>3. \A i \in Block(t, n) : /\ i \in 1 .. n /\ Content(s, i - 1) = Content(t, i - 1) /\ Value(s, i) = Value(t, i)
                             /\ LineAfter(s, i - 1) = LineAfter(t, i - 1)
  BY <1>1, BlockContentStays
<1>4. \A field : Named(s, n + 1, field) = Named(t, n, field) /\ Named(t, n, field) \subseteq Block(t, n)
  <2>1. \A field : Named(s, n + 1, field) = Named(t, n, field)
    BY NamedSame
  <2>. QED
    BY <2>1 DEF Named
<1>5. Data(s, n + 1) = Data(t, n)
  <2>1. n + 1 \notin Named(s, n + 1, "data")
    <3>1. n + 1 \notin Block(t, n)
      <4>1. n + 1 \notin 1 .. n
        BY <1>1
      <4>. QED
        BY <1>3, <4>1
    <3>. QED
      BY <1>4, <3>1
  <2>2. Data(s, n + 1) = Data(t, n) \o <<>>
    <3>1. \A i \in 1 .. n : i \in Named(s, n + 1, "data") <=> i \in Named(t, n, "data")
      BY <1>4
    <3>2. <<>> = IF n + 1 \in Named(s, n + 1, "data") THEN Append(Value(s, n + 1), "LF") ELSE <<>>
      BY <2>1
    <3>. QED
      BY <3>1, <3>2, DataGrows
  <2>3. Data(t, n) \in Seq(Symbol)
    BY <1>1, ValuesIs
  <2>. QED
    BY <2>2, <2>3
<1>6. Type(s, n + 1) = Type(t, n)
  <2>1. Named(t, n, "event") # {} => Max(Named(t, n, "event")) \in Named(t, n, "event")
    <3>1. Named(t, n, "event") \subseteq 0 .. n
      BY <1>1, <1>3, <1>4
    <3>. QED
      BY <1>1, <3>1, MaxOf
  <2>2. Named(t, n, "event") # {}
          => Value(s, Max(Named(t, n, "event"))) = Value(t, Max(Named(t, n, "event")))
    BY <1>3, <1>4, <2>1
  <2>3. Named(s, n + 1, "event") = Named(t, n, "event")
    BY <1>4
  <2>. QED
    BY <2>2, <2>3 DEF Type
<1>7. Damaged(s, n + 1) = Damaged(t, n)
  BY <1>2, <1>3 DEF Damaged
<1>8. LineTooLong(s, n + 1) = LineTooLong(t, n)
  BY <1>2, <1>3 DEF LineTooLong
<1>9. ItemAt(s, n + 1) = <<>>
  BY LastLine DEF ItemAt
<1>. QED
  BY <1>5, <1>6, <1>7, <1>8, <1>9

\* The blank line ends here: the next event has no lines yet.
LEMMA BlankEnds ==
  ASSUME NEW s, NEW t, Longer(s, t), EndsLine(s, Len(t) + 1), Content(t, Len(t)) = <<>>
  PROVE  /\ Data(s, Len(t) + 1) = <<>>
         /\ Type(s, Len(t) + 1) = NoType
         /\ ~Damaged(s, Len(t) + 1)
         /\ ~LineTooLong(s, Len(t) + 1)
         /\ ItemAt(s, Len(t) + 1) = EventAfter(t, Len(t))
<1>. DEFINE n == Len(t)
<1>1. n \in Nat /\ n + 1 \in Nat
  BY DEF Longer
<1>2. Blank(s, n + 1) /\ EventAfter(s, (n + 1) - 1) = EventAfter(t, n)
  BY LastLine
<1>3. Block(s, n + 1) = {}
  BY <1>2, BlockGrows
<1>4. \A field : Named(s, n + 1, field) = {}
  BY <1>3 DEF Named
<1>5. Data(s, n + 1) = <<>>
  <2>1. [i \in 1 .. n + 1 |-> IF i \in Named(s, n + 1, "data") THEN Append(Value(s, i), "LF") ELSE <<>>]
        = [i \in 1 .. n + 1 |-> <<>>]
    BY <1>4
  <2>2. FlattenSeq([i \in 1 .. n + 1 |-> <<>>]) = <<>>
    BY <1>1, FlattenNothing
  <2>. QED
    BY <2>1, <2>2 DEF Data
<1>6. Type(s, n + 1) = NoType
  BY <1>4 DEF Type
<1>7. ~Damaged(s, n + 1) /\ ~LineTooLong(s, n + 1)
  BY <1>3 DEF Damaged, LineTooLong
<1>8. ItemAt(s, n + 1) = EventAfter(t, n)
  BY <1>2 DEF ItemAt
<1>. QED
  BY <1>5, <1>6, <1>7, <1>8

\* What a line adds to the data, to the type and to the items.
Adds(line) == IF line[1] = "data" THEN Append(Tail(line), "LF") ELSE <<>>
Names(line, type) == IF line[1] = "event" THEN Tail(line) ELSE type
Hints(line) == IF IsHint(line) THEN <<Retry>> ELSE <<>>

Counted(s, t, line) ==
  /\ Data(s, Len(t) + 1) = Data(t, Len(t)) \o Adds(line)
  /\ Type(s, Len(t) + 1) = Names(line, Type(t, Len(t)))
  /\ Damaged(s, Len(t) + 1) <=> Damaged(t, Len(t)) \/ "bad" \in ToSet(line)
  /\ LineTooLong(s, Len(t) + 1)
       <=> LineTooLong(t, Len(t)) \/ Len(LineAfter(t, Len(t))) > MaxEvent
  /\ ItemAt(s, Len(t) + 1) = Hints(line)

\* Another line ends here: it counts.
LEMMA LineCounts ==
  ASSUME NEW s, NEW t, Longer(s, t), EndsLine(s, Len(t) + 1), NEW line,
         line = Content(t, Len(t)), line # <<>>
  PROVE  Counted(s, t, line)
<1>. DEFINE n == Len(t)
<1>1. n \in Nat /\ n \in 0 .. n /\ t \in Seq(Symbol) /\ n + 1 \notin 1 .. n
  BY DEF Longer
<1>2. ~Blank(s, n + 1) /\ Content(s, (n + 1) - 1) = line /\ LineAfter(s, (n + 1) - 1) = LineAfter(t, n)
      /\ Value(s, n + 1) = Tail(line)
  BY LastLine
<1>3. Block(s, n + 1) = Block(t, n) \cup {n + 1}
  BY <1>2, BlockGrows
<1>4. \A i \in Block(t, n) : /\ i \in 1 .. n /\ Content(s, i - 1) = Content(t, i - 1) /\ Value(s, i) = Value(t, i)
                             /\ LineAfter(s, i - 1) = LineAfter(t, i - 1)
  BY <1>1, BlockContentStays
<1>5. \A field : Named(t, n, field) \subseteq Block(t, n)
  BY DEF Named
<1>6. \A field : Named(s, n + 1, field) = Named(t, n, field) \cup (IF line[1] = field THEN {n + 1} ELSE {})
  BY NamedMore
<1>7. Data(s, n + 1) = Data(t, n) \o (IF line[1] = "data" THEN Append(Tail(line), "LF") ELSE <<>>)
  <2>. DEFINE last == IF line[1] = "data" THEN Append(Tail(line), "LF") ELSE <<>>
  <2>1. n + 1 \in Named(s, n + 1, "data") <=> line[1] = "data"
    <3>1. n + 1 \notin Named(t, n, "data")
      BY <1>1, <1>4, <1>5
    <3>. QED
      BY <1>6, <3>1
  <2>2. last = IF n + 1 \in Named(s, n + 1, "data") THEN Append(Value(s, n + 1), "LF") ELSE <<>>
    BY <1>2, <2>1
  <2>3. \A i \in 1 .. n : i \in Named(s, n + 1, "data") <=> i \in Named(t, n, "data")
    BY <1>1, <1>6
  <2>. HIDE DEF last
  <2>4. Data(s, n + 1) = Data(t, n) \o last
    BY <2>2, <2>3, DataGrows
  <2>. QED
    BY <2>4 DEF last
<1>8. Type(s, n + 1) = IF line[1] = "event" THEN Tail(line) ELSE Type(t, n)
  <2>. DEFINE old == Named(t, n, "event")
  <2>1. old \subseteq 1 .. n
    BY <1>4, <1>5
  <2>2. CASE line[1] = "event"
    <3>1. Named(s, n + 1, "event") = old \cup {n + 1}
      BY <1>6, <2>2
    <3>2. Max(old \cup {n + 1}) = n + 1
      <4>. HIDE DEF old
      <4>. QED
        BY <1>1, <2>1, MaxNext
    <3>3. Named(s, n + 1, "event") # {} /\ Max(Named(s, n + 1, "event")) = n + 1
      BY <3>1, <3>2
    <3>. QED
      BY <1>2, <2>2, <3>3 DEF Type
  <2>3. CASE line[1] # "event"
    <3>1. Named(s, n + 1, "event") = old
      BY <1>6, <2>3
    <3>2. old # {} => Max(old) \in old
      <4>1. old \subseteq 0 .. n
        BY <1>1, <2>1
      <4>. HIDE DEF old
      <4>. QED
        BY <1>1, <4>1, MaxOf
    <3>3. old # {} => Value(s, Max(old)) = Value(t, Max(old))
      BY <1>4, <1>5, <3>2
    <3>. QED
      BY <2>3, <3>1, <3>3 DEF Type
  <2>. QED
    BY <2>2, <2>3
<1>9. Damaged(s, n + 1) <=> Damaged(t, n) \/ "bad" \in ToSet(line)
  <2>1. \A i \in Block(t, n) : "bad" \in ToSet(Content(s, i - 1)) <=> "bad" \in ToSet(Content(t, i - 1))
    BY <1>4
  <2>2. "bad" \in ToSet(Content(s, (n + 1) - 1)) <=> "bad" \in ToSet(line)
    BY <1>2
  <2>. HIDE DEF n
  <2>. QED
    BY <1>3, <2>1, <2>2 DEF Damaged
<1>10. LineTooLong(s, n + 1) <=> LineTooLong(t, n) \/ Len(LineAfter(t, n)) > MaxEvent
  <2>1. \A i \in Block(t, n) : Len(LineAfter(s, i - 1)) > MaxEvent <=> Len(LineAfter(t, i - 1)) > MaxEvent
    BY <1>4
  <2>2. Len(LineAfter(s, (n + 1) - 1)) > MaxEvent <=> Len(LineAfter(t, n)) > MaxEvent
    BY <1>2
  <2>. DEFINE Long(i) == Len(LineAfter(s, i - 1)) > MaxEvent
              Old(i) == Len(LineAfter(t, i - 1)) > MaxEvent
  <2>3. LineTooLong(s, n + 1) <=> \E i \in Block(s, n + 1) : Long(i)
    BY DEF LineTooLong
  <2>4. LineTooLong(t, n) <=> \E i \in Block(t, n) : Old(i)
    BY DEF LineTooLong
  <2>5. (\A i \in Block(t, n) : Long(i) <=> Old(i)) /\ (Long(n + 1) <=> Len(LineAfter(t, n)) > MaxEvent)
    BY <2>1, <2>2
  <2>. HIDE DEF n, Long, Old
  <2>6. (\E i \in Block(s, n + 1) : Long(i)) <=> (\E i \in Block(t, n) : Old(i)) \/ Long(n + 1)
    BY <1>3, <2>5
  <2>. QED
    BY <2>3, <2>4, <2>5, <2>6
<1>11. ItemAt(s, n + 1) = IF IsHint(line) THEN <<Retry>> ELSE <<>>
  BY <1>2 DEF ItemAt
<1>. QED
  BY <1>7, <1>8, <1>9, <1>10, <1>11 DEF Adds, Names, Hints, Counted

-----------------------------------------------------------------------------
(* SSE: the parser and the grammar *)

\* What the parser holds is what the grammar says of the text so far.  The size of an event
\* that is not UTF-8 is of no interest, nor what it and an oversized one have for data.
Reports(p, t, n) ==
  /\ p.invalid <=> Damaged(t, n)
  /\ ~p.invalid => (p.oversized <=> TooLong(t, n))
  /\ ~p.invalid /\ ~p.oversized => p.data = Data(t, n) /\ p.type = Type(t, n)

Agrees(p, t) ==
  /\ p.atStart <=> LineStart(t, Len(t)) = 1
  /\ p.line = Kept(LineAfter(t, Len(t)))
  /\ Reports(p, t, Len(t))
  /\ p.items = ItemsOf(t)

Swallows(p, t) == p.swallow <=> Len(t) > 0 /\ t[Len(t)] = "CR"

Overflows(data, line) == line[1] = "data" /\ Len(data) + Len(Tail(line)) + 1 > MaxEvent

IsField(r, q, line) ==
  /\ r.line = q.line /\ r.atStart = q.atStart /\ r.invalid = q.invalid
  /\ r.items = q.items \o Hints(line)
  /\ r.type = Names(line, q.type)
  /\ r.oversized <=> q.oversized \/ Overflows(q.data, line)
  /\ ~q.oversized /\ ~Overflows(q.data, line) => r.data = q.data \o Adds(line)

LEMMA FieldIs ==
  ASSUME NEW q \in ParserType, NEW line \in Seq(Plain), line # <<>>, NEW r, r = Field(q, line)
  PROVE  IsField(r, q, line)
<1>. DEFINE long == Overflows(q.data, line)
            Thus == /\ r.line = q.line /\ r.atStart = q.atStart /\ r.invalid = q.invalid
                    /\ r.items = q.items \o (IF IsHint(line) THEN <<Retry>> ELSE <<>>)
                    /\ r.type = IF line[1] = "event" THEN Tail(line) ELSE q.type
                    /\ r.oversized <=> q.oversized \/ long
                    /\ ~q.oversized /\ ~long
                         => r.data = q.data \o (IF line[1] = "data" THEN Append(Tail(line), "LF") ELSE <<>>)
<1>. SUFFICES Thus
  BY DEF IsField, Hints, Names, Adds
<1>0. (long <=> line[1] = "data" /\ Len(q.data) + Len(Tail(line)) + 1 > MaxEvent) /\ long \in BOOLEAN
  BY DEF Overflows
<1>. HIDE DEF long
<1>1. q.items \in Seq(Item) /\ q.data \in Seq(Symbol) /\ q.oversized \in BOOLEAN
  BY DEF ParserType
<1>2. Append(q.items, Retry) = q.items \o <<Retry>> /\ q.items \o <<>> = q.items /\ q.data \o <<>> = q.data
  <2>1. Retry \in Item
    BY DEF Retry, Item
  <2>2. Append(q.items, Retry) = q.items \o <<Retry>>
    BY <1>1, <2>1, AppendIsConcat
  <2>3. q.items \o <<>> = q.items /\ q.data \o <<>> = q.data
    BY <1>1
  <2>. QED
    BY <2>2, <2>3
<1>3. CASE line[1] = "data"
  <2>1. r = AddData(q, Tail(line)) /\ ~IsHint(line) /\ line[1] # "event"
    BY <1>3 DEF Field, IsHint
  <2>2. CASE long
    <3>1. r = [q EXCEPT !.oversized = TRUE, !.data = <<>>]
      BY <1>0, <1>3, <2>1, <2>2 DEF AddData
    <3>. QED
      BY <1>2, <2>1, <2>2, <3>1 DEF ParserType
  <2>3. CASE ~long /\ q.oversized
    <3>1. r = q
      BY <1>0, <1>3, <2>1, <2>3 DEF AddData
    <3>. QED
      BY <1>2, <2>1, <2>3, <3>1 DEF ParserType
  <2>4. CASE ~long /\ ~q.oversized
    <3>. DEFINE more == q.data \o Tail(line) \o <<"LF">>
    <3>1. r = [q EXCEPT !.data = more]
      BY <1>0, <1>3, <2>1, <2>4 DEF AddData
    <3>2. more = q.data \o Append(Tail(line), "LF")
      <4>1. Tail(line) \in Seq(Symbol) /\ "LF" \in Symbol
        BY DEF Plain, Symbol
      <4>2. <<"LF">> \in Seq(Symbol)
        BY <4>1
      <4>3. more = q.data \o (Tail(line) \o <<"LF">>)
        <5>1. PICK u \in Seq(Symbol), v \in Seq(Symbol), w \in Seq(Symbol) :
                u = q.data /\ v = Tail(line) /\ w = <<"LF">>
          BY <1>1, <4>1, <4>2
        <5>2. (u \o v) \o w = u \o (v \o w)
          BY ConcatAssociative
        <5>. QED
          BY <5>1, <5>2
      <4>4. Append(Tail(line), "LF") = Tail(line) \o <<"LF">>
        BY <4>1, AppendIsConcat
      <4>. QED
        BY <4>3, <4>4
    <3>. HIDE DEF more
    <3>3. r.data = more /\ r.line = q.line /\ r.atStart = q.atStart /\ r.invalid = q.invalid /\ r.items = q.items
          /\ r.type = q.type /\ r.oversized = q.oversized
      BY <3>1 DEF ParserType
    <3>. QED
      BY <1>2, <1>3, <2>1, <2>4, <3>2, <3>3
  <2>. QED
    BY <2>2, <2>3, <2>4
<1>4. CASE line[1] = "event"
  <2>1. r = [q EXCEPT !.type = Tail(line)] /\ ~IsHint(line) /\ line[1] # "data" /\ ~long
    BY <1>0, <1>4 DEF Field, IsHint
  <2>. QED
    BY <1>2, <1>4, <2>1 DEF ParserType
<1>5. CASE line[1] = "retry" /\ IsHint(line)
  <2>1. r = [q EXCEPT !.items = Append(@, Retry)] /\ line[1] # "event" /\ line[1] # "data" /\ ~long
    BY <1>0, <1>5 DEF Field, IsHint
  <2>2. r.items = Append(q.items, Retry) /\ r.line = q.line /\ r.atStart = q.atStart /\ r.invalid = q.invalid
        /\ r.type = q.type /\ r.oversized = q.oversized /\ r.data = q.data
    BY <2>1 DEF ParserType
  <2>. QED
    BY <1>2, <1>5, <2>1, <2>2
<1>6. CASE line[1] \notin {"data", "event"} /\ ~IsHint(line)
  <2>. DEFINE typed == [q EXCEPT !.type = Tail(line)]  hinted == [q EXCEPT !.items = Append(@, Retry)]
  <2>1. line[1] # "event" /\ line[1] # "data" /\ ~long
    BY <1>0, <1>6
  <2>2. ~ (line[1] = "retry" /\ Len(line) > 1 /\ \A i \in 2 .. Len(line) : line[i] = "x")
    BY <1>6 DEF IsHint
  <2>. DEFINE hints == line[1] = "retry" /\ Len(line) > 1 /\ \A i \in 2 .. Len(line) : line[i] = "x"
  <2>3. r = CASE line[1] = "data" -> AddData(q, Tail(line))
              [] line[1] = "event" -> typed
              [] hints -> hinted
              [] OTHER -> q
    BY DEF Field
  <2>4. ~hints
    BY <2>2
  <2>. HIDE DEF typed, hinted, hints
  <2>5. r = q
    BY <2>1, <2>3, <2>4
  <2>. QED
    BY <1>2, <1>6, <2>1, <2>5
<1>7. IsHint(line) => line[1] = "retry"
  BY DEF IsHint
<1>. QED
  BY <1>3, <1>4, <1>5, <1>6, <1>7

IsDispatch(r, q, event) ==
  /\ r.line = q.line /\ r.atStart = q.atStart /\ r.items = q.items \o event
  /\ r.data = <<>> /\ r.type = NoType /\ r.oversized = FALSE /\ r.invalid = FALSE

LEMMA DispatchIs ==
  ASSUME NEW q \in ParserType, NEW t, NEW n, NEW r, r = Dispatch(q),
         Reports(q, t, n)
  PROVE  IsDispatch(r, q, EventAfter(t, n))
<1>. DEFINE item == IF q.invalid THEN <<InvalidUtf8>>
                    ELSE IF q.oversized THEN <<OversizedEvent>>
                    ELSE IF q.data # <<>> THEN <<Event(q.type, Front(q.data))>>
                    ELSE <<>>
            w == [q EXCEPT !.items = @ \o item]
<1>1. item = EventAfter(t, n)
  BY DEF EventAfter, Reports
<1>2. r = ResetEvent(w)
  BY DEF Dispatch
<1>. HIDE DEF item
<1>3. r = [w EXCEPT !.data = <<>>, !.type = NoType, !.oversized = FALSE, !.invalid = FALSE]
  BY <1>2 DEF ResetEvent
<1>4. r.line = q.line /\ r.atStart = q.atStart /\ r.items = q.items \o item
      /\ r.data = <<>> /\ r.type = NoType /\ r.oversized = FALSE /\ r.invalid = FALSE
  BY <1>3 DEF ParserType
<1>. QED
  BY <1>1, <1>4 DEF IsDispatch

\* A line has ended, blank or not.
LEMMA EndLineAgrees ==
  ASSUME NEW p \in Parsers, NEW s, NEW t, Longer(s, t), Agrees(p, t), EndsLine(s, Len(t) + 1), NEW r, r = EndLine(p)
  PROVE  Agrees(r, s)
<1>. DEFINE n == Len(t)
            raw == p.line
            line == IF p.atStart /\ raw # <<>> /\ raw[1] = "BOM" THEN Tail(raw) ELSE raw
            q == [p EXCEPT !.line = <<>>, !.atStart = FALSE]
<1>1. /\ n \in Nat /\ n \in 0 .. n /\ Len(s) = n + 1 /\ s \in Seq(Symbol) /\ t \in Seq(Symbol)
      /\ p \in ParserType /\ raw \in Seq(Plain) /\ MaxEvent \in Nat /\ n + 1 \in 0 .. n + 1
  BY SseAssumption DEF Longer, Parsers, ParserType, SseAssumption
<1>2. line = Content(t, n) /\ ("bad" \in ToSet(raw) <=> "bad" \in ToSet(line)) /\ line \in Seq(Plain)
  <2>1. raw = Kept(LineAfter(t, n)) /\ (p.atStart <=> LineStart(t, n) = 1)
    BY DEF Agrees
  <2>2. line = IF p.atStart THEN Unmarked(raw) ELSE raw
    BY DEF Unmarked
  <2>3. line = Content(t, n)
    BY <2>1, <2>2 DEF Content
  <2>4. "bad" \in ToSet(raw) <=> "bad" \in ToSet(Unmarked(raw))
    BY <1>1, UnmarkedIs
  <2>. QED
    BY <1>1, <2>2, <2>3, <2>4, ContentIs
<1>3. q.line = <<>> /\ q.atStart = FALSE /\ q.invalid = p.invalid /\ q.oversized = p.oversized /\ q.data = p.data
      /\ q.type = p.type /\ q.items = p.items /\ q \in ParserType
  <2>1. <<>> \in Seq(Plain)
    OBVIOUS
  <2>. QED
    BY <1>1, <2>1 DEF ParserType
<1>4. r = IF "bad" \in ToSet(raw) THEN [q EXCEPT !.invalid = TRUE]
          ELSE IF line = <<>> THEN Dispatch(q) ELSE Field(q, line)
  BY DEF EndLine
<1>. HIDE DEF q, line
<1>5. LineStart(s, n + 1) # 1 /\ LineAfter(s, n + 1) = <<>> /\ Kept(<<>>) = <<>> /\ ~ (Len(<<>>) > MaxEvent)
  <2>1. s[n + 1] \in Ending
    BY DEF EndsLine
  <2>2. LineStart(s, n + 1) = n + 2 /\ LineAfter(s, n + 1) = <<>>
    BY <2>1, LineStops
  <2>3. ~ (Len(<<>>) > MaxEvent)
    BY <1>1
  <2>4. n + 2 # 1
    BY <1>1
  <2>. QED
    BY <2>2, <2>3, <2>4 DEF Kept
<1>6. /\ TooLong(t, n) <=> LineTooLong(t, n) \/ Len(LineAfter(t, n)) > MaxEvent \/ Len(Data(t, n)) > MaxEvent
      /\ TooLong(s, n + 1) <=> LineTooLong(s, n + 1) \/ Len(Data(s, n + 1)) > MaxEvent
  <2>1. n + 1 \in Nat
    BY <1>1
  <2>2. TooLong(s, n + 1) <=> \/ LineTooLong(s, n + 1)
                              \/ Len(LineAfter(s, n + 1)) > MaxEvent
                              \/ Len(Data(s, n + 1)) > MaxEvent
    BY <2>1, TooLongIs
  <2>3. TooLong(t, n) <=> LineTooLong(t, n) \/ Len(LineAfter(t, n)) > MaxEvent \/ Len(Data(t, n)) > MaxEvent
    BY <1>1, TooLongIs
  <2>. QED
    BY <1>5, <2>2, <2>3
<1>7. Reports(p, t, n) /\ Reports(q, t, n) /\ p.items = ItemsOf(t)
  BY <1>3 DEF Agrees, Reports
<1>8. ItemsOf(s) = ItemsOf(t) \o ItemAt(s, n + 1) /\ ItemsOf(t) \in Seq(Item)
  BY ItemsGrow
<1>9. CASE line = <<>>
  <2>1. /\ Data(s, n + 1) = <<>> /\ Type(s, n + 1) = NoType /\ ~Damaged(s, n + 1) /\ ~LineTooLong(s, n + 1)
        /\ ItemAt(s, n + 1) = EventAfter(t, n)
    BY <1>2, <1>9, BlankEnds
  <2>2. r = Dispatch(q)
    <3>1. "bad" \notin ToSet(line)
      BY <1>9 DEF ToSet
    <3>. QED
      BY <1>2, <1>4, <1>9, <3>1
  <2>3. /\ r.line = q.line /\ r.atStart = q.atStart /\ r.items = q.items \o EventAfter(t, n)
        /\ r.data = <<>> /\ r.type = NoType /\ r.oversized = FALSE /\ r.invalid = FALSE
    <3>1. IsDispatch(r, q, EventAfter(t, n))
      BY <1>3, <1>7, <2>2, DispatchIs
    <3>. QED
      BY <3>1 DEF IsDispatch
  <2>4. ~TooLong(s, n + 1)
    BY <1>5, <1>6, <2>1
  <2>5. r.items = ItemsOf(s)
    BY <1>3, <1>7, <1>8, <2>1, <2>3
  <2>. QED
    BY <1>1, <1>3, <1>5, <2>1, <2>3, <2>4, <2>5 DEF Agrees, Reports
<1>10. ASSUME line # <<>>
       PROVE  /\ Data(s, n + 1) = Data(t, n) \o Adds(line)
              /\ Type(s, n + 1) = Names(line, Type(t, n))
              /\ Damaged(s, n + 1) <=> Damaged(t, n) \/ "bad" \in ToSet(line)
              /\ LineTooLong(s, n + 1) <=> LineTooLong(t, n) \/ Len(LineAfter(t, n)) > MaxEvent
              /\ ItemAt(s, n + 1) = Hints(line)
  <2>1. Counted(s, t, line)
    BY <1>2, <1>10, LineCounts
  <2>. QED
    BY <2>1 DEF Counted
<1>11. CASE line # <<>> /\ "bad" \in ToSet(raw)
  <2>1. r = [q EXCEPT !.invalid = TRUE]
    BY <1>4, <1>11
  <2>2. r.line = <<>> /\ r.atStart = FALSE /\ r.invalid = TRUE /\ r.items = p.items
    BY <1>3, <2>1 DEF ParserType
  <2>3. ~IsHint(line)
    <3>1. PICK i \in 1 .. Len(line) : line[i] = "bad"
      BY <1>2, <1>11, InSeq
    <3>2. i = 1 \/ i \in 2 .. Len(line)
      BY <1>2
    <3>. QED
      BY <3>1, <3>2 DEF IsHint
  <2>4. ItemAt(s, n + 1) = <<>> /\ Damaged(s, n + 1)
    BY <1>2, <1>10, <1>11, <2>3 DEF Hints
  <2>5. r.items = ItemsOf(s)
    BY <1>7, <1>8, <2>2, <2>4
  <2>. QED
    BY <1>1, <1>5, <2>2, <2>4, <2>5 DEF Agrees, Reports
<1>12. CASE line # <<>> /\ "bad" \notin ToSet(raw)
  <2>. DEFINE long == Overflows(q.data, line)
              last == Adds(line)
  <2>1. r = Field(q, line)
    BY <1>4, <1>12
  <2>2. /\ r.line = q.line /\ r.atStart = q.atStart /\ r.invalid = q.invalid
        /\ r.items = q.items \o Hints(line)
        /\ r.type = Names(line, q.type)
        /\ r.oversized <=> q.oversized \/ long
        /\ ~q.oversized /\ ~long => r.data = q.data \o last
    <3>1. IsField(r, q, line)
      BY <1>2, <1>3, <1>12, <2>1, FieldIs
    <3>. QED
      BY <3>1 DEF IsField
  <2>3. r.invalid <=> Damaged(s, n + 1)
    BY <1>2, <1>3, <1>7, <1>10, <1>12, <2>2 DEF Reports
  <2>4. r.items = ItemsOf(s)
    BY <1>3, <1>7, <1>8, <1>10, <1>12, <2>2
  <2>5. Len(last) \in Nat /\ (line[1] = "data" => Len(last) = Len(Tail(line)) + 1)
        /\ (line[1] # "data" => Len(last) = 0)
    <3>1. Tail(line) \in Seq(Plain)
      BY <1>2, <1>12
    <3>2. Len(<<>>) = 0 /\ Len(Append(Tail(line), "LF")) = Len(Tail(line)) + 1 /\ Len(Tail(line)) \in Nat
      BY <3>1
    <3>. QED
      BY <3>2 DEF Adds
  <2>6. Len(Data(s, n + 1)) = Len(Data(t, n)) + Len(last) /\ Len(Data(t, n)) \in Nat
    <3>1. Data(t, n) \in Seq(Symbol)
      BY <1>1, ValuesIs
    <3>2. last \in Seq(Symbol)
      <4>1. Tail(line) \in Seq(Symbol) /\ "LF" \in Symbol
        BY <1>2, <1>12 DEF Plain, Symbol
      <4>. QED
        BY <4>1 DEF Adds
    <3>3. Data(s, n + 1) = Data(t, n) \o last
      BY <1>10, <1>12
    <3>. HIDE DEF last
    <3>. QED
      BY <3>1, <3>2, <3>3
  <2>7. ASSUME ~r.invalid
        PROVE  /\ r.oversized <=> TooLong(s, n + 1)
               /\ ~r.oversized => r.data = Data(s, n + 1) /\ r.type = Type(s, n + 1)
    <3>1. ~p.invalid /\ (q.oversized <=> TooLong(t, n))
      BY <1>3, <1>7, <2>2, <2>7 DEF Reports
    <3>2. CASE TooLong(t, n)
      <4>1. TooLong(s, n + 1)
        <5>1. CASE LineTooLong(t, n) \/ Len(LineAfter(t, n)) > MaxEvent
          BY <1>6, <1>10, <1>12, <5>1
        <5>2. CASE Len(Data(t, n)) > MaxEvent
          <6>1. Len(Data(s, n + 1)) > MaxEvent
            BY <1>1, <2>5, <2>6, <5>2
          <6>. QED
            BY <1>6, <6>1
        <5>. QED
          BY <1>6, <3>2, <5>1, <5>2
      <4>. QED
        BY <2>2, <3>1, <3>2, <4>1
    <3>3. CASE ~TooLong(t, n)
      <4>1. q.data = Data(t, n) /\ q.type = Type(t, n) /\ ~q.oversized
        BY <1>3, <1>7, <3>1, <3>3 DEF Reports
      <4>2. ~LineTooLong(s, n + 1) /\ ~ (Len(Data(t, n)) > MaxEvent)
        BY <1>6, <1>10, <1>12, <3>3
      <4>3. long <=> Len(Data(s, n + 1)) > MaxEvent
        <5>1. CASE line[1] = "data"
          <6>1. Len(Tail(line)) \in Nat
            BY <1>2, <1>12
          <6>2. PICK k \in Nat, m \in Nat : k = Len(Data(t, n)) /\ m = Len(Tail(line))
            BY <2>6, <6>1
          <6>3. Len(last) = m + 1 /\ Len(Data(s, n + 1)) = k + (m + 1) /\ Len(q.data) = k
            BY <2>5, <2>6, <4>1, <5>1, <6>2
          <6>4. long <=> k + m + 1 > MaxEvent
            BY <5>1, <6>2, <6>3 DEF Overflows
          <6>. QED
            BY <1>1, <6>3, <6>4
        <5>2. CASE line[1] # "data"
          <6>1. ~long
            BY <5>2 DEF Overflows
          <6>2. Len(Data(s, n + 1)) = Len(Data(t, n))
            <7>. HIDE DEF last
            <7>. QED
              BY <2>5, <2>6, <5>2
          <6>. QED
            BY <4>2, <6>1, <6>2
        <5>. QED
          BY <5>1, <5>2
      <4>4. r.oversized <=> TooLong(s, n + 1)
        BY <1>6, <2>2, <4>1, <4>2, <4>3
      <4>5. ~r.oversized => r.data = Data(s, n + 1) /\ r.type = Type(s, n + 1)
        BY <1>10, <1>12, <2>2, <4>1
      <4>. QED
        BY <4>4, <4>5
    <3>. QED
      BY <3>2, <3>3
  <2>. HIDE DEF long, last
  <2>. QED
    BY <1>1, <1>3, <1>5, <2>2, <2>3, <2>4, <2>7 DEF Agrees, Reports
<1>. QED
  BY <1>9, <1>11, <1>12

LEMMA EndLineSwallows ==
  ASSUME NEW p \in ParserType
  PROVE  EndLine(p).swallow = p.swallow
<1>. DEFINE raw == p.line
            line == IF p.atStart /\ raw # <<>> /\ raw[1] = "BOM" THEN Tail(raw) ELSE raw
            q == [p EXCEPT !.line = <<>>, !.atStart = FALSE]
            w == [q EXCEPT !.invalid = TRUE]
<1>1. q.swallow = p.swallow /\ q \in ParserType
  <2>1. <<>> \in Seq(Plain)
    OBVIOUS
  <2>. QED
    BY <2>1 DEF ParserType
<1>2. EndLine(p) = IF "bad" \in ToSet(raw) THEN w ELSE IF line = <<>> THEN Dispatch(q) ELSE Field(q, line)
  BY DEF EndLine
<1>. HIDE DEF line, q
<1>3. w.swallow = q.swallow
  BY <1>1 DEF ParserType
<1>4. Dispatch(q).swallow = q.swallow
  <2>. DEFINE item == IF q.invalid THEN <<InvalidUtf8>>
                      ELSE IF q.oversized THEN <<OversizedEvent>>
                      ELSE IF q.data # <<>> THEN <<Event(q.type, Front(q.data))>>
                      ELSE <<>>
              v == [q EXCEPT !.items = @ \o item]
  <2>1. Dispatch(q) = ResetEvent(v)
    BY DEF Dispatch
  <2>. HIDE DEF item
  <2>2. Dispatch(q) = [v EXCEPT !.data = <<>>, !.type = NoType, !.oversized = FALSE, !.invalid = FALSE]
    BY <2>1 DEF ResetEvent
  <2>. QED
    BY <1>1, <2>2 DEF ParserType
<1>5. Field(q, line).swallow = q.swallow
  <2>. DEFINE added == AddData(q, Tail(line))
              typed == [q EXCEPT !.type = Tail(line)]
              hinted == [q EXCEPT !.items = Append(@, Retry)]
              hints == line[1] = "retry" /\ Len(line) > 1 /\ \A i \in 2 .. Len(line) : line[i] = "x"
  <2>1. Field(q, line) = CASE line[1] = "data" -> added
                            [] line[1] = "event" -> typed
                            [] hints -> hinted
                            [] OTHER -> q
    BY DEF Field
  <2>2. Field(q, line) \in {added, typed, hinted, q}
    <3>. HIDE DEF added, typed, hinted, hints
    <3>1. CASE line[1] = "data"
      BY <2>1, <3>1
    <3>2. CASE line[1] = "event"
      BY <2>1, <3>2
    <3>3. CASE line[1] # "data" /\ line[1] # "event" /\ hints
      BY <2>1, <3>3
    <3>4. CASE line[1] # "data" /\ line[1] # "event" /\ ~hints
      BY <2>1, <3>4
    <3>. QED
      BY <3>1, <3>2, <3>3, <3>4
  <2>3. added.swallow = q.swallow
    <3>. DEFINE more == q.data \o Tail(line) \o <<"LF">>
    <3>1. added \in {[q EXCEPT !.oversized = TRUE, !.data = <<>>], q, [q EXCEPT !.data = more]}
      BY DEF AddData
    <3>. HIDE DEF more, added
    <3>. QED
      BY <1>1, <3>1 DEF ParserType
  <2>4. typed.swallow = q.swallow /\ hinted.swallow = q.swallow
    BY <1>1 DEF ParserType
  <2>. HIDE DEF added, typed, hinted, hints
  <2>. QED
    BY <2>2, <2>3, <2>4
<1>. QED
  BY <1>1, <1>2, <1>3, <1>4, <1>5

\* Only the line feed to swallow is another.
LEMMA AgreesBesides ==
  ASSUME NEW p, NEW q, NEW t, Agrees(p, t), q.atStart = p.atStart, q.line = p.line, q.invalid = p.invalid,
         q.oversized = p.oversized, q.data = p.data, q.type = p.type, q.items = p.items
  PROVE  Agrees(q, t)
  BY DEF Agrees, Reports

LEMMA QuietReports ==
  ASSUME NEW p, NEW q, NEW s, NEW t, Longer(s, t), ~EndsLine(s, Len(t) + 1), Reports(p, t, Len(t)),
         q.invalid = p.invalid, q.data = p.data, q.type = p.type,
         q.oversized <=> p.oversized \/ Len(LineAfter(s, Len(t) + 1)) > MaxEvent,
         Len(LineAfter(t, Len(t))) > MaxEvent => p.oversized \/ p.invalid,
         Len(LineAfter(t, Len(t))) > MaxEvent
           => Len(LineAfter(s, Len(t) + 1)) > MaxEvent \/ LineTooLong(t, Len(t))
  PROVE  Reports(q, s, Len(t) + 1)
<1>. DEFINE n == Len(t)
<1>1. n \in Nat /\ n + 1 \in Nat
  BY DEF Longer
<1>2. /\ Data(s, n + 1) = Data(t, n) /\ Type(s, n + 1) = Type(t, n) /\ Damaged(s, n + 1) = Damaged(t, n)
      /\ LineTooLong(s, n + 1) = LineTooLong(t, n)
  BY QuietByte
<1>3. TooLong(t, n) <=> LineTooLong(t, n) \/ Len(LineAfter(t, n)) > MaxEvent \/ Len(Data(t, n)) > MaxEvent
  BY <1>1, TooLongIs
<1>4. TooLong(s, n + 1)
        <=> LineTooLong(s, n + 1) \/ Len(LineAfter(s, n + 1)) > MaxEvent \/ Len(Data(s, n + 1)) > MaxEvent
  BY <1>1, TooLongIs
<1>5. TooLong(s, n + 1) <=> TooLong(t, n) \/ Len(LineAfter(s, n + 1)) > MaxEvent
  BY <1>2, <1>3, <1>4
<1>6. q.invalid <=> Damaged(s, n + 1)
  BY <1>2 DEF Reports
<1>7. ~q.invalid => (q.oversized <=> TooLong(s, n + 1))
  BY <1>5 DEF Reports
<1>8. ~q.invalid /\ ~q.oversized => q.data = Data(s, n + 1) /\ q.type = Type(s, n + 1)
  BY <1>2 DEF Reports
<1>. QED
  BY <1>6, <1>7, <1>8 DEF Reports

LEMMA StepAgrees ==
  ASSUME NEW p \in Parsers, NEW s, NEW t, Longer(s, t), Agrees(p, t), Swallows(p, t), NEW b, b = s[Len(t) + 1]
  PROVE  Agrees(Step(p, b), s) /\ Swallows(Step(p, b), s)
<1>. DEFINE n == Len(t)  L == LineAfter(t, n)
<1>1. /\ n \in Nat /\ n \in 0 .. n /\ Len(s) = n + 1 /\ s \in Seq(Symbol) /\ t \in Seq(Symbol)
      /\ p \in ParserType /\ MaxEvent \in Nat /\ n + 1 > 0 /\ n + 1 \in Nat /\ b \in Symbol
  BY SseAssumption DEF Longer, Parsers, SseAssumption
<1>2. EndsLine(s, n + 1) <=> b \in Ending /\ ~ (b = "LF" /\ n > 0 /\ t[n] = "CR")
  <2>1. (n + 1 > 1 <=> n > 0) /\ (n + 1) - 1 = n
    BY <1>1
  <2>2. n > 0 => s[n] = t[n]
    <3>1. n > 0 => n \in 1 .. n
      BY <1>1
    <3>. QED
      BY <3>1, LongerTypes
  <2>. QED
    BY <2>1, <2>2 DEF EndsLine
<1>3. p.swallow <=> n > 0 /\ t[n] = "CR"
  BY DEF Swallows
<1>4. L \in Seq(Plain) /\ Len(L) = (n + 1) - LineStart(t, n) /\ Len(L) \in Nat
      /\ LineStart(t, n) \in 1 .. n + 1
  BY <1>1, LineAfterIs, LineStartIs
<1>5. ItemsOf(s) = ItemsOf(t) \o ItemAt(s, n + 1) /\ ItemsOf(t) \in Seq(Item)
  BY ItemsGrow
<1>6. p.line = Kept(L) /\ (p.atStart <=> LineStart(t, n) = 1) /\ Reports(p, t, n) /\ p.items = ItemsOf(t)
  BY DEF Agrees
<1>7. ~EndsLine(s, n + 1) => ItemsOf(s) = p.items
  <2>. SUFFICES ASSUME ~EndsLine(s, n + 1) PROVE ItemsOf(s) = p.items
    OBVIOUS
  <2>1. ItemAt(s, n + 1) = <<>>
    BY QuietByte
  <2>. QED
    BY <1>5, <1>6, <2>1
<1>8. CASE b = "LF" /\ p.swallow
  <2>. DEFINE q == [p EXCEPT !.swallow = FALSE]
  <2>1. Step(p, b) = q
    BY <1>8 DEF Step
  <2>2. q.swallow = FALSE /\ q.line = p.line /\ q.atStart = p.atStart /\ q.invalid = p.invalid
        /\ q.oversized = p.oversized /\ q.data = p.data /\ q.type = p.type /\ q.items = p.items
    BY <1>1 DEF ParserType
  <2>. HIDE DEF q
  <2>3. ~EndsLine(s, n + 1) /\ b \in Ending
    BY <1>2, <1>3, <1>8 DEF Ending
  <2>4. LineStart(s, n + 1) = n + 2 /\ LineAfter(s, n + 1) = <<>>
    BY <2>3, LineStops
  <2>5. LineStart(t, n) = n + 1 /\ n > 0 /\ n + 1 # 1 /\ n + 2 # 1
    <3>1. t[n] \in Ending /\ n > 0
      BY <1>3, <1>8 DEF Ending
    <3>2. LineStart(t, n) = n + 1
      BY <1>1, <3>1, LineStartIs
    <3>. QED
      BY <1>1, <3>1, <3>2
  <2>6. L = <<>>
    <3>1. Len(L) = 0
      BY <1>1, <1>4, <2>5
    <3>. QED
      BY <1>4, <3>1
  <2>7. ~ (Len(<<>>) > MaxEvent)
    BY <1>1
  <2>8. Reports(q, s, n + 1)
    BY <1>6, <2>2, <2>3, <2>4, <2>6, <2>7, QuietReports
  <2>9. Agrees(q, s)
    BY <1>1, <1>6, <1>7, <2>2, <2>3, <2>4, <2>5, <2>6, <2>8 DEF Agrees
  <2>10. Swallows(q, s)
    BY <1>1, <1>8, <2>2 DEF Swallows
  <2>. QED
    BY <2>1, <2>9, <2>10
<1>9. CASE b = "LF" /\ ~p.swallow
  <2>1. EndsLine(s, n + 1)
    BY <1>2, <1>3, <1>9 DEF Ending
  <2>2. Step(p, b) = EndLine(p)
    BY <1>9 DEF Step
  <2>3. Agrees(EndLine(p), s)
    BY <2>1, EndLineAgrees
  <2>4. EndLine(p).swallow = p.swallow
    BY <1>1, EndLineSwallows
  <2>5. Swallows(EndLine(p), s)
    BY <1>1, <1>9, <2>4 DEF Swallows
  <2>. QED
    BY <2>2, <2>3, <2>5
<1>10. CASE b = "CR"
  <2>. DEFINE r == EndLine(p)  q == [r EXCEPT !.swallow = TRUE]
  <2>1. EndsLine(s, n + 1)
    BY <1>2, <1>10 DEF Ending
  <2>2. Step(p, b) = q
    BY <1>10 DEF Step
  <2>3. Agrees(r, s)
    BY <2>1, EndLineAgrees
  <2>4. r \in ParserType
    BY EndLineParses DEF Parsers
  <2>. HIDE DEF r
  <2>5. q.swallow = TRUE /\ q.line = r.line /\ q.atStart = r.atStart /\ q.invalid = r.invalid
        /\ q.oversized = r.oversized /\ q.data = r.data /\ q.type = r.type /\ q.items = r.items
    BY <2>4 DEF ParserType
  <2>. HIDE DEF q
  <2>6. Agrees(q, s)
    BY <2>3, <2>5, AgreesBesides
  <2>7. Swallows(q, s)
    BY <1>1, <1>10, <2>5 DEF Swallows
  <2>. QED
    BY <2>2, <2>6, <2>7
<1>11. CASE b \notin {"LF", "CR"}
  <2>. DEFINE M == Append(L, b)  r == Step(p, b)
  <2>1. b \in Plain /\ b \notin Ending /\ ~EndsLine(s, n + 1)
    BY <1>1, <1>2, <1>11 DEF Plain, Ending
  <2>2. LineStart(s, n + 1) = LineStart(t, n) /\ LineAfter(s, n + 1) = M
    BY <2>1, LineGrows
  <2>3. M \in Seq(Plain) /\ Len(M) = Len(L) + 1
    BY <1>4, <2>1
  <2>4. CASE Len(L) < MaxEvent
    <3>. DEFINE q == [p EXCEPT !.swallow = FALSE, !.line = M]
    <3>1. p.line = L /\ Len(p.line) < MaxEvent
      <4>1. Kept(L) = L
        BY <1>1, <1>4, <2>4, KeptIs
      <4>. QED
        BY <1>6, <2>4, <4>1
    <3>2. r = q
      BY <1>11, <3>1 DEF Step
    <3>. HIDE DEF M
    <3>3. q.swallow = FALSE /\ q.line = M /\ q.atStart = p.atStart /\ q.invalid = p.invalid
          /\ q.oversized = p.oversized /\ q.data = p.data /\ q.type = p.type /\ q.items = p.items
      BY <1>1 DEF ParserType
    <3>. HIDE DEF q
    <3>4. Kept(M) = M /\ ~ (Len(M) > MaxEvent) /\ ~ (Len(L) > MaxEvent)
      <4>1. PICK k \in Nat : k = Len(L)
        BY <1>4
      <4>2. k < MaxEvent /\ Len(M) = k + 1
        BY <2>3, <2>4, <4>1
      <4>3. Len(M) <= MaxEvent /\ ~ (Len(M) > MaxEvent) /\ ~ (k > MaxEvent)
        BY <1>1, <4>2
      <4>4. Kept(M) = M
        BY <2>3, <4>3, KeptIs
      <4>. QED
        BY <4>1, <4>3, <4>4
    <3>5. Reports(q, s, n + 1)
      <4>1. ~ (Len(LineAfter(s, n + 1)) > MaxEvent)
        BY <2>2, <3>4
      <4>2. q.oversized <=> p.oversized \/ Len(LineAfter(s, n + 1)) > MaxEvent
        BY <3>3, <4>1
      <4>. QED
        BY <1>6, <2>1, <3>3, <3>4, <4>2, QuietReports
    <3>6. Agrees(q, s)
      BY <1>1, <1>6, <1>7, <2>1, <2>2, <3>3, <3>4, <3>5 DEF Agrees
    <3>7. Swallows(q, s)
      BY <1>1, <1>11, <3>3 DEF Swallows
    <3>. QED
      BY <3>2, <3>6, <3>7
  <2>5. CASE ~ (Len(L) < MaxEvent)
    <3>. DEFINE q == [p EXCEPT !.swallow = FALSE, !.oversized = TRUE]
    <3>1. ~ (Len(p.line) < MaxEvent)
      <4>1. Len(L) = MaxEvent \/ Len(L) > MaxEvent
        BY <1>1, <1>4, <2>5
      <4>2. Len(Kept(L)) = MaxEvent
        <5>1. CASE Len(L) = MaxEvent
          BY <1>1, <1>4, <5>1, KeptIs
        <5>2. CASE Len(L) > MaxEvent
          BY <1>1, <1>4, <5>2, KeptIs
        <5>. QED
          BY <4>1, <5>1, <5>2
      <4>. QED
        BY <1>1, <1>6, <4>2
    <3>2. r = q
      BY <1>11, <3>1 DEF Step
    <3>3. q.swallow = FALSE /\ q.line = p.line /\ q.atStart = p.atStart /\ q.invalid = p.invalid
          /\ q.oversized = TRUE /\ q.data = p.data /\ q.type = p.type /\ q.items = p.items
      BY <1>1 DEF ParserType
    <3>. HIDE DEF q
    <3>4. Len(M) > MaxEvent
      BY <1>1, <1>4, <2>3, <2>5
    <3>5. Kept(M) = Kept(L)
      <4>1. SubSeq(M, 1, MaxEvent) = Kept(L)
        <5>1. CASE Len(L) = MaxEvent
          <6>1. Kept(L) = L
            BY <1>1, <1>4, <5>1, KeptIs
          <6>2. SubSeq(M, 1, MaxEvent) = L
            BY <1>1, <1>4, <2>1, <5>1
          <6>. QED
            BY <6>1, <6>2
        <5>2. CASE Len(L) > MaxEvent
          <6>1. Kept(L) = SubSeq(L, 1, MaxEvent)
            BY <5>2 DEF Kept
          <6>2. SubSeq(M, 1, MaxEvent) = SubSeq(L, 1, MaxEvent)
            BY <1>1, <1>4, <2>1, <5>2
          <6>. QED
            BY <6>1, <6>2
        <5>. QED
          BY <1>1, <1>4, <2>5, <5>1, <5>2
      <4>. QED
        BY <3>4, <4>1 DEF Kept
    <3>. HIDE DEF M
    <3>6. ~p.invalid /\ Len(L) > MaxEvent => p.oversized
      <4>1. Len(L) > MaxEvent => TooLong(t, n)
        BY <1>1, TooLongIs
      <4>. QED
        BY <1>6, <4>1 DEF Reports
    <3>7. Reports(q, s, n + 1)
      <4>1. Len(L) > MaxEvent => p.oversized \/ p.invalid
        BY <3>6
      <4>2. q.oversized <=> p.oversized \/ Len(LineAfter(s, n + 1)) > MaxEvent
        BY <2>2, <3>3, <3>4
      <4>3. Len(LineAfter(s, n + 1)) > MaxEvent
        BY <2>2, <3>4
      <4>. QED
        BY <1>6, <2>1, <3>3, <4>1, <4>2, <4>3, QuietReports
    <3>8. Agrees(q, s)
      BY <1>1, <1>6, <1>7, <2>1, <2>2, <3>3, <3>5, <3>7 DEF Agrees
    <3>9. Swallows(q, s)
      BY <1>1, <1>11, <3>3 DEF Swallows
    <3>. QED
      BY <3>2, <3>8, <3>9
  <2>. QED
    BY <2>4, <2>5
<1>. QED
  BY <1>8, <1>9, <1>10, <1>11

\* The text up to a byte of the chunk.
UpTo(t, chunk, n) == t \o SubSeq(chunk, 1, n)

LEMMA UpToIs ==
  ASSUME NEW t \in Seq(Symbol), NEW chunk \in Seq(Symbol)
  PROVE  /\ UpTo(t, chunk, 0) = t
         /\ UpTo(t, chunk, Len(chunk)) = t \o chunk
         /\ \A n \in 0 .. Len(chunk) - 1 :
              /\ Longer(UpTo(t, chunk, n + 1), UpTo(t, chunk, n))
              /\ UpTo(t, chunk, n + 1)[Len(UpTo(t, chunk, n)) + 1] = chunk[n + 1]
<1>1. UpTo(t, chunk, 0) = t
  <2>1. SubSeq(chunk, 1, 0) = <<>>
    OBVIOUS
  <2>. QED
    BY <2>1 DEF UpTo
<1>2. UpTo(t, chunk, Len(chunk)) = t \o chunk
  <2>1. SubSeq(chunk, 1, Len(chunk)) = chunk
    OBVIOUS
  <2>. QED
    BY <2>1 DEF UpTo
<1>3. ASSUME NEW n \in 0 .. Len(chunk)
      PROVE  /\ UpTo(t, chunk, n) \in Seq(Symbol) /\ Len(UpTo(t, chunk, n)) = Len(t) + n
             /\ \A i \in 1 .. Len(t) : UpTo(t, chunk, n)[i] = t[i]
             /\ \A i \in Len(t) + 1 .. Len(t) + n : UpTo(t, chunk, n)[i] = chunk[i - Len(t)]
  <2>. DEFINE c == SubSeq(chunk, 1, n)
  <2>1. c \in Seq(Symbol) /\ Len(c) = n /\ \A i \in 1 .. n : c[i] = chunk[i]
    OBVIOUS
  <2>. HIDE DEF c
  <2>2. t \o c \in Seq(Symbol) /\ Len(t \o c) = Len(t) + n
    BY <2>1
  <2>3. \A i \in 1 .. Len(t) : (t \o c)[i] = t[i]
    BY <2>1
  <2>4. ASSUME NEW i \in Len(t) + 1 .. Len(t) + n
        PROVE  (t \o c)[i] = chunk[i - Len(t)]
    <3>1. i - Len(t) \in 1 .. n /\ Len(t) \in Nat
      OBVIOUS
    <3>2. (t \o c)[i] = c[i - Len(t)]
      BY <2>1, <3>1
    <3>. QED
      BY <2>1, <3>1, <3>2
  <2>. QED
    BY <2>2, <2>3, <2>4 DEF UpTo, c
<1>4. ASSUME NEW n \in 0 .. Len(chunk) - 1
      PROVE  /\ Longer(UpTo(t, chunk, n + 1), UpTo(t, chunk, n))
             /\ UpTo(t, chunk, n + 1)[Len(UpTo(t, chunk, n)) + 1] = chunk[n + 1]
  <2>. DEFINE u == UpTo(t, chunk, n)  v == UpTo(t, chunk, n + 1)  m == Len(t)
  <2>1. n \in 0 .. Len(chunk) /\ n + 1 \in 0 .. Len(chunk) /\ m \in Nat
    OBVIOUS
  <2>2. /\ u \in Seq(Symbol) /\ Len(u) = m + n
        /\ \A i \in 1 .. m : u[i] = t[i]
        /\ \A i \in m + 1 .. m + n : u[i] = chunk[i - m]
    BY <1>3, <2>1
  <2>3. /\ v \in Seq(Symbol) /\ Len(v) = m + (n + 1)
        /\ \A i \in 1 .. m : v[i] = t[i]
        /\ \A i \in m + 1 .. m + (n + 1) : v[i] = chunk[i - m]
    BY <1>3, <2>1
  <2>. HIDE DEF u, v, m
  <2>4. ASSUME NEW i \in 1 .. m + n
        PROVE  v[i] = u[i]
    <3>1. i \in 1 .. m \/ (i \in m + 1 .. m + n /\ i \in m + 1 .. m + (n + 1))
      BY <2>1
    <3>. QED
      BY <2>2, <2>3, <3>1
  <2>5. v[(m + n) + 1] = chunk[n + 1]
    <3>1. (m + n) + 1 \in m + 1 .. m + (n + 1) /\ ((m + n) + 1) - m = n + 1
      BY <2>1
    <3>. QED
      BY <2>3, <3>1
  <2>6. Len(v) = Len(u) + 1
    BY <2>1, <2>2, <2>3
  <2>7. Longer(v, u)
    BY <2>2, <2>3, <2>4, <2>6 DEF Longer
  <2>. QED
    BY <2>2, <2>5, <2>7 DEF u, v
<1>. QED
  BY <1>1, <1>2, <1>4

\* The parsers a chunk leads through, from p, in its first n bytes.
Walks(f, p, chunk, n) == f = [k \in 0 .. n |-> IF k = 0 THEN p ELSE Step(f[k - 1], chunk[k])]

LEMMA WalksIs ==
  ASSUME NEW f, NEW p, NEW chunk, NEW n \in Nat, Walks(f, p, chunk, n)
  PROVE  /\ f[0] = p
         /\ \A k \in 0 .. n - 1 : f[k + 1] = Step(f[k], chunk[k + 1])
<1>1. ASSUME NEW k \in 0 .. n
      PROVE  f[k] = IF k = 0 THEN p ELSE Step(f[k - 1], chunk[k])
  BY DEF Walks
<1>2. ASSUME NEW k \in 0 .. n - 1
      PROVE  f[k + 1] = Step(f[k], chunk[k + 1])
  <2>1. k + 1 \in 0 .. n /\ k + 1 # 0 /\ (k + 1) - 1 = k
    OBVIOUS
  <2>. QED
    BY <1>1, <2>1
<1>3. 0 \in 0 .. n
  OBVIOUS
<1>. QED
  BY <1>1, <1>2, <1>3

LEMMA FedWalks ==
  ASSUME NEW p, NEW chunk \in Seq(Symbol)
  PROVE  \E f : Walks(f, p, chunk, Len(chunk)) /\ Fed(p, chunk) = f[Len(chunk)]
<1>. DEFINE N == Len(chunk)
            S == {n \in Nat : \E f : Walks(f, p, chunk, n)}
            after == CHOOSE f : Walks(f, p, chunk, N)
<1>1. N \in Nat
  OBVIOUS
<1>. HIDE DEF N
<1>2. 0 \in S
  <2>1. Walks([k \in 0 .. 0 |-> p], p, chunk, 0)
    BY DEF Walks
  <2>. QED
    BY <2>1
<1>3. ASSUME NEW n \in Nat, n \in S
      PROVE  n + 1 \in S
  <2>1. PICK f : Walks(f, p, chunk, n)
    BY <1>3
  <2>. DEFINE g == [k \in 0 .. n + 1 |-> IF k = n + 1 THEN Step(f[n], chunk[n + 1]) ELSE f[k]]
  <2>2. ASSUME NEW k \in 0 .. n + 1
        PROVE  g[k] = IF k = 0 THEN p ELSE Step(g[k - 1], chunk[k])
    <3>1. CASE k = n + 1
      <4>1. k # 0 /\ k - 1 = n /\ n \in 0 .. n + 1 /\ n # n + 1
        BY <3>1
      <4>2. g[k] = Step(f[n], chunk[n + 1]) /\ g[n] = f[n]
        BY <3>1, <4>1
      <4>. HIDE DEF g
      <4>. QED
        BY <3>1, <4>1, <4>2
    <3>2. CASE k = 0
      <4>1. 0 # n + 1 /\ 0 \in 0 .. n + 1
        OBVIOUS
      <4>2. f[0] = p
        BY <2>1, WalksIs
      <4>. QED
        BY <3>2, <4>1, <4>2
    <3>3. CASE k # 0 /\ k # n + 1
      <4>1. k - 1 \in 0 .. n - 1 /\ k - 1 \in 0 .. n + 1 /\ k - 1 # n + 1 /\ (k - 1) + 1 = k
        BY <3>3
      <4>2. f[(k - 1) + 1] = Step(f[k - 1], chunk[(k - 1) + 1])
        BY <2>1, <4>1, WalksIs
      <4>3. g[k] = f[k] /\ g[k - 1] = f[k - 1]
        BY <3>3, <4>1
      <4>. HIDE DEF g
      <4>. QED
        BY <3>3, <4>1, <4>2, <4>3
    <3>. QED
      BY <3>1, <3>2, <3>3
  <2>3. g = [k \in 0 .. n + 1 |-> g[k]]
    OBVIOUS
  <2>. HIDE DEF g
  <2>4. Walks(g, p, chunk, n + 1)
    BY <2>2, <2>3 DEF Walks
  <2>. QED
    BY <2>4
<1>4. N \in S
  <2>1. \A n \in Nat : n < N /\ n \in S => n + 1 \in S
    BY <1>3
  <2>2. N \in 0 .. N
    BY <1>1
  <2>. HIDE DEF S
  <2>3. 0 .. N \subseteq S
    BY <1>1, <1>2, <2>1, Induct
  <2>. QED
    BY <2>2, <2>3
<1>5. Walks(after, p, chunk, N)
  BY <1>4, Zenon
<1>6. Fed(p, chunk) = after[N]
  BY DEF Fed, N, Walks
<1>. HIDE DEF after
<1>. QED
  BY <1>5, <1>6 DEF N

\* A parser and the text it has read.
Reads(p, t) == p \in Parsers /\ Agrees(p, t) /\ Swallows(p, t)

LEMMA FedReads ==
  ASSUME NEW p, NEW t \in Seq(Symbol), Reads(p, t), NEW chunk \in Seq(Symbol)
  PROVE  Reads(Fed(p, chunk), t \o chunk)
<1>. DEFINE N == Len(chunk)
<1>1. PICK f : Walks(f, p, chunk, N) /\ Fed(p, chunk) = f[N]
  BY FedWalks
<1>. DEFINE T == {n \in Nat : n <= N => Reads(f[n], UpTo(t, chunk, n))}
<1>2. N \in Nat /\ N \in 0 .. N /\ \A k \in 1 .. N : chunk[k] \in Symbol
  OBVIOUS
<1>3. /\ UpTo(t, chunk, 0) = t /\ UpTo(t, chunk, N) = t \o chunk
      /\ \A n \in 0 .. N - 1 : /\ Longer(UpTo(t, chunk, n + 1), UpTo(t, chunk, n))
                               /\ UpTo(t, chunk, n + 1)[Len(UpTo(t, chunk, n)) + 1] = chunk[n + 1]
  BY UpToIs
<1>. HIDE DEF N
<1>4. f[0] = p /\ \A k \in 0 .. N - 1 : f[k + 1] = Step(f[k], chunk[k + 1])
  BY <1>1, <1>2, WalksIs
<1>5. 0 \in T
  BY <1>3, <1>4
<1>6. ASSUME NEW n \in Nat, n < N, n \in T
      PROVE  n + 1 \in T
  <2>1. n \in 0 .. N - 1 /\ n + 1 \in 1 .. N /\ n <= N /\ n + 1 \in Nat
    BY <1>2, <1>6
  <2>2. Reads(f[n], UpTo(t, chunk, n))
    BY <1>6, <2>1
  <2>3. f[n + 1] = Step(f[n], chunk[n + 1]) /\ chunk[n + 1] \in Symbol
    BY <1>2, <1>4, <2>1
  <2>4. Longer(UpTo(t, chunk, n + 1), UpTo(t, chunk, n))
    BY <1>3, <2>1
  <2>5. UpTo(t, chunk, n + 1)[Len(UpTo(t, chunk, n)) + 1] = chunk[n + 1]
    BY <1>3, <2>1
  <2>6. Agrees(f[n + 1], UpTo(t, chunk, n + 1)) /\ Swallows(f[n + 1], UpTo(t, chunk, n + 1))
    BY <2>2, <2>3, <2>4, <2>5, StepAgrees DEF Reads
  <2>7. f[n + 1] \in Parsers
    BY <2>2, <2>3, StepParses DEF Reads
  <2>8. Reads(f[n + 1], UpTo(t, chunk, n + 1))
    BY <2>6, <2>7 DEF Reads
  <2>. QED
    BY <2>1, <2>8
<1>7. 0 .. N \subseteq T
  <2>1. \A n \in Nat : n < N /\ n \in T => n + 1 \in T
    BY <1>6
  <2>. HIDE DEF T
  <2>. QED
    BY <1>2, <1>5, <2>1, Induct
<1>8. Reads(f[N], UpTo(t, chunk, N))
  BY <1>2, <1>7
<1>. QED
  BY <1>1, <1>3, <1>8

\* Before the first byte.
LEMMA NewParses == NewParser \in Parsers
<1>1. /\ <<>> \in Seq(Plain) /\ <<>> \in Seq(Symbol \ {"CR"}) /\ <<>> \in Seq(Item) /\ Len(<<>>) <= MaxEvent
  BY SseAssumption DEF SseAssumption
<1>. QED
  BY <1>1 DEF NewParser, Parsers, ParserType

LEMMA NewReads == Reads(NewParser, <<>>)
<1>1. /\ <<>> \in Seq(Symbol) /\ <<>> \in Seq(Plain) /\ Len(<<>>) = 0 /\ 0 \in 0 .. 0 /\ 0 \in Nat
      /\ DOMAIN <<>> = 1 .. 0 /\ 1 .. 0 = {} /\ ~ (0 > MaxEvent)
  BY SseAssumption DEF SseAssumption
<1>2. LineStart(<<>>, 0) = 1
  BY <1>1 DEF LineStart, After
<1>3. LineAfter(<<>>, 0) = <<>>
  <2>1. SubSeq(<<>>, 1, 0) = <<>>
    OBVIOUS
  <2>. QED
    BY <1>2, <2>1 DEF LineAfter
<1>4. Kept(<<>>) = <<>>
  BY <1>1 DEF Kept
<1>5. Block(<<>>, 0) = {}
  <2>1. Block(<<>>, 0) \subseteq 1 .. 0
    BY <1>1, BlockIs
  <2>. QED
    BY <1>1, <2>1
<1>6. ~Damaged(<<>>, 0) /\ ~LineTooLong(<<>>, 0) /\ \A field : Named(<<>>, 0, field) = {}
  BY <1>5 DEF Damaged, LineTooLong, Named
<1>7. Type(<<>>, 0) = NoType
  BY <1>6 DEF Type
<1>8. Data(<<>>, 0) = <<>>
  <2>1. [i \in 1 .. 0 |-> IF i \in Named(<<>>, 0, "data") THEN Append(Value(<<>>, i), "LF") ELSE <<>>]
        = [i \in 1 .. 0 |-> <<>>]
    BY <1>1
  <2>2. FlattenSeq([i \in 1 .. 0 |-> <<>>]) = <<>>
    BY <1>1, FlattenNothing
  <2>. QED
    BY <2>1, <2>2 DEF Data
<1>9. ~TooLong(<<>>, 0)
  BY <1>1, <1>3, <1>6, <1>8, TooLongIs
<1>10. ItemsOf(<<>>) = <<>>
  <2>1. [i \in DOMAIN <<>> |-> ItemAt(<<>>, i)] = [i \in 1 .. 0 |-> <<>>]
    BY <1>1
  <2>2. FlattenSeq([i \in 1 .. 0 |-> <<>>]) = <<>>
    BY <1>1, FlattenNothing
  <2>. QED
    BY <2>1, <2>2 DEF ItemsOf
<1>11. Reports(NewParser, <<>>, 0)
  BY <1>6, <1>7, <1>8, <1>9 DEF Reports, NewParser
<1>12. Agrees(NewParser, <<>>)
  BY <1>1, <1>2, <1>3, <1>4, <1>10, <1>11 DEF Agrees, NewParser
<1>13. Swallows(NewParser, <<>>)
  BY <1>1 DEF Swallows, NewParser
<1>. QED
  BY <1>12, <1>13, NewParses DEF Reads

\* The parser agrees with the text until the body ends; its items do for ever.
BodyInv ==
  /\ parser \in Parsers /\ text \in Seq(Symbol)
  /\ chunks \in 0 .. MaxChunks /\ ended \in BOOLEAN
  /\ SseItemsAreTheText
  /\ ~ended => Reads(parser, text)

LEMMA BodyInvInit == BodyInit \/ NoBody => BodyInv
<1>1. BodyInit \/ NoBody => parser = NewParser /\ text = <<>> /\ chunks = 0 /\ ended \in BOOLEAN
  BY DEF BodyInit, NoBody
<1>2. <<>> \in Seq(Symbol) /\ 0 \in 0 .. MaxChunks
  BY SseAssumption DEF SseAssumption
<1>3. NewParser.items = ItemsOf(<<>>)
  BY NewReads DEF Reads, Agrees
<1>. QED
  BY <1>1, <1>2, <1>3, NewReads, NewParses DEF BodyInv, SseItemsAreTheText

LEMMA BodyInvKept ==
  ASSUME BodyInv, [BodyNext]_bodyVars
  PROVE  BodyInv'
<1>1. CASE EndOfBody
  <2>. DEFINE q == [parser EXCEPT !.line = <<>>]
  <2>1. <<>> \in Seq(Plain) /\ Len(<<>>) <= MaxEvent
    BY SseAssumption DEF SseAssumption
  <2>2. q \in ParserType /\ Len(q.line) <= MaxEvent /\ q.items = parser.items
    BY <2>1 DEF BodyInv, Parsers, ParserType
  <2>3. parser' = ResetEvent(q)
    BY <1>1 DEF EndOfBody
  <2>. HIDE DEF q
  <2>4. parser' \in Parsers
    BY <2>2, <2>3, ResetParses
  <2>5. parser'.items = parser.items
    BY <2>2, <2>3 DEF ResetEvent, ParserType
  <2>. QED
    BY <1>1, <2>4, <2>5 DEF BodyInv, EndOfBody, SseItemsAreTheText
<1>2. ASSUME NEW chunk \in Chunks, Feed(chunk)
      PROVE  BodyInv'
  <2>1. chunk \in Seq(Symbol) /\ text \in Seq(Symbol)
    BY SseAssumption DEF SseAssumption, BodyInv
  <2>2. Reads(parser, text)
    BY <1>2 DEF BodyInv, Feed
  <2>3. Reads(Fed(parser, chunk), text \o chunk)
    BY <2>1, <2>2, FedReads
  <2>4. Reads(parser', text')
    BY <1>2, <2>3 DEF Feed
  <2>5. text' \in Seq(Symbol)
    BY <1>2, <2>1 DEF Feed
  <2>6. chunks' \in 0 .. MaxChunks
    BY <1>2, SseAssumption DEF Feed, BodyInv, SseAssumption
  <2>. QED
    BY <1>2, <2>4, <2>5, <2>6 DEF Feed, BodyInv, SseItemsAreTheText, Reads, Agrees
<1>3. CASE UNCHANGED bodyVars
  BY <1>3 DEF bodyVars, BodyInv, SseItemsAreTheText
<1>. QED
  BY <1>1, <1>2, <1>3 DEF BodyNext

\* Whatever a body says and in whatever chunks it comes, the parser returns what the
\* grammar finds in it: no event is lost, split or reported twice.
THEOREM ItemsAreTheText == BodySpec => []SseItemsAreTheText
<1>1. BodyInv => SseItemsAreTheText
  BY DEF BodyInv
<1>. QED
  BY <1>1, BodyInvInit, BodyInvKept, PTL DEF BodySpec

LEMMA BodyInvTypes == BodyInv => BodyTypeOK
  BY DEF BodyInv, BodyTypeOK, Parsers, ParserType, Plain

-----------------------------------------------------------------------------
(* The three together *)

StdioFlags ==
  /\ actor \in {"select", "sending", "closing", "reaping", "closed"}
  /\ writerUp \in BOOLEAN /\ writeDead \in BOOLEAN

TransportInv == StdinInv /\ ReaderInv /\ StdioFlags /\ HttpInv /\ BodyInv

LEMMA StdioFlagsKept ==
  ASSUME StdioFlags, [StdioNext]_stdioVars
  PROVE  StdioFlags'
<1>. USE DEF StdioFlags
<1>1. CASE UNCHANGED stdioVars
  BY <1>1 DEF stdioVars, outVars
<1>2. CASE StdioCommand \/ StdioShutdown
  BY <1>2 DEF StdioCommand, StdioShutdown, outVars
<1>3. CASE Sending
  BY <1>3 DEF Sending, Enqueue, SendFails, outVars
<1>4. CASE Writer \/ AbortWriter
  BY <1>4 DEF Writer, WriterTakes, WritePart, GiveUp, WriterDrained, AbortWriter, WriterEnds
<1>5. CASE WriterJoined \/ Reap
  BY <1>5 DEF WriterJoined, Reap, outVars
<1>6. CASE Child
  BY <1>6 DEF Child, ChildReads, ChildWrites, ChildExits, outVars
<1>7. CASE Receiving
  <2>1. \A item : Return(item) => actor' \in {actor, "sending"}
    BY DEF Return
  <2>2. \A bytes : Search(bytes) => actor' \in {actor, "sending"}
    BY <2>1 DEF Search
  <2>3. \A bytes : Discard(bytes) => actor' \in {actor, "sending"}
    BY <2>1 DEF Discard
  <2>4. Receiving => actor' \in {actor, "sending", "closing"}
    BY <2>1, <2>2, <2>3 DEF Receiving, Poll, Read, EndOfStream, ReadFails
  <2>. QED
    BY <1>7, <2>4, ReceivingMove DEF outVars
<1>. QED
  BY <1>1, <1>2, <1>3, <1>4, <1>5, <1>6, <1>7 DEF StdioNext, Closing

LEMMA TransportInvInit == Init => TransportInv
<1>1. StdioInit \/ NoStdio => StdioFlags
  BY DEF StdioInit, NoStdio, StdioFlags
<1>. QED
  BY <1>1, BodyInvInit, StdinInvInit, ReaderInvInit, HttpInvInit DEF Init, TransportInv

LEMMA StdioRests ==
  ASSUME StdinInv, ReaderInv, StdioFlags, UNCHANGED stdioVars
  PROVE  StdinInv' /\ ReaderInv' /\ StdioFlags'
  BY StdinInvKept, ReaderInvKept, StdioFlagsKept

LEMMA HttpRests == HttpInv /\ UNCHANGED httpVars => HttpInv'
  BY HttpInvKept

LEMMA BodyRests == BodyInv /\ UNCHANGED bodyVars => BodyInv'
  BY BodyInvKept

LEMMA TransportInvKept == TransportInv /\ [Next]_<<stdioVars, httpVars, bodyVars>> => TransportInv'
<1>. SUFFICES ASSUME TransportInv, [Next]_<<stdioVars, httpVars, bodyVars>> PROVE TransportInv'
  OBVIOUS
<1>. USE DEF TransportInv
<1>1. CASE StdioNext /\ UNCHANGED <<httpVars, bodyVars>>
  <2>1. UNCHANGED httpVars /\ UNCHANGED bodyVars
    BY <1>1
  <2>. QED
    BY <1>1, <2>1, StdinInvKept, ReaderInvKept, StdioFlagsKept, HttpRests, BodyRests
<1>2. CASE HttpNext /\ UNCHANGED <<stdioVars, bodyVars>>
  <2>1. UNCHANGED stdioVars /\ UNCHANGED bodyVars
    BY <1>2
  <2>. QED
    BY <1>2, <2>1, StdioRests, HttpInvKept, BodyRests
<1>3. CASE BodyNext /\ UNCHANGED <<stdioVars, httpVars>>
  <2>1. UNCHANGED stdioVars /\ UNCHANGED httpVars
    BY <1>3
  <2>. QED
    BY <1>3, <2>1, StdioRests, HttpRests, BodyInvKept
<1>4. CASE UNCHANGED <<stdioVars, httpVars, bodyVars>>
  <2>1. UNCHANGED stdioVars /\ UNCHANGED httpVars /\ UNCHANGED bodyVars
    BY <1>4
  <2>. QED
    BY <2>1, StdioRests, HttpRests, BodyRests
<1>. QED
  BY <1>1, <1>2, <1>3, <1>4 DEF Next

\* Whichever transport there is, each of its parts keeps its types and every queue and
\* buffer its bound: no line or event of a peer's makes the SSE parser keep more than
\* max_event_bytes of either.
THEOREM TransportTypes == Spec => []TypeOK
<1>1. ASSUME TransportInv PROVE TypeOK
  <2>1. StdioTypeOK
    BY <1>1, OutputType DEF TransportInv, StdinInv, StdinTypes, ReaderInv, ReaderTypes, StdioFlags, StdioTypeOK, Byte
  <2>. QED
    BY <1>1, <2>1, BodyInvTypes DEF TransportInv, HttpInv, TypeOK
<1>. QED
  BY <1>1, TransportInvInit, TransportInvKept, PTL DEF Spec

\* And all of the above holds of it.
THEOREM TransportsKeepTheirWord ==
  Spec => []( /\ StdinIsWhatWasSent /\ ShortLinesArrive
              /\ FinishedPostsAnswer /\ LifecycleInOrder
              /\ SseItemsAreTheText)
<1>1. TransportInv => StdinIsWhatWasSent /\ ShortLinesArrive
  BY DEF TransportInv, StdinInv, Gapless, StdinIsWhatWasSent, ReaderInv
<1>2. TransportInv => FinishedPostsAnswer /\ LifecycleInOrder /\ SseItemsAreTheText
  BY AnswersFollow, OrderFollows DEF TransportInv, BodyInv
<1>. QED
  BY <1>1, <1>2, TransportInvInit, TransportInvKept, PTL DEF Spec

=============================================================================
