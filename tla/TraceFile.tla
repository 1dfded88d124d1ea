------------------------------ MODULE TraceFile ------------------------------
(***************************************************************************)
(* The trace file of --trace (JsonlSink in flavium-cli): every process     *)
(* that is given the same path appends to it, one line per event.  A write *)
(* may fail after any part of its line, and the process may die in the     *)
(* middle of one.                                                          *)
(*                                                                         *)
(* A piece is what one event left in the file: its whole line, or the      *)
(* beginning of it without the newline, in which case the next piece goes  *)
(* on in the same line of text.                                            *)
(***************************************************************************)
EXTENDS Naturals, Sequences, FiniteSets

CONSTANTS
  MaxRuns,   \* bound: processes started one after the other
  MaxEvents  \* bound: events one of them records

ASSUME TraceAssumption == MaxRuns \in Nat \ {0} /\ MaxEvents \in Nat \ {0}

VARIABLES
  file,      \* the pieces in the file
  run,       \* the process, for the session id its lines carry
  sink,      \* "none", "open", or "failed" (State::failed)
  seq        \* State::seq

\* History: the events record said were written.
VARIABLE accepted

traceVars == <<file, run, sink, seq, accepted>>

Piece == [run: 1 .. MaxRuns, seq: 1 .. MaxEvents, whole: BOOLEAN]

TraceTypeOK ==
  /\ file \in Seq(Piece)
  /\ run \in 1 .. MaxRuns
  /\ sink \in {"none", "open", "failed"}
  /\ seq \in 0 .. MaxEvents
  /\ accepted \subseteq (1 .. MaxRuns) \X (1 .. MaxEvents)

TraceInit == file = <<>> /\ run = 1 /\ sink = "none" /\ seq = 0 /\ accepted = {}

-----------------------------------------------------------------------------

\* JsonlSink::create opens the file for appending, and touches nothing in it.
Create ==
  /\ sink' = "open" /\ seq' = 0
  /\ UNCHANGED <<file, run, accepted>>

Write(whole) == file' = Append(file, [run |-> run, seq |-> seq + 1, whole |-> whole])

RecordOk ==
  /\ sink = "open" /\ seq < MaxEvents
  /\ Write(TRUE)
  /\ seq' = seq + 1
  /\ accepted' = accepted \cup {<<run, seq + 1>>}
  /\ UNCHANGED <<run, sink>>

\* Mutant: the next event is tried again after an error.
RecordFailsOnce ==
  /\ sink = "open" /\ seq < MaxEvents
  /\ Write(FALSE) \/ UNCHANGED file
  /\ seq' = seq + 1
  /\ UNCHANGED <<run, sink, accepted>>

\* The write fails, with none or some of the line in the file.
RecordFails ==
  /\ sink = "open" /\ seq < MaxEvents
  /\ Write(FALSE) \/ UNCHANGED file
  /\ seq' = seq + 1 /\ sink' = "failed"
  /\ UNCHANGED <<run, accepted>>

\* Every later event is refused.
RecordRefused == sink = "failed" /\ UNCHANGED traceVars

\* The process is killed, perhaps in the middle of a line.
Die ==
  /\ \/ sink = "open" /\ seq < MaxEvents /\ Write(FALSE)
     \/ UNCHANGED file
  /\ sink' = "none" /\ seq' = 0
  /\ UNCHANGED <<run, accepted>>

-----------------------------------------------------------------------------

\* What a run left in the file.
OfRun(r) == {file[i] : i \in {j \in DOMAIN file : file[j].run = r}}

\* A run's lines stand together, numbered from one without a gap; at most its last is cut
\* off, so the only line a cut-off one can run into is the first of a later run; and all
\* that record reported as written is there whole.
TraceFileIsWhole ==
  /\ \A i \in DOMAIN file :
       \/ file[i].seq = 1 /\ (i > 1 => file[i - 1].run < file[i].run)
       \/ i > 1 /\ file[i - 1] = [run |-> file[i].run, seq |-> file[i].seq - 1, whole |-> TRUE]
  /\ \A a \in accepted :
       \E i \in DOMAIN file : file[i] = [run |-> a[1], seq |-> a[2], whole |-> TRUE]

=============================================================================
