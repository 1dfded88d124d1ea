----------------------------- MODULE Transports -----------------------------
(***************************************************************************)
(* The transport of one upstream (enum Transport): a child's stdio, or     *)
(* streamable HTTP - and, on its own, one SSE body the latter reads.  One  *)
(* of the three is there from the start; the others look like a transport  *)
(* that has been closed.                                                   *)
(***************************************************************************)
EXTENDS StdioTransport, HttpTransport, Sse

NoStdio ==
  /\ actor = "closed" /\ child = "exited" /\ writerUp = FALSE
  /\ sent = 0 /\ outbound = <<>> /\ writing = Nothing /\ writeDead = FALSE
  /\ stdin = <<>> /\ childGot = <<>>
  /\ reading = "idle" /\ buf = <<>> /\ spoken = 0 /\ heard = 0 /\ received = <<>>

NoBody == parser = NewParser /\ text = <<>> /\ chunks = 0 /\ ended = TRUE

Init ==
  \/ StdioInit /\ NoHttp /\ NoBody
  \/ NoStdio /\ HttpInit /\ NoBody
  \/ NoStdio /\ NoHttp /\ BodyInit

Next ==
  \/ StdioNext /\ UNCHANGED <<httpVars, bodyVars>>
  \/ HttpNext /\ UNCHANGED <<stdioVars, bodyVars>>
  \/ BodyNext /\ UNCHANGED <<stdioVars, httpVars>>

Spec == Init /\ [][Next]_<<stdioVars, httpVars, bodyVars>> /\ StdioFairness /\ HttpFairness

\* Every part keeps its types, and its queues their bounds.
TypeOK == StdioTypeOK /\ HttpTypeOK /\ BodyTypeOK

\* Whatever the peer does or leaves undone, a send, the handshake and a close come
\* to an end, what was read gets through, and the GET stream is tried again.
NeverHangs == StdioNeverHangs /\ HttpNeverHangs

=============================================================================
