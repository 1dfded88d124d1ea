------------------------------ MODULE CallLife ------------------------------
(***************************************************************************)
(* What a session promises about a tool call to whoever reads its trace.   *)
(*                                                                         *)
(* A call is settled on the spot - refused, denied, or allowed but not     *)
(* forwarded - and answered; or it is opened, sent to an upstream, and     *)
(* later closed with one outcome, with an answer if it was completed.      *)
(* When the audit fails nothing more happens to any call.  The session is  *)
(* closed when no call is open, or when the audit has failed.              *)
(*                                                                         *)
(* Request ids, upstreams, queues and tool lists do not appear: Router     *)
(* implements this specification whatever they do.                         *)
(***************************************************************************)
EXTENDS Naturals

CONSTANT MaxCalls  \* the calls of a session are numbered below this

VARIABLES
  life,     \* what the trace says of each call
  replies,  \* how often each call was answered
  sent,     \* the calls an upstream connection was given
  audit,    \* "up", or "failed" once an event could not be recorded
  closed    \* the session has ended and said so

vars == <<life, replies, sent, audit, closed>>

Call == 0 .. MaxCalls - 1

Settled == {"refused", "denied", "notForwarded"}
Outcomes == {"completed", "cancelled", "abandoned"}

Init ==
  /\ life = [c \in Call |-> "unborn"]
  /\ replies = [c \in Call |-> 0]
  /\ sent = {}
  /\ audit = "up"
  /\ closed = FALSE

\* The session is running and recording.
Recording == audit = "up" /\ ~closed

Becomes(c, state) == life' = [life EXCEPT ![c] = state]
Reply(c) == replies' = [replies EXCEPT ![c] = @ + 1]

Settle(c, how) ==
  /\ Recording /\ life[c] = "unborn"
  /\ Becomes(c, how) /\ Reply(c)
  /\ UNCHANGED <<sent, audit, closed>>

Open(c) ==
  /\ Recording /\ life[c] = "unborn"
  /\ Becomes(c, "open")
  /\ sent' = sent \cup {c}
  /\ UNCHANGED <<replies, audit, closed>>

\* A cancelled call is closed even when the next event, that its cancellation was
\* not passed on, is the one that cannot be recorded.
Close(c, outcome) ==
  /\ Recording /\ life[c] = "open"
  /\ Becomes(c, outcome)
  /\ IF outcome = "completed" THEN Reply(c) ELSE UNCHANGED replies
  /\ audit' = audit \/ (outcome = "cancelled" /\ audit' = "failed")
  /\ UNCHANGED <<sent, closed>>

\* An event is not recorded.  If it was about a new call, the call is lost to the
\* trace, or stays open in it for ever; it is neither sent nor answered.
AuditFails ==
  /\ Recording
  /\ audit' = "failed"
  /\ \/ UNCHANGED life
     \/ \E c \in Call, state \in {"open", "lost"} : life[c] = "unborn" /\ Becomes(c, state)
  /\ UNCHANGED <<replies, sent, closed>>

CloseSession ==
  /\ ~closed
  /\ audit = "failed" \/ \A c \in Call : life[c] # "open"
  /\ closed' = TRUE
  /\ UNCHANGED <<life, replies, sent, audit>>

Next ==
  \/ AuditFails \/ CloseSession
  \/ \E c \in Call :
       \/ \E how \in Settled : Settle(c, how)
       \/ Open(c)
       \/ \E outcome \in Outcomes : Close(c, outcome)

Spec == Init /\ [][Next]_vars

=============================================================================
