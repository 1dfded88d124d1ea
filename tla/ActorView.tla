------------------------------ MODULE ActorView ------------------------------
(***************************************************************************)
(* What the session router relies on from one connection actor: it takes   *)
(* the commands queued for it in order, remembers which call a client id   *)
(* stands for, turns an answer into one Response for that call, and says   *)
(* once that it has ended.  Of the proxy's own requests, which stand in    *)
(* the same queue, it is seen only that they are taken.  The event queue   *)
(* is the session's: other actors emit into it too.  These are the steps   *)
(* module Router gives an actor.  Connection implements them with minted   *)
(* ids, two indexes and handlers that wait.                                *)
(***************************************************************************)
EXTENDS Naturals, Sequences

CONSTANTS
  Id,        \* ids a client may give to its requests
  Call,      \* CallIds
  Own,       \* commands that are about no call
  Other,     \* an event of another actor
  None,
  EventCap   \* capacity of the event queue

VARIABLES
  commands,  \* the commands queued, oldest first
  pending,   \* id -> the call an answer would be for
  actor,     \* "up", "ending" (to report its end), "closing", "gone", or "unheard"
             \* once the session no longer listens
  events     \* the event queue

vars == <<commands, pending, actor, events>>

\* A command and the call it is about, or one about none.  A Cancel names an id; which
\* call it is meant for, the actor is not told.
Commands ==
  [kind: {"Forward"}, id: Id, call: Call]
    \cup [kind: {"Cancel"}, id: Id, call: Call \cup {None}] \cup Own

Nobody == [id \in Id |-> None]

Init == commands = <<>> /\ pending = Nobody /\ actor = "up" /\ events = <<>>

Response(id, call) == [kind |-> "Response", id |-> id, call |-> call]
Notice(kind) == [kind |-> kind, id |-> None, call |-> None]

Emit(event) == Len(events) < EventCap /\ events' = Append(events, event)

Take(kind) ==
  /\ actor = "up"
  /\ commands # <<>> /\ Head(commands).kind = kind
  /\ commands' = Tail(commands)

Becomes(id, call) == pending' = [pending EXCEPT ![id] = call]

-----------------------------------------------------------------------------
(* The session *)

Send ==
  /\ actor \in {"up", "ending", "closing"}
  /\ \E command \in Commands : commands' = Append(commands, command)
  /\ UNCHANGED <<pending, actor, events>>

Receive ==
  /\ actor # "unheard" /\ events # <<>>
  /\ events' = Tail(events)
  /\ UNCHANGED <<commands, pending, actor>>

OthersEmit ==
  /\ actor # "unheard" /\ Emit(Other)
  /\ UNCHANGED <<commands, pending, actor>>

StopListening ==
  /\ actor' = "unheard" /\ commands' = <<>> /\ pending' = Nobody /\ events' = <<>>

-----------------------------------------------------------------------------
(* The actor *)

\* The new call takes over the id, whatever it stood for.
SendUpstream ==
  /\ Take("Forward")
  /\ Becomes(Head(commands).id, Head(commands).call)
  /\ UNCHANGED <<actor, events>>

\* A call that cannot be translated is answered by the actor.
RejectForward ==
  /\ Take("Forward")
  /\ Becomes(Head(commands).id, None)
  /\ Emit(Response(Head(commands).id, Head(commands).call))
  /\ UNCHANGED actor

CancelUpstream ==
  /\ Take("Cancel")
  /\ Becomes(Head(commands).id, None)
  /\ UNCHANGED <<actor, events>>

TakeOwn ==
  /\ actor = "up"
  /\ commands # <<>> /\ Head(commands) \in Own
  /\ commands' = Tail(commands)
  /\ UNCHANGED <<pending, actor, events>>

Respond(id) ==
  /\ actor = "up" /\ pending[id] # None
  /\ Becomes(id, None)
  /\ Emit(Response(id, pending[id]))
  /\ UNCHANGED <<commands, actor>>

Notify ==
  /\ actor = "up"
  /\ \E kind \in {"Notification", "ListChanged"} : Emit(Notice(kind))
  /\ UNCHANGED <<commands, pending, actor>>

\* The transport ends, or fails under the command being taken.
LoseUpstream ==
  /\ actor = "up" /\ actor' = "ending"
  /\ pending' = Nobody
  /\ UNCHANGED events
  /\ \/ UNCHANGED commands
     \/ commands # <<>> /\ commands' = Tail(commands)

ReportEnd ==
  /\ actor = "ending" /\ actor' = "closing"
  /\ Emit(Notice("Ended"))
  /\ UNCHANGED <<commands, pending>>

CloseTransport ==
  /\ actor = "closing" /\ actor' = "gone"
  /\ commands' = <<>>
  /\ UNCHANGED <<pending, events>>

ActorStep ==
  \/ SendUpstream \/ RejectForward \/ CancelUpstream \/ TakeOwn \/ Notify
  \/ \E id \in Id : Respond(id)
  \/ LoseUpstream \/ ReportEnd \/ CloseTransport

Next == Send \/ Receive \/ OthersEmit \/ StopListening \/ ActorStep

Spec == Init /\ [][Next]_vars

=============================================================================
