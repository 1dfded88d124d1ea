----------------------------- MODULE Connection -----------------------------
(***************************************************************************)
(* One connection actor (connection::Actor) with its PendingMap: the queue *)
(* of commands, the ids it mints towards its upstream, the requests of the *)
(* proxy's own, progress tokens, handlers that wait for room in the event  *)
(* queue, and its end.  The session is here as far as it talks to the      *)
(* actor: it claims client ids, forwards and cancels with try_send, drains *)
(* events, and may stop at any time.                                       *)
(*                                                                         *)
(* The handshake (connect, initialize) is over: it minted id 0.            *)
(***************************************************************************)
EXTENDS Integers, Sequences, FiniteSets

CONSTANTS
  Id,          \* ids the client gives to its requests
  Caller,      \* tasks that send a request of the proxy's own, once (Handle::call)
  Token,       \* progress tokens
  None,        \* the absent value
  CommandCap,  \* COMMAND_QUEUE
  EventCap,    \* CLIENT_QUEUE_FRAMES
  MaxCalls,    \* bound: calls the session forwards here
  MaxMinted    \* bound: ids the actor mints

Call == 0 .. MaxCalls - 1
Minted == 0 .. MaxMinted - 1
Optional(S) == S \cup {None}

\* Pending::Client and Pending::Internal
Client(id, call) == [kind |-> "client", id |-> id, call |-> call]
Internal(caller) == [kind |-> "internal", caller |-> caller]

Requests == [kind: {"Request"}, caller: Caller]

Commands ==
  [kind: {"Forward", "Cancel"}, id: Id, call: Call] \cup Requests \cup [kind: {"Shutdown"}]

Entries == [kind: {"client"}, id: Id, call: Call] \cup [kind: {"internal"}, caller: Caller]

Events ==
  [kind: {"Response"}, id: Id, call: Call]
    \cup [kind: {"Notification", "ListChanged", "Ended"}, id: {None}, call: {None}]

\* An event a handler waits with; the rest is history (Emit).
Held == [event: Events, before: Optional(Call), taken: Seq(Commands)]

ASSUME ConnectionAssumption ==
  /\ {CommandCap, EventCap, MaxCalls, MaxMinted} \subseteq Nat \ {0}
  /\ None \notin Id \cup Caller \cup Token \cup Call \cup Minted
  /\ None \notin Entries /\ None \notin Held

-----------------------------------------------------------------------------
(* State *)

VARIABLES
  commands,     \* the actor's command queue
  task,         \* "running", "reporting" (waits to send its last event), "closing"
                \* (its transport) or "gone"
  held,         \* what a handler waits to emit, None if none does
  nextId,       \* PendingMap::next_id
  pending,      \* PendingMap::pending: minted id -> what it stands for
  byClient,     \* PendingMap::by_client: client id -> minted id
  tokenOf,      \* progress_tokens: minted id -> token
  tokenCounts   \* token_counts: token -> count

VARIABLES
  events,       \* the event queue
  claimed,      \* the session's ClientTable, its calls to this upstream
  nextCall,     \* calls the session has forwarded
  over,         \* the serve loop has returned: nobody takes events
  callers       \* per caller: "idle", "sending" (waits for room), "waiting" (for the
                \* answer), or how its request ended

\* History: how often each call was answered by the actor, and the calls whose
\* cancellation found their mapping.
VARIABLES replied, withdrawn

mapVars     == <<nextId, pending, byClient>>
tokenVars   == <<tokenOf, tokenCounts>>
sessionVars == <<claimed, nextCall, over>>
history     == <<replied, withdrawn>>
vars == <<commands, task, held, mapVars, tokenVars, events, sessionVars, callers, history>>

Init ==
  /\ commands = <<>> /\ task = "running" /\ held = None
  /\ nextId = 1
  /\ pending = [n \in Minted |-> None]
  /\ byClient = [id \in Id |-> None]
  /\ tokenOf = [n \in Minted |-> None]
  /\ tokenCounts = [token \in Token |-> 0]
  /\ events = <<>>
  /\ claimed = [id \in Id |-> None] /\ nextCall = 0 /\ over = FALSE
  /\ callers = [k \in Caller |-> "idle"]
  /\ replied = [c \in Call |-> 0] /\ withdrawn = {}

-----------------------------------------------------------------------------
(* The session, and the tasks that call *)

Room == task # "gone" /\ Len(commands) < CommandCap
Put(command) == commands' = Append(commands, command)

ForClient(kind, id, call) == [kind |-> kind, id |-> id, call |-> call]

\* on_tools_call: the frame is queued, or the call is answered as busy and its
\* claim released.
ForwardCall(id) ==
  /\ ~over /\ claimed[id] = None
  /\ nextCall < MaxCalls /\ nextCall' = nextCall + 1
  /\ IF Room THEN Put(ForClient("Forward", id, nextCall)) /\ claimed' = [claimed EXCEPT ![id] = nextCall]
             ELSE UNCHANGED <<commands, claimed>>
  /\ UNCHANGED <<task, held, mapVars, tokenVars, events, over, callers, history>>

\* notifications/cancelled: the claim is gone at once; a cancellation the queue
\* has no room for is dropped.
CancelCall(id) ==
  /\ ~over /\ claimed[id] # None
  /\ claimed' = [claimed EXCEPT ![id] = None]
  /\ IF Room THEN Put(ForClient("Cancel", id, claimed[id])) ELSE UNCHANGED commands
  /\ UNCHANGED <<task, held, mapVars, tokenVars, events, nextCall, over, callers, history>>

\* on_upstream_event: only the Response of the call that holds the id releases it.
Serve ==
  /\ events # <<>> /\ Head(events).kind # "Ended"
  /\ events' = Tail(events)
  /\ claimed' = [id \in Id |->
       IF Head(events).kind = "Response" /\ Head(events).id = id /\ Head(events).call = claimed[id]
       THEN None ELSE claimed[id]]
  /\ UNCHANGED <<commands, task, held, mapVars, tokenVars, nextCall, over, callers, history>>

\* run, once serve has returned: Shutdown if there is room (else the channel is
\* closed behind what is queued), and the tasks that call are aborted.
EndSession ==
  /\ ~over /\ over' = TRUE
  /\ events' = <<>> /\ claimed' = [id \in Id |-> None]
  /\ IF Room THEN Put([kind |-> "Shutdown"]) ELSE UNCHANGED commands
  /\ callers' = [k \in Caller |->
       IF callers[k] \in {"sending", "waiting"} THEN "aborted" ELSE callers[k]]
  /\ UNCHANGED <<task, held, mapVars, tokenVars, nextCall, history>>

\* The actor's end ends the session.
UpstreamEnds == events # <<>> /\ Head(events).kind = "Ended" /\ EndSession

CallerIs(k, state) ==
  /\ callers' = [callers EXCEPT ![k] = state]
  /\ UNCHANGED <<task, held, mapVars, tokenVars, events, sessionVars, history>>

\* Handle::call: send waits for room; the deadline runs from the moment the
\* request is queued.
Ask(k) ==
  /\ ~over /\ callers[k] = "idle"
  /\ CallerIs(k, IF task = "gone" THEN "closed" ELSE "sending")
  /\ UNCHANGED commands

Enqueue(k) ==
  /\ callers[k] = "sending" /\ Room
  /\ Put([kind |-> "Request", caller |-> k])
  /\ CallerIs(k, "waiting")

\* Mutant: the deadline is only looked at once the actor is leaving.
TimeoutLate(k) ==
  /\ callers[k] = "waiting" /\ task # "running"
  /\ CallerIs(k, "timeout")
  /\ UNCHANGED commands

Timeout(k) ==
  /\ callers[k] = "waiting"
  /\ CallerIs(k, "timeout")
  /\ UNCHANGED commands

-----------------------------------------------------------------------------
(* PendingMap and tokens *)

\* Mutant: the stale entry stays when its id is mapped anew.
InsertClientKeepsStale(id, call) ==
  /\ nextId < MaxMinted /\ nextId' = nextId + 1
  /\ pending' = [pending EXCEPT ![nextId] = Client(id, call)]
  /\ byClient' = [byClient EXCEPT ![id] = nextId]

\* Mutant: an id that is mapped already keeps its mapping.
InsertClientKeepsFirst(id, call) ==
  /\ nextId < MaxMinted /\ nextId' = nextId + 1
  /\ pending' = [pending EXCEPT ![nextId] = Client(id, call)]
  /\ byClient' = [byClient EXCEPT ![id] = IF @ = None THEN nextId ELSE @]

\* insert_client: a mapping the id still has is replaced, its entry forgotten.
InsertClient(id, call) ==
  /\ nextId < MaxMinted /\ nextId' = nextId + 1
  /\ pending' = [n \in Minted |->
       IF n = nextId THEN Client(id, call) ELSE IF n = byClient[id] THEN None ELSE pending[n]]
  /\ byClient' = [byClient EXCEPT ![id] = nextId]

\* insert_client and cancel_client at once.
InsertAndCancel(id) ==
  /\ nextId < MaxMinted /\ nextId' = nextId + 1
  /\ pending' = [n \in Minted |-> IF n = byClient[id] THEN None ELSE pending[n]]
  /\ byClient' = [byClient EXCEPT ![id] = None]

InsertInternal(caller) ==
  /\ nextId < MaxMinted /\ nextId' = nextId + 1
  /\ pending' = [pending EXCEPT ![nextId] = Internal(caller)]
  /\ UNCHANGED byClient

\* Mutant: the id is freed, the entry stays.
RemoveIndexOnly(n, ids) ==
  /\ byClient' = [id \in Id |-> IF id \in ids THEN None ELSE byClient[id]]
  /\ UNCHANGED <<nextId, pending>>

\* complete and cancel_client: an entry goes, and from the other map the id it is known by.
Remove(n, ids) ==
  /\ pending' = [pending EXCEPT ![n] = None]
  /\ byClient' = [id \in Id |-> IF id \in ids THEN None ELSE byClient[id]]
  /\ UNCHANGED nextId

CarryToken(n, token) ==
  /\ tokenOf' = [tokenOf EXCEPT ![n] = token]
  /\ tokenCounts' = [t \in Token |-> tokenCounts[t] + IF t = token THEN 1 ELSE 0]

\* Mutant: the first request to finish takes the token away from the others.
ReleaseTokenForAll(n) ==
  /\ tokenOf' = [tokenOf EXCEPT ![n] = None]
  /\ tokenCounts' = [t \in Token |-> IF t = tokenOf[n] THEN 0 ELSE tokenCounts[t]]

\* release_token
ReleaseToken(n) ==
  /\ tokenOf' = [tokenOf EXCEPT ![n] = None]
  /\ tokenCounts' = [t \in Token |-> tokenCounts[t] - IF t = tokenOf[n] THEN 1 ELSE 0]

-----------------------------------------------------------------------------
(* What handlers are made of *)

Ready == task = "running" /\ held = None

Take(kind) ==
  /\ Ready
  /\ commands # <<>> /\ Head(commands).kind = kind
  /\ commands' = Tail(commands)

Response(id, call) == [kind |-> "Response", id |-> id, call |-> call]
Notice(kind) == [kind |-> kind, id |-> None, call |-> None]

EventRoom == ~over /\ Len(events) < EventCap

\* emit: the event is queued, or the handler waits with it.  "before" is the call
\* the id stood for when the handler began, "taken" the command it is handling.
Emit(event, before, taken) ==
  IF EventRoom THEN events' = Append(events, event) /\ UNCHANGED held
  ELSE /\ held' = [event |-> event, before |-> before, taken |-> taken]
       /\ UNCHANGED events

\* The call a client id stands for here.
Mapped(id) == IF byClient[id] = None THEN None ELSE pending[byClient[id]].call

\* A caller that no longer waits has dropped the receiver.
Resolve(resolved, outcome) ==
  callers' = [k \in Caller |->
    IF k \in resolved /\ callers[k] = "waiting" THEN outcome ELSE callers[k]]

Elsewhere == UNCHANGED <<sessionVars, callers>>

\* Mutant: the map is dropped and nobody is told.
LeaveSilently(next, alsoTold) ==
  /\ task' = next /\ held' = None
  /\ pending' = [n \in Minted |-> None] /\ byClient' = [id \in Id |-> None]
  /\ UNCHANGED <<callers, tokenVars, sessionVars, history>>

\* The loop is left: the map is drained and the callers in it are told.
Leave(next, alsoTold) ==
  /\ task' = next /\ held' = None
  /\ pending' = [n \in Minted |-> None] /\ byClient' = [id \in Id |-> None]
  /\ Resolve({k \in Caller : \E n \in Minted : pending[n] = Internal(k)} \cup alsoTold, "closed")
  /\ UNCHANGED <<tokenVars, sessionVars, history>>

-----------------------------------------------------------------------------
(* Commands *)

\* Forward: mapped, its token noted, sent.
SendForward ==
  LET command == Head(commands) IN
  /\ Take("Forward")
  /\ InsertClient(command.id, command.call)
  /\ \E token \in Optional(Token) : CarryToken(nextId, token)
  /\ UNCHANGED <<task, held, events, history>> /\ Elsewhere

\* Mutant: the frame is dropped.
RejectForwardSilently ==
  /\ Take("Forward")
  /\ InsertAndCancel(Head(commands).id)
  /\ UNCHANGED <<task, held, events, tokenVars, history>> /\ Elsewhere

\* Forward of a frame that resists the rewriting of its id: answered from here.
RejectForward ==
  LET command == Head(commands) IN
  /\ Take("Forward")
  /\ InsertAndCancel(command.id)
  /\ Emit(Response(command.id, command.call), Mapped(command.id), <<command>>)
  /\ replied' = [replied EXCEPT ![command.call] = @ + 1]
  /\ UNCHANGED <<task, tokenVars, withdrawn>> /\ Elsewhere

\* Cancel: unmapped and passed on, or dropped if the id stands for nothing.
CancelForward ==
  LET id == Head(commands).id
      n == byClient[id]
  IN
  /\ Take("Cancel")
  /\ IF n = None THEN UNCHANGED <<mapVars, tokenVars, withdrawn>>
     ELSE /\ Remove(n, {id}) /\ ReleaseToken(n)
          /\ withdrawn' = withdrawn \cup {pending[n].call}
  /\ UNCHANGED <<task, held, events, replied>> /\ Elsewhere

SendRequest ==
  /\ Take("Request")
  /\ InsertInternal(Head(commands).caller)
  /\ UNCHANGED <<task, held, tokenVars, events, history>> /\ Elsewhere

\* The transport refuses what a command has to send.  What else the handler wrote,
\* ids and tokens, nobody reads any more.
SendFails ==
  LET command == Head(commands) IN
  /\ Ready /\ commands # <<>> /\ commands' = Tail(commands)
  /\ \/ command.kind = "Forward" /\ Leave("reporting", {})
     \/ command.kind = "Cancel" /\ byClient[command.id] # None /\ Leave("reporting", {})
     \/ command.kind = "Request" /\ Leave("reporting", {command.caller})
  /\ UNCHANGED <<nextId, events>>

\* Shutdown, or the channel is closed and empty.
Stop ==
  /\ \/ Take("Shutdown")
     \/ Ready /\ over /\ commands = <<>> /\ UNCHANGED commands
  /\ Leave("closing", {})
  /\ UNCHANGED <<nextId, events>>

-----------------------------------------------------------------------------
(* Frames of the upstream *)

\* A response with an id that stands for something; every other one is dropped.
Respond(n) ==
  LET entry == pending[n] IN
  /\ Ready /\ entry # None
  /\ Remove(n, IF entry.kind = "client" THEN {entry.id} ELSE {}) /\ ReleaseToken(n)
  /\ \/ /\ entry.kind = "client"
        /\ Emit(Response(entry.id, entry.call), entry.call, <<>>)
        /\ replied' = [replied EXCEPT ![entry.call] = @ + 1]
        /\ UNCHANGED callers
     \/ /\ entry.kind = "internal"
        /\ Resolve({entry.caller}, "answered")
        /\ UNCHANGED <<held, events, replied>>
  /\ UNCHANGED <<commands, task, sessionVars, withdrawn>>

\* Progress passes for a token that is counted.
ReportProgress ==
  /\ Ready
  /\ \E token \in Token : tokenCounts[token] > 0
  /\ Emit(Notice("Notification"), None, <<>>)
  /\ UNCHANGED <<commands, task, mapVars, tokenVars, history>> /\ Elsewhere

SayListChanged ==
  /\ Ready
  /\ Emit(Notice("ListChanged"), None, <<>>)
  /\ UNCHANGED <<commands, task, mapVars, tokenVars, history>> /\ Elsewhere

\* The reply to a request of the upstream cannot be sent: the handler itself
\* reports the end, and waits for room to.
ReplyFails ==
  /\ Ready
  /\ held' = [event |-> Notice("Ended"), before |-> None, taken |-> <<>>]
  /\ UNCHANGED <<commands, task, mapVars, tokenVars, events, history>> /\ Elsewhere

\* The transport ends or fails.
TransportEnds ==
  /\ Ready
  /\ Leave("reporting", {})
  /\ UNCHANGED <<commands, nextId, events>>

-----------------------------------------------------------------------------
(* Waiting, and the end *)

\* Mutant: after the handler has reported the end, the loop reports it again.
EmitHeldTwice ==
  /\ held # None /\ EventRoom
  /\ events' = Append(events, held.event)
  /\ IF held.event.kind = "Ended" THEN Leave("reporting", {})
     ELSE held' = None /\ UNCHANGED <<task, pending, byClient, tokenVars, history>> /\ Elsewhere
  /\ UNCHANGED <<commands, nextId>>

\* There is room for the event a handler waits with.
EmitHeld ==
  /\ held # None /\ EventRoom
  /\ events' = Append(events, held.event)
  /\ IF held.event.kind = "Ended" THEN Leave("closing", {})
     ELSE held' = None /\ UNCHANGED <<task, pending, byClient, tokenVars, history>> /\ Elsewhere
  /\ UNCHANGED <<commands, nextId>>

\* Nobody takes events any more.
EmitFails ==
  /\ held # None /\ over
  /\ Leave("closing", {})
  /\ UNCHANGED <<commands, nextId, events>>

ReportEnd ==
  /\ task = "reporting" /\ task' = "closing"
  /\ IF over THEN UNCHANGED events ELSE EventRoom /\ events' = Append(events, Notice("Ended"))
  /\ UNCHANGED <<commands, held, mapVars, tokenVars, history>> /\ Elsewhere

\* The transport is closed and the task returns; what is left in the queue goes
\* with it, and whoever waits for room learns.
CloseTransport ==
  /\ task = "closing" /\ task' = "gone"
  /\ commands' = <<>>
  /\ callers' = [k \in Caller |->
       IF callers[k] = "sending" \/ (callers[k] = "waiting" /\ \E i \in DOMAIN commands :
            commands[i] = [kind |-> "Request", caller |-> k])
       THEN "closed" ELSE callers[k]]
  /\ UNCHANGED <<held, mapVars, tokenVars, events, sessionVars, history>>

\* join_with_grace: a task that does not end is aborted.
AbortTask ==
  /\ over /\ task # "gone" /\ task' = "gone"
  /\ commands' = <<>> /\ held' = None
  /\ pending' = [n \in Minted |-> None] /\ byClient' = [id \in Id |-> None]
  /\ UNCHANGED <<nextId, tokenVars, events, history>> /\ Elsewhere

-----------------------------------------------------------------------------
(* The specification *)

Session ==
  \/ \E id \in Id : ForwardCall(id) \/ CancelCall(id)
  \/ Serve \/ UpstreamEnds \/ EndSession

HandleCommand ==
  SendForward \/ RejectForward \/ CancelForward \/ SendRequest \/ SendFails \/ Stop

HandleFrame ==
  \/ \E n \in Minted : Respond(n)
  \/ ReportProgress \/ SayListChanged \/ ReplyFails \/ TransportEnds

Exited == over /\ task = "gone" /\ UNCHANGED vars

Next ==
  \/ Session
  \/ \E k \in Caller : Ask(k) \/ Enqueue(k) \/ Timeout(k)
  \/ HandleCommand \/ HandleFrame
  \/ EmitHeld \/ EmitFails \/ ReportEnd \/ CloseTransport \/ AbortTask \/ Exited

Spec == Init /\ [][Next]_vars

\* Fairness.  tokio::select! polls in random order: a command that waits is taken
\* although the upstream keeps talking.  A bounded channel serves those who wait
\* for room in turn.  Deadlines elapse and closing a transport is bounded.  The
\* serve loop drains the events.
FairSpec ==
  /\ Spec
  /\ SF_vars(HandleCommand) /\ WF_vars(EmitHeld) /\ WF_vars(EmitFails)
  /\ WF_vars(ReportEnd) /\ WF_vars(CloseTransport)
  /\ \A k \in Caller : SF_vars(Enqueue(k)) /\ WF_vars(Timeout(k))
  /\ WF_vars(Serve) /\ WF_vars(UpstreamEnds)

-----------------------------------------------------------------------------
(* Properties *)

CallerStates ==
  {"idle", "sending", "waiting", "answered", "closed", "timeout", "aborted"}

\* TypeOK: types, and no more in a queue than it has room for.
TypeOK ==
  /\ commands \in Seq(Commands) /\ Len(commands) <= CommandCap
  /\ task \in {"running", "reporting", "closing", "gone"}
  /\ held = None \/ held \in Held
  /\ nextId \in 0 .. MaxMinted
  /\ pending \in [Minted -> Optional(Entries)]
  /\ byClient \in [Id -> Optional(Minted)]
  /\ tokenOf \in [Minted -> Optional(Token)]
  /\ tokenCounts \in [Token -> Int]
  /\ events \in Seq(Events) /\ Len(events) <= EventCap
  /\ claimed \in [Id -> Optional(Call)] /\ nextCall \in 0 .. MaxCalls /\ over \in BOOLEAN
  /\ callers \in [Caller -> CallerStates]
  /\ replied \in [Call -> Nat] /\ withdrawn \subseteq Call

IsClient(n) == pending[n] # None /\ pending[n].kind = "client"

\* The two indexes of PendingMap are one relation, whatever was replaced, refused,
\* cancelled, completed or drained, and nothing is mapped before it is minted.
IndexesAgree ==
  /\ \A id \in Id, n \in Minted : byClient[id] = n <=> IsClient(n) /\ pending[n].id = id
  /\ \A n \in Minted : n >= nextId => pending[n] = None

\* I4: a call is answered by the actor at most once and never after its cancellation
\* was taken, however often and however late its upstream answers, and once either
\* has happened no minted id leads to it.
AnsweredOrWithdrawn ==
  /\ \A c \in Call : replied[c] <= (IF c \in withdrawn THEN 0 ELSE 1)
  /\ \A n \in Minted :
       IsClient(n) => replied[pending[n].call] = 0 /\ pending[n].call \notin withdrawn

\* A cancellation never reaches another call than the one it was meant for, although
\* it names a client id that is free for re-use as soon as it is queued.
CancelHitsItsCall ==
  [][withdrawn' # withdrawn => withdrawn' = withdrawn \cup {Head(commands).call}]_vars

IsQueued(kind, c) ==
  \E i \in DOMAIN commands : commands[i].kind = kind /\ commands[i].call = c

AnsweredBy(event, c) == event.kind = "Response" /\ event.call = c

\* A call the session has claimed an id for is still queued, mapped under that id, or
\* answered and on its way, as long as the actor runs.
ClaimsAreKnown ==
  task = "running" =>
    \A id \in Id : claimed[id] # None =>
      \/ IsQueued("Forward", claimed[id])
      \/ Mapped(id) = claimed[id]
      \/ held # None /\ AnsweredBy(held.event, claimed[id])
      \/ \E i \in DOMAIN events : AnsweredBy(events[i], claimed[id])

\* A task that waits for an answer has its request in the queue or in the map, and
\* the map is empty once the loop is left: no failure, replacement or teardown
\* strands a task, and none waits for an actor that is gone.
CallersAreKnown ==
  /\ \A k \in Caller : callers[k] = "waiting" =>
       \/ \E i \in DOMAIN commands : commands[i] = [kind |-> "Request", caller |-> k]
       \/ \E n \in Minted : pending[n] = Internal(k)
  /\ task # "running" => \A n \in Minted : pending[n] = None

Carrying(token) == {n \in Minted : tokenOf[n] = token}

\* The count of a token is the number of requests that were sent with it and have
\* not released it: shared tokens stay known until their last request is done.
TokensAreCounted == \A token \in Token : tokenCounts[token] = Cardinality(Carrying(token))

\* token_counts as its comment has it (connection.rs:603): how many in-flight
\* requests carry each token.
TokensAreInFlight ==
  task = "running" =>
    \A token \in Token :
      tokenCounts[token] = Cardinality({n \in Carrying(token) : pending[n] # None})

\* Every request of the proxy's own comes to an end.
CallersReturn ==
  \A k \in Caller : callers[k] \in {"sending", "waiting"} ~> callers[k] \notin {"sending", "waiting"}

\* The actor as the router sees it.  A handler that waits has not begun: the command it
\* took is still queued, and the id it answers for stands for its call.
Queued ==
  IF over THEN <<>> ELSE IF held = None THEN commands ELSE held.taken \o commands

Standing ==
  [id \in Id |->
    IF over THEN None
    ELSE IF held = None THEN Mapped(id)
    ELSE IF held.event.kind = "Ended" THEN None
    ELSE IF held.event.id = id THEN held.before ELSE Mapped(id)]

Stage ==
  IF over THEN "unheard"
  ELSE IF task = "reporting" \/ (held # None /\ held.event.kind = "Ended") THEN "ending"
  ELSE IF task = "running" THEN "up" ELSE task

View == INSTANCE ActorView WITH
  Own <- Requests, Other <- None, commands <- Queued, pending <- Standing, actor <- Stage, events <- events

\* Minted ids, both indexes, the answers to the proxy's own requests, tokens and handlers
\* that wait do not show: the actor is a queue and a map from client ids to calls.
ImplementsActorView == View!Spec

=============================================================================
