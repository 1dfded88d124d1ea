------------------------------- MODULE Router -------------------------------
(***************************************************************************)
(* The session of flavium-proxy-mcp: the serve loop of router.rs between   *)
(* one client and several upstreams, the grant gate it asks before every   *)
(* forwarded call, the background re-lists, and the two parties it shares  *)
(* queues with - one connection actor per upstream and the client writer.  *)
(*                                                                         *)
(* The serve loop is one task: a handler runs to its end before the next   *)
(* frame, event or re-list is taken, and the one place it can wait is its  *)
(* last step, the delivery of a frame to the client.  A handler is         *)
(* therefore one action, which leaves the loop parked when the client's    *)
(* queue is full.  The actors, the writer, the re-list tasks and the       *)
(* upstreams interleave freely with it.                                    *)
(*                                                                         *)
(* A frame is its meaning: the client's ids are Id, a tools/call carries   *)
(* the ToolCall the gate judges, a reply is known by the call it answers.  *)
(***************************************************************************)
EXTENDS Grants, FiniteSets

CONSTANTS
  Upstream,        \* the configured upstreams
  Id,              \* JSON-RPC ids the client uses
  Request,         \* the tool calls the client makes, as the gate evaluates them
  Times,           \* what the clock may read
  Envelope,        \* the grants in force
  Enforced,        \* FALSE is `flavium proxy --unenforced`
  Offers,          \* the tool lists each upstream may show over time
  FirstTable,      \* what the upstreams offered when they were listed at startup
  CommandCap,      \* capacity of an actor's command queue
  EventCap,        \* capacity of the queue of events all actors share
  ClientCap,       \* capacity of the queue to the client writer
  MaxCalls,        \* bound: tools/call requests in a session
  MaxChanges,      \* bound: tool list changes in a session
  MaxNotices,      \* bound: progress notifications in a session
  SinkMayFail,     \* bound: may the trace sink refuse an event?
  ClientMayLeave   \* bound: may the client close its end or stop being writable?

Call == 0 .. MaxCalls - 1   \* the CallIds a session mints

\* No tool is in the lists of two upstreams.
Unambiguous(lists) ==
  \A u, v \in Upstream : u # v => lists[u] \cap lists[v] = {}

\* InFlight: what the table of calls in flight keeps of a call.
InFlight == [upstream: Upstream, tool: Tool, call: Call]

\* RelistOutcome: what a re-list task returns.
Relisted == [status: {"read", "twice", "failed"}, tools: SUBSET Tool]

\* A call that reached an actor: where it went, and as judged when.
Judged == [upstream: Upstream, request: Request, now: Times]

ASSUME RouterAssumption ==
  /\ Envelope \in GrantSet
  /\ Request \subseteq ToolCall
  /\ Times \subseteq Int
  /\ Enforced \in BOOLEAN
  /\ Offers \in [Upstream -> SUBSET SUBSET Tool]
  /\ FirstTable \in [Upstream -> SUBSET Tool] /\ Unambiguous(FirstTable)
  /\ {CommandCap, EventCap, ClientCap, MaxCalls} \subseteq Nat \ {0}
  /\ MaxChanges \in Nat /\ MaxNotices \in Nat
  /\ None \notin Upstream /\ None \notin Call
  /\ None \notin InFlight /\ None \notin Relisted /\ None \notin Judged

-----------------------------------------------------------------------------
(* State *)

VARIABLES
  phase,           \* Phase: the client's handshake
  end,             \* why the serve loop returned, "none" while it runs
  closed,          \* teardown has written its last event
  parked,          \* the loop waits in deliver for room in the client's queue
  table,           \* ToolSet: the tools routed to each upstream
  grantedRoutes,   \* where each granted tool routed when first seen
  listChangePending, \* pending_list_changed
  inFlight,        \* ClientTable: id -> the call it is claimed for
  nextCall         \* next_call_id

VARIABLES
  relistRunning,   \* per upstream: a re-list task has not been joined yet
  relistDirty,     \* per upstream: it must be run once more
  relistResult     \* per upstream: what the finished task returned

VARIABLES
  commands,        \* per upstream: the actor's command queue
  pending,         \* per upstream: the actor's PendingMap, id -> call
  actor,           \* per upstream: "up", "ending" (to report its end), "closing"
                   \* (its transport) or "gone" (its command queue with it)
  events,          \* the shared event queue
  clientQueue,     \* number of frames queued for the client writer
  writer           \* "open", or "failed" once a write to the client failed

VARIABLES
  offered,         \* per upstream: the tool list it would return now
  unsaid,          \* per upstream: it changed its list and has not said so yet
  changes,         \* tool list changes so far
  notices          \* progress notifications so far

\* History: what the trace says of each call, which calls reached an actor and
\* as judged when, how many frames answered each, whether the client was told
\* of the table in force, which upstreams' last re-list failed, and whether two
\* upstreams ever offered one name at the same time.
VARIABLES trace, forwarded, answers, untold, relistFailed, contested

serveVars  == <<phase, end, closed, parked>>
tableVars  == <<table, grantedRoutes, listChangePending, untold>>
callVars   == <<inFlight, nextCall, trace, forwarded, answers>>
relistVars == <<relistRunning, relistDirty, relistResult, relistFailed>>
actorVars  == <<commands, pending, actor>>
clientVars == <<clientQueue, writer>>
sourceVars == <<offered, unsaid, changes, notices, contested>>

vars == <<serveVars, tableVars, callVars, relistVars, actorVars, events,
          clientVars, sourceVars>>

CommandOf(kind, id, call) == [kind |-> kind, id |-> id, call |-> call]
EventOf(kind, u, id, call) == [kind |-> kind, upstream |-> u, id |-> id, call |-> call]

-----------------------------------------------------------------------------
(* The tool table and the gate *)

\* ToolSet::route
RouteOf(lists, tool) ==
  IF \E u \in Upstream : tool \in lists[u]
  THEN CHOOSE u \in Upstream : tool \in lists[u]
  ELSE None

\* The tools grants name, expired or not: the bindings a re-list may not move.
WatchedTools == IF Enforced THEN {Envelope[i].tool : i \in DOMAIN Envelope} ELSE {}

\* Mutant: the latest sighting wins.
RememberLatest(routes, lists) ==
  [tool \in Tool |-> IF tool \in WatchedTools THEN RouteOf(lists, tool) ELSE None]

\* remember_granted_routes after granted_route_snapshot: the first sighting wins.
Remember(routes, lists) ==
  [tool \in Tool |->
     IF routes[tool] = None /\ tool \in WatchedTools THEN RouteOf(lists, tool)
     ELSE routes[tool]]

\* rebound_granted_tool
Rebinds(routes, lists) ==
  \E tool \in Tool :
    routes[tool] # None /\ RouteOf(lists, tool) \notin {None, routes[tool]}

\* Mutant: the gate looks at the tool and not at its arguments.
VerdictByTool(request, now) ==
  IF ToolStatus(Envelope, request.tool, now) = "Live" THEN "Allow" ELSE "Deny"

\* decide_call: the gate's verdict on a request, absent in an unenforced session.
Verdict(request, now) ==
  IF Enforced THEN Decide(Envelope, request, now).verdict ELSE "Allow"

-----------------------------------------------------------------------------
(* What handlers are made of *)

Serving == end = "none" /\ ~parked

\* Mutant: an unbounded queue to the writer.
DeliverUnbounded ==
  /\ closed' = closed
  /\ writer' = writer
  /\ clientQueue' = clientQueue + 1
  /\ UNCHANGED <<parked, end>>

\* deliver: the frame is queued, or the loop parks with it, or the writer is gone.
Deliver ==
  /\ closed' = closed
  /\ writer' = writer
  /\ \/ /\ writer = "open" /\ clientQueue < ClientCap
        /\ clientQueue' = clientQueue + 1
        /\ UNCHANGED <<parked, end>>
     \/ /\ writer = "open" /\ clientQueue = ClientCap
        /\ parked' = TRUE
        /\ UNCHANGED <<clientQueue, end>>
     \/ /\ writer = "failed"
        /\ end' = "ClientWriteFailed"
        /\ UNCHANGED <<clientQueue, parked>>

Finish(reason) ==
  /\ end' = reason
  /\ UNCHANGED <<closed, parked, clientVars>>

\* No frame for the client and no reason to stop.
Carry == UNCHANGED <<end, closed, parked, clientVars>>

\* record succeeded: one more event about the call in the trace.
Traced(call, event) ==
  trace' = IF Enforced THEN [trace EXCEPT ![call] = Append(@, event)] ELSE trace

\* record refused the event: the session stops at once.
SinkRefuses == Enforced /\ SinkMayFail /\ Finish("TraceFailed")

Answered(call) == answers' = [answers EXCEPT ![call] = @ + 1]

Mint == nextCall < MaxCalls /\ nextCall' = nextCall + 1

Claim(id, u, tool) ==
  [inFlight EXCEPT ![id] = [upstream |-> u, tool |-> tool, call |-> nextCall]]

Release(id) == [inFlight EXCEPT ![id] = None]

CanSend(u) == actor[u] # "gone" /\ Len(commands[u]) < CommandCap

Send(u, command) == commands' = [commands EXCEPT ![u] = Append(@, command)]

-----------------------------------------------------------------------------
(* The session starts to serve: every upstream is up and listed *)

Init ==
  /\ phase = "PreInit" /\ end = "none" /\ closed = FALSE /\ parked = FALSE
  /\ table = FirstTable
  /\ grantedRoutes = Remember([tool \in Tool |-> None], FirstTable)
  /\ listChangePending = FALSE
  /\ inFlight = [id \in Id |-> None] /\ nextCall = 0
  /\ relistRunning = [u \in Upstream |-> FALSE]
  /\ relistDirty = [u \in Upstream |-> FALSE]
  /\ relistResult = [u \in Upstream |-> None]
  /\ commands = [u \in Upstream |-> <<>>]
  /\ pending = [u \in Upstream |-> [id \in Id |-> None]]
  /\ actor = [u \in Upstream |-> "up"]
  /\ events = <<>>
  /\ clientQueue = 0 /\ writer = "open"
  /\ offered = FirstTable
  /\ unsaid = [u \in Upstream |-> FALSE]
  /\ changes = 0 /\ notices = 0
  /\ trace = [c \in Call |-> <<>>]
  /\ forwarded = [c \in Call |-> None]
  /\ answers = [c \in Call |-> 0]
  /\ untold = FALSE
  /\ relistFailed = [u \in Upstream |-> FALSE]
  /\ contested = FALSE

-----------------------------------------------------------------------------
(* Client frames other than tools/call and cancellations *)

Elsewhere == UNCHANGED <<relistVars, actorVars, events, sourceVars>>

\* Frames answered on the spot: ping, a request before Ready, a second or
\* unusable initialize, a method the proxy does not serve, an unreadable frame,
\* and tools/list, which reads the table and changes nothing.
AnswerAtOnce ==
  /\ Serving
  /\ Deliver
  /\ UNCHANGED <<phase, tableVars, callVars>> /\ Elsewhere

\* Frames that are dropped (a stray response, an unroutable notification, a
\* cancellation of nothing) and frames that are answered leave a trace event;
\* when the sink refuses it the session ends, with nothing else changed.
AuditFails ==
  /\ Serving
  /\ SinkRefuses
  /\ UNCHANGED <<phase, tableVars, callVars>> /\ Elsewhere

\* The client's initialize: recorded, then answered.
Initialize ==
  /\ Serving /\ phase = "PreInit"
  /\ phase' = "Initializing"
  /\ Deliver
  /\ UNCHANGED <<tableVars, callVars>> /\ Elsewhere

\* notifications/initialized: flushes the one list_changed held back so far.
Initialized ==
  /\ Serving /\ phase = "Initializing"
  /\ phase' = "Ready"
  /\ listChangePending' = FALSE
  /\ IF listChangePending THEN Deliver /\ untold' = FALSE
                          ELSE Carry /\ untold' = untold
  /\ UNCHANGED <<table, grantedRoutes, callVars>> /\ Elsewhere

\* End of the client's input, or a read error.
ClientLeaves ==
  /\ Serving /\ ClientMayLeave
  /\ \E reason \in {"ClientEof", "ClientReadError"} : Finish(reason)
  /\ UNCHANGED <<phase, tableVars, callVars>> /\ Elsewhere

-----------------------------------------------------------------------------
(* tools/call: read, refuse a reused id, route, claim, decide, forward *)

\* A call refused before any decision: its parameters are malformed, its id is
\* in flight, or no upstream offers the tool.  refuse_call records, then answers.
RefuseCall ==
  /\ Serving /\ phase = "Ready"
  /\ Mint
  /\ \/ Traced(nextCall, "refused") /\ Answered(nextCall) /\ Deliver
     \/ SinkRefuses /\ UNCHANGED <<trace, answers>>
  /\ UNCHANGED <<phase, tableVars, inFlight, forwarded>> /\ Elsewhere

RefuseMalformed == RefuseCall

RefuseDuplicateId ==
  /\ \E id \in Id : inFlight[id] # None
  /\ RefuseCall

RefuseUnknownTool ==
  /\ \E id \in Id, request \in Request :
       inFlight[id] = None /\ RouteOf(table, request.tool) = None
  /\ RefuseCall

\* A call that reaches the gate.
Routed(id, request) ==
  /\ Serving /\ phase = "Ready"
  /\ inFlight[id] = None
  /\ RouteOf(table, request.tool) # None

\* The gate says no: the claim is released and the client answered.
DenyCall(id, request, now) ==
  /\ Routed(id, request)
  /\ Verdict(request, now) = "Deny"
  /\ Mint
  /\ Traced(nextCall, "denied") /\ Answered(nextCall) /\ Deliver
  /\ UNCHANGED <<phase, tableVars, inFlight, forwarded>> /\ Elsewhere

\* The sink refuses the verdict: the call goes nowhere and its claim stays.
DecisionNotRecorded(id, request) ==
  /\ Routed(id, request)
  /\ Mint
  /\ inFlight' = Claim(id, RouteOf(table, request.tool), request.tool)
  /\ SinkRefuses
  /\ UNCHANGED <<phase, tableVars, trace, forwarded, answers>> /\ Elsewhere

\* The gate says yes and the actor's queue takes the client's frame.
ForwardCall(id, request, now) ==
  LET u == RouteOf(table, request.tool) IN
  /\ Routed(id, request)
  /\ Verdict(request, now) = "Allow"
  /\ CanSend(u)
  /\ Mint
  /\ inFlight' = Claim(id, u, request.tool)
  /\ Traced(nextCall, "allowed")
  /\ Send(u, CommandOf("Forward", id, nextCall))
  /\ forwarded' = [forwarded EXCEPT ![nextCall] =
                     [upstream |-> u, request |-> request, now |-> now]]
  /\ Carry
  /\ UNCHANGED <<phase, tableVars, answers, pending, actor, relistVars, events, sourceVars>>

\* Mutant: the claim of a call that is not forwarded is not released.
CallNotForwardedKeepsClaim(id, request, now) ==
  LET u == RouteOf(table, request.tool) IN
  /\ Routed(id, request)
  /\ Verdict(request, now) = "Allow"
  /\ ~CanSend(u)
  /\ Mint
  /\ inFlight' = Claim(id, u, request.tool)
  /\ trace' = [trace EXCEPT ![nextCall] = @ \o <<"allowed", "notForwarded">>]
  /\ Answered(nextCall) /\ Deliver
  /\ UNCHANGED <<phase, tableVars, forwarded>> /\ Elsewhere

\* The gate says yes but the queue is full or the actor gone: the call gets its
\* terminal event and the client an error, or the sink refuses the event.
CallNotForwarded(id, request, now) ==
  /\ Routed(id, request)
  /\ Verdict(request, now) = "Allow"
  /\ ~CanSend(RouteOf(table, request.tool))
  /\ Mint
  /\ \/ /\ trace' = IF Enforced
                    THEN [trace EXCEPT ![nextCall] = @ \o <<"allowed", "notForwarded">>]
                    ELSE trace
        /\ Answered(nextCall) /\ Deliver
     \/ Traced(nextCall, "allowed") /\ SinkRefuses /\ UNCHANGED answers
  /\ UNCHANGED <<phase, tableVars, inFlight, forwarded>> /\ Elsewhere

\* Mutant: the cancelled call stays in the table.
CancelCallKeepsClaim(id) ==
  /\ Serving /\ inFlight[id] # None
  /\ Traced(inFlight[id].call, "cancelled")
  /\ IF CanSend(inFlight[id].upstream)
     THEN Send(inFlight[id].upstream, CommandOf("Cancel", id, None))
     ELSE UNCHANGED commands
  /\ Carry
  /\ UNCHANGED <<phase, tableVars, inFlight, nextCall, forwarded, answers, pending, actor,
                 relistVars, events, sourceVars>>

\* notifications/cancelled for a call in flight: the call is over, whatever the
\* actor does; a cancellation its queue has no room for is dropped, and the drop
\* recorded.
CancelCall(id) ==
  /\ Serving /\ inFlight[id] # None
  /\ inFlight' = Release(id)
  /\ LET call == inFlight[id].call
         u == inFlight[id].upstream
     IN \/ /\ Traced(call, "cancelled")
           /\ IF CanSend(u)
              THEN Send(u, CommandOf("Cancel", id, None)) /\ Carry
              ELSE UNCHANGED commands /\ (Carry \/ SinkRefuses)
        \/ SinkRefuses /\ UNCHANGED <<trace, commands>>
  /\ UNCHANGED <<phase, tableVars, nextCall, forwarded, answers, pending, actor,
                 relistVars, events, sourceVars>>

-----------------------------------------------------------------------------
(* Upstream events *)

TakeEvent(kind) ==
  /\ Serving /\ events # <<>> /\ Head(events).kind = kind
  /\ events' = Tail(events)

\* Mutant: the response answers whatever call is in flight under its id there.
MatchedById(e) == inFlight[e.id] # None /\ inFlight[e.id].upstream = e.upstream

\* The response answers the call now in flight under its id: same upstream, and
\* the same call, not merely the same id.
Matched(e) ==
  /\ inFlight[e.id] # None
  /\ inFlight[e.id].upstream = e.upstream
  /\ inFlight[e.id].call = e.call

\* A matched response completes its call, in the trace first, then at the client.
MatchedResponse ==
  LET e == Head(events) IN
  /\ TakeEvent("Response")
  /\ Matched(e)
  /\ inFlight' = Release(e.id)
  /\ \/ Traced(inFlight[e.id].call, "completed") /\ Answered(e.call) /\ Deliver
     \/ SinkRefuses /\ UNCHANGED <<trace, answers>>
  /\ UNCHANGED <<phase, tableVars, nextCall, forwarded, relistVars, actorVars, sourceVars>>

\* Any other response is dropped.
StaleResponse ==
  /\ TakeEvent("Response")
  /\ ~Matched(Head(events))
  /\ Carry \/ SinkRefuses
  /\ UNCHANGED <<phase, tableVars, callVars, relistVars, actorVars, sourceVars>>

\* A progress notification is passed on, but not before the client is Ready.
Notification ==
  /\ TakeEvent("Notification")
  /\ IF phase = "Ready" THEN Deliver ELSE Carry \/ SinkRefuses
  /\ UNCHANGED <<phase, tableVars, callVars, relistVars, actorVars, sourceVars>>

\* Mutant: a list_changed during a re-list is dropped.
ListChangedDropped ==
  LET u == Head(events).upstream IN
  /\ TakeEvent("ListChanged")
  /\ relistRunning' = [relistRunning EXCEPT ![u] = TRUE]
  /\ Carry
  /\ UNCHANGED <<phase, relistDirty, relistResult, relistFailed, tableVars, callVars,
                 actorVars, sourceVars>>

\* schedule_relist: start a task, or mark the running one for one more round.
ListChanged ==
  LET u == Head(events).upstream IN
  /\ TakeEvent("ListChanged")
  /\ relistRunning' = [relistRunning EXCEPT ![u] = TRUE]
  /\ relistDirty' = [relistDirty EXCEPT ![u] = @ \/ relistRunning[u]]
  /\ Carry
  /\ UNCHANGED <<phase, relistResult, relistFailed, tableVars, callVars, actorVars, sourceVars>>

\* Mutant: the session goes on without the upstream.
UpstreamEndsQuietly ==
  /\ TakeEvent("Ended")
  /\ Carry
  /\ UNCHANGED <<phase, tableVars, callVars, relistVars, actorVars, sourceVars>>

\* An upstream's end is the session's end.
UpstreamEnds ==
  /\ TakeEvent("Ended")
  /\ Finish("UpstreamGone") \/ SinkRefuses
  /\ UNCHANGED <<phase, tableVars, callVars, relistVars, actorVars, sourceVars>>

-----------------------------------------------------------------------------
(* Re-lists *)

\* drain_tools in its task: the list as it is now, the same with a tool in it
\* twice, or an error (a timeout, a limit, a closed connection).
ReadTools(u) ==
  /\ end = "none" /\ relistRunning[u] /\ relistResult[u] = None
  /\ \/ /\ actor[u] = "up"
        /\ \E status \in {"read", "twice"} :
             /\ status = "twice" => offered[u] # {}
             /\ relistResult' = [relistResult EXCEPT ![u] =
                                   [status |-> status, tools |-> offered[u]]]
     \/ relistResult' = [relistResult EXCEPT ![u] = [status |-> "failed", tools |-> {}]]
  /\ UNCHANGED <<serveVars, tableVars, callVars, relistRunning, relistDirty, relistFailed,
                 actorVars, events, clientVars, sourceVars>>

\* Mutant: the dirty mark is cleared without a new run.
JoinedForgets(u) ==
  /\ Serving /\ relistResult[u] # None
  /\ relistRunning' = [relistRunning EXCEPT ![u] = FALSE]
  /\ relistDirty' = [relistDirty EXCEPT ![u] = FALSE]
  /\ relistResult' = [relistResult EXCEPT ![u] = None]
  /\ relistFailed' = [relistFailed EXCEPT ![u] = relistResult[u].status = "failed"]
  /\ UNCHANGED <<phase, callVars, actorVars, events, sourceVars>>

\* The finished task is joined: it is started again if its upstream has said
\* list_changed since.
Joined(u) ==
  /\ Serving /\ relistResult[u] # None
  /\ relistRunning' = [relistRunning EXCEPT ![u] = relistDirty[u]]
  /\ relistDirty' = [relistDirty EXCEPT ![u] = FALSE]
  /\ relistResult' = [relistResult EXCEPT ![u] = None]
  /\ relistFailed' = [relistFailed EXCEPT ![u] = relistResult[u].status = "failed"]
  /\ UNCHANGED <<phase, callVars, actorVars, events, sourceVars>>

NewTable(u) == [table EXCEPT ![u] = relistResult[u].tools]

\* ToolSet::build accepts the lists of all upstreams together.
Builds(u) == relistResult[u].status = "read" /\ Unambiguous(NewTable(u))

\* Mutant: a change before Ready is not remembered.
InstallTableSilently(u) ==
  /\ Joined(u) /\ Builds(u) /\ ~Rebinds(grantedRoutes, NewTable(u))
  /\ table' = NewTable(u)
  /\ grantedRoutes' = Remember(grantedRoutes, NewTable(u))
  /\ listChangePending' = listChangePending
  /\ IF phase = "Ready" THEN Deliver /\ untold' = FALSE ELSE Carry /\ untold' = TRUE

\* The list is merged and no granted tool moves: the table is replaced and the
\* client told, at once or when it is Ready.
InstallTable(u) ==
  /\ Joined(u) /\ Builds(u) /\ ~Rebinds(grantedRoutes, NewTable(u))
  /\ table' = NewTable(u)
  /\ grantedRoutes' = Remember(grantedRoutes, NewTable(u))
  /\ IF phase = "Ready"
     THEN Deliver /\ untold' = FALSE /\ listChangePending' = listChangePending
     ELSE Carry /\ untold' = TRUE /\ listChangePending' = TRUE

\* A granted tool would route to another upstream: the session ends.
RefuseRebound(u) ==
  /\ Joined(u) /\ Builds(u) /\ Rebinds(grantedRoutes, NewTable(u))
  /\ Finish("ToolRebound")
  /\ UNCHANGED tableVars

\* A name would have two entries: the session ends.
RefuseCollision(u) ==
  /\ Joined(u) /\ relistResult[u].status # "failed" /\ ~Builds(u)
  /\ Finish("ToolCollision")
  /\ UNCHANGED tableVars

\* The list could not be read: the table stays.
KeepTable(u) ==
  /\ Joined(u) /\ relistResult[u].status = "failed"
  /\ Carry
  /\ UNCHANGED tableVars

-----------------------------------------------------------------------------
(* The parked frame, the writer and the end of the session *)

\* The writer took a frame: the parked one is queued and the loop goes on.
Unpark ==
  /\ end = "none" /\ parked /\ writer = "open" /\ clientQueue < ClientCap
  /\ parked' = FALSE
  /\ clientQueue' = clientQueue + 1
  /\ UNCHANGED <<phase, end, closed, writer, tableVars, callVars>> /\ Elsewhere

\* The writer failed and closed the queue under the parked frame.
ParkedFails ==
  /\ end = "none" /\ parked /\ writer = "failed"
  /\ end' = "ClientWriteFailed"
  /\ UNCHANGED <<phase, closed, parked, clientVars, tableVars, callVars>> /\ Elsewhere

\* client_writer writes one frame: the client reads.
WriteFrame ==
  /\ writer = "open" /\ clientQueue > 0
  /\ clientQueue' = clientQueue - 1
  /\ UNCHANGED <<serveVars, writer, tableVars, callVars>> /\ Elsewhere

\* A write fails: the writer closes the queue and discards what is in it.
WriterFails ==
  /\ ClientMayLeave /\ writer = "open" /\ clientQueue > 0
  /\ writer' = "failed" /\ clientQueue' = 0
  /\ UNCHANGED <<serveVars, tableVars, callVars>> /\ Elsewhere

OpenIds == {id \in Id : inFlight[id] # None}

\* Mutant: open calls are closed out although the sink has failed.
AbandonCallAnyway(id) ==
  /\ end # "none" /\ ~closed
  /\ id \in OpenIds
  /\ inFlight' = Release(id)
  /\ Traced(inFlight[id].call, "abandoned")
  /\ UNCHANGED <<phase, end, closed, parked, clientVars, tableVars, nextCall, forwarded, answers>>
  /\ Elsewhere

\* The oldest call still in flight gets its terminal event, unless the sink
\* refuses it.
AbandonCall(id) ==
  /\ end \notin {"none", "TraceFailed"} /\ ~closed
  /\ id \in OpenIds
  /\ \A other \in OpenIds : inFlight[id].call <= inFlight[other].call
  /\ inFlight' = Release(id)
  /\ \/ Traced(inFlight[id].call, "abandoned") /\ UNCHANGED end
     \/ Enforced /\ SinkMayFail /\ end' = "TraceFailed" /\ UNCHANGED trace
  /\ UNCHANGED <<phase, closed, parked, clientVars, tableVars, nextCall, forwarded, answers>>
  /\ Elsewhere

\* Mutant: teardown does not wait for the open calls to be closed out.
CloseSessionAtOnce ==
  /\ end # "none" /\ ~closed
  /\ closed' = TRUE
  /\ UNCHANGED <<phase, end, parked, clientVars, tableVars, callVars>> /\ Elsewhere

\* Nothing left to close out: actors are told to stop, SessionEnded is written.
CloseSession ==
  /\ end # "none" /\ ~closed
  /\ end = "TraceFailed" \/ OpenIds = {}
  /\ closed' = TRUE
  /\ UNCHANGED <<phase, end, parked, clientVars, tableVars, callVars>> /\ Elsewhere

-----------------------------------------------------------------------------
(* Connection actors and upstreams, as far as the router can tell them apart. *)
(* Once the serve loop has returned nothing they do is observed.              *)

Outside == UNCHANGED <<serveVars, tableVars, callVars, relistVars, clientVars>>

EventRoom == end = "none" /\ Len(events) < EventCap

Emit(event) == EventRoom /\ events' = Append(events, event)

TakeCommand(u, kind) ==
  /\ end = "none" /\ actor[u] = "up"
  /\ commands[u] # <<>> /\ Head(commands[u]).kind = kind
  /\ commands' = [commands EXCEPT ![u] = Tail(@)]
  /\ UNCHANGED actor /\ Outside /\ UNCHANGED sourceVars

\* Mutant: a mapping left under the same client id is kept.
SendUpstreamKeepsOld(u) ==
  LET command == Head(commands[u]) IN
  /\ TakeCommand(u, "Forward")
  /\ pending' = [pending EXCEPT ![u][command.id] = IF @ = None THEN command.call ELSE @]
  /\ UNCHANGED events

\* Forward: the id is mapped to the new call and the frame sent upstream; a
\* mapping an older call left under the same client id is replaced.
SendUpstream(u) ==
  LET command == Head(commands[u]) IN
  /\ TakeCommand(u, "Forward")
  /\ pending' = [pending EXCEPT ![u][command.id] = command.call]
  /\ UNCHANGED events

\* Mutant: the frame is dropped without an answer.
RejectForwardSilently(u) ==
  /\ TakeCommand(u, "Forward")
  /\ pending' = [pending EXCEPT ![u][Head(commands[u]).id] = None]
  /\ UNCHANGED events

\* Forward of a frame whose id cannot be rewritten: answered by the actor.
RejectForward(u) ==
  LET command == Head(commands[u]) IN
  /\ TakeCommand(u, "Forward")
  /\ pending' = [pending EXCEPT ![u][command.id] = None]
  /\ Emit(EventOf("Response", u, command.id, command.call))

\* Cancel: the mapping is dropped, so a late response is unknown to the actor.
CancelUpstream(u) ==
  /\ TakeCommand(u, "Cancel")
  /\ pending' = [pending EXCEPT ![u][Head(commands[u]).id] = None]
  /\ UNCHANGED events

\* The upstream answers a pending call.
Respond(u, id) ==
  /\ actor[u] = "up" /\ pending[u][id] # None
  /\ pending' = [pending EXCEPT ![u][id] = None]
  /\ Emit(EventOf("Response", u, id, pending[u][id]))
  /\ UNCHANGED <<commands, actor, sourceVars>> /\ Outside

\* Progress passes for a token the actor counts.  No call need be pending: the actor
\* never releases the token of a mapping that was replaced (Connection).
ReportProgress(u) ==
  /\ actor[u] = "up"
  /\ notices < MaxNotices /\ notices' = notices + 1
  /\ Emit(EventOf("Notification", u, None, None))
  /\ UNCHANGED <<actorVars, offered, unsaid, changes, contested>> /\ Outside

\* The upstream's list becomes another one of its Offers.
ChangeTools(u) ==
  /\ end = "none" /\ actor[u] = "up"
  /\ changes < MaxChanges /\ changes' = changes + 1
  /\ \E list \in Offers[u] \ {offered[u]} : offered' = [offered EXCEPT ![u] = list]
  /\ unsaid' = [unsaid EXCEPT ![u] = TRUE]
  /\ contested' = (contested \/ ~Unambiguous(offered'))
  /\ UNCHANGED <<actorVars, events, notices>> /\ Outside

\* It says so, and its actor passes the word on.
SayListChanged(u) ==
  /\ actor[u] = "up" /\ unsaid[u]
  /\ unsaid' = [unsaid EXCEPT ![u] = FALSE]
  /\ Emit(EventOf("ListChanged", u, None, None))
  /\ UNCHANGED <<actorVars, offered, changes, notices, contested>> /\ Outside

\* The transport ends, or fails under the command being taken: the actor leaves its
\* loop and drops its table.
LoseUpstream(u) ==
  /\ end = "none" /\ actor[u] = "up"
  /\ actor' = [actor EXCEPT ![u] = "ending"]
  /\ pending' = [pending EXCEPT ![u] = [id \in Id |-> None]]
  /\ \/ UNCHANGED commands
     \/ commands[u] # <<>> /\ commands' = [commands EXCEPT ![u] = Tail(@)]
  /\ UNCHANGED <<events, sourceVars>> /\ Outside

\* Its last event, once there is room for it.
ReportEnd(u) ==
  /\ actor[u] = "ending"
  /\ actor' = [actor EXCEPT ![u] = "closing"]
  /\ Emit(EventOf("Ended", u, None, None))
  /\ UNCHANGED <<commands, pending, sourceVars>> /\ Outside

\* The transport is closed and the task returns: commands are refused from here on.
CloseTransport(u) ==
  /\ end = "none" /\ actor[u] = "closing"
  /\ actor' = [actor EXCEPT ![u] = "gone"]
  /\ UNCHANGED <<commands, pending, events, sourceVars>> /\ Outside

-----------------------------------------------------------------------------
(* The specification *)

HandleClient ==
  \/ AnswerAtOnce \/ AuditFails \/ Initialize \/ Initialized \/ ClientLeaves
  \/ RefuseMalformed \/ RefuseDuplicateId \/ RefuseUnknownTool
  \/ \E id \in Id :
       \/ CancelCall(id)
       \/ \E request \in Request :
            \/ DecisionNotRecorded(id, request)
            \/ \E now \in Times :
                 \/ DenyCall(id, request, now)
                 \/ ForwardCall(id, request, now)
                 \/ CallNotForwarded(id, request, now)

HandleEvent ==
  MatchedResponse \/ StaleResponse \/ Notification \/ ListChanged \/ UpstreamEnds

HandleRelist(u) ==
  InstallTable(u) \/ RefuseRebound(u) \/ RefuseCollision(u) \/ KeepTable(u)

Teardown == CloseSession \/ \E id \in Id : AbandonCall(id)

ActorStep(u) ==
  SendUpstream(u) \/ RejectForward(u) \/ CancelUpstream(u) \/ CloseTransport(u)

UpstreamStep(u) ==
  \/ \E id \in Id : Respond(u, id)
  \/ ReportProgress(u) \/ ChangeTools(u) \/ SayListChanged(u) \/ LoseUpstream(u)

\* The process has exited.
Exited == closed /\ UNCHANGED vars

Next ==
  \/ HandleClient \/ HandleEvent \/ Unpark \/ ParkedFails \/ WriteFrame \/ WriterFails
  \/ Teardown \/ Exited
  \/ \E u \in Upstream :
       HandleRelist(u) \/ ReadTools(u) \/ ActorStep(u) \/ UpstreamStep(u) \/ ReportEnd(u)

Spec == Init /\ [][Next]_vars

\* Fairness.  tokio::select! polls its ready branches in random order, so a
\* branch that is ready again and again is taken: strong fairness for the serve
\* loop's sources.  A bounded tokio channel serves waiting senders in turn, so an
\* actor waiting to emit is strongly fair too.  Tasks and the writer run when they
\* can.  Nothing makes the client send, an upstream change its list, or anything
\* fail.
LoopFairness ==
  /\ SF_vars(HandleEvent)
  /\ \A u \in Upstream : SF_vars(HandleRelist(u))
  /\ WF_vars(Unpark) /\ WF_vars(ParkedFails) /\ WF_vars(Teardown)

TaskFairness ==
  \A u \in Upstream :
    /\ WF_vars(ReadTools(u)) /\ WF_vars(ActorStep(u))
    /\ SF_vars(SayListChanged(u)) /\ SF_vars(ReportEnd(u))

\* The peers keep their side: the client reads, upstreams answer.
ClientReads == WF_vars(WriteFrame)
UpstreamsAnswer == \A u \in Upstream, id \in Id : SF_vars(Respond(u, id))

\* Flavium's own tasks are fair, the client may stop reading.
StalledClientSpec == Spec /\ LoopFairness /\ TaskFairness

FairSpec == StalledClientSpec /\ ClientReads /\ UpstreamsAnswer

-----------------------------------------------------------------------------
(* Safety properties *)

Commands == [kind: {"Forward"}, id: Id, call: Call] \cup [kind: {"Cancel"}, id: Id, call: {None}]

Events ==
  [kind: {"Response"}, upstream: Upstream, id: Id, call: Call]
    \cup [kind: {"Notification", "ListChanged", "Ended"}, upstream: Upstream,
          id: {None}, call: {None}]

SessionEnds ==
  {"none", "ClientEof", "ClientReadError", "ClientWriteFailed", "UpstreamGone",
   "ToolCollision", "ToolRebound", "TraceFailed"}

\* What the trace records of a call.
Recorded ==
  {"refused", "denied", "allowed", "notForwarded", "completed", "cancelled", "abandoned"}

TypeOK ==
  /\ phase \in {"PreInit", "Initializing", "Ready"}
  /\ end \in SessionEnds /\ closed \in BOOLEAN /\ parked \in BOOLEAN
  /\ table \in [Upstream -> SUBSET Tool]
  /\ grantedRoutes \in [Tool -> Optional(Upstream)]
  /\ listChangePending \in BOOLEAN /\ untold \in BOOLEAN
  /\ inFlight \in [Id -> Optional(InFlight)]
  /\ nextCall \in 0 .. MaxCalls
  /\ relistRunning \in [Upstream -> BOOLEAN]
  /\ relistDirty \in [Upstream -> BOOLEAN]
  /\ relistFailed \in [Upstream -> BOOLEAN]
  /\ relistResult \in [Upstream -> Optional(Relisted)]
  /\ commands \in [Upstream -> Seq(Commands)]
  /\ pending \in [Upstream -> [Id -> Optional(Call)]]
  /\ actor \in [Upstream -> {"up", "ending", "closing", "gone"}]
  /\ events \in Seq(Events)
  /\ clientQueue \in 0 .. ClientCap /\ writer \in {"open", "failed"}
  /\ offered \in [Upstream -> SUBSET Tool]
  /\ unsaid \in [Upstream -> BOOLEAN]
  /\ changes \in 0 .. MaxChanges /\ notices \in 0 .. MaxNotices
  /\ contested \in BOOLEAN
  /\ trace \in [Call -> Seq(Recorded)]
  /\ forwarded \in [Call -> Optional(Judged)]
  /\ answers \in [Call -> Nat]

\* The stories the trace may tell of a call: refused before a verdict, denied,
\* or allowed and then closed by one terminal event.
Refused == <<"refused">>
Denied == <<"denied">>
Open == <<"allowed">>
Ended(outcome) == <<"allowed", outcome>>
Outcomes == {"completed", "notForwarded", "cancelled", "abandoned"}
Stories == {<<>>, Refused, Denied, Open} \cup {Ended(outcome) : outcome \in Outcomes}

\* Each CallId has one story: never two verdicts, never a terminal event without
\* an Allow, never two terminal events; and no minted call is missing from the
\* trace unless the sink failed (on_tools_call, cancellations, responses and the
\* teardown all write about the same calls).
OneStoryPerCall ==
  /\ \A c \in Call : trace[c] \in Stories
  /\ Enforced /\ end # "TraceFailed" => \A c \in 0 .. nextCall - 1 : trace[c] # <<>>

\* W1 and I13: a frame reaches an actor only for a call the grants in force
\* allowed at the clock reading used, and only after the trace says so.
ForwardedOnlyIfAllowed ==
  Enforced =>
    \A c \in Call :
      forwarded[c] # None =>
        /\ Allows(Envelope, forwarded[c].request, forwarded[c].now)
        /\ trace[c] # <<>> /\ trace[c][1] = "allowed"

\* The table of calls in flight and the open calls of the trace are the same set
\* as long as the sink works: no claim is lost, kept too long or taken over by
\* a later call under the same id.
OpenCallsAreInFlight ==
  Enforced /\ end # "TraceFailed" =>
    \A c \in Call :
      trace[c] = Open <=> \E id \in Id : inFlight[id] # None /\ inFlight[id].call = c

\* The client is answered exactly once for a call the trace says was refused,
\* denied, not forwarded or completed, and never for one it says was cancelled or
\* abandoned - a late response cannot answer a later call under the same id.
AnsweredAsTraced ==
  \A c \in Call :
    /\ answers[c] <= 1
    /\ Enforced => (answers[c] = 1 <=>
         trace[c] \in {Refused, Denied, Ended("completed"), Ended("notForwarded")})

\* Every Allow is closed by a terminal event when the session is over, whatever
\* ended it, unless the sink failed.
AllowsAreAccountedFor ==
  Enforced /\ closed /\ end # "TraceFailed" => \A c \in Call : trace[c] # Open

\* The life of a call, read off its story in the trace, when the first "minted"
\* calls have been made.
LifeIn(story, call, minted) ==
  CASE story = <<>> -> IF call < minted THEN "lost" ELSE "unborn"
    [] story = Refused -> "refused"
    [] story = Denied -> "denied"
    [] story = Open -> "open"
    [] OTHER -> story[Len(story)]

Life == INSTANCE CallLife WITH
  life <- [c \in Call |-> LifeIn(trace[c], c, nextCall)],
  replies <- answers,
  sent <- {c \in Call : forwarded[c] # None},
  audit <- IF end = "TraceFailed" THEN "failed" ELSE "up"

\* An enforced session implements CallLife: whatever ids, queues, re-lists and
\* failures do, each step does to the calls one thing CallLife allows.
ImplementsCallLife == Life!Spec

\* The actor of u as ActorView has it: what is left in the queue of an actor that is gone
\* went with it, and an event of another actor is only something in the queue.
Queued(u) == IF end # "none" \/ actor[u] = "gone" THEN <<>> ELSE commands[u]
Standing(u) == IF end = "none" THEN pending[u] ELSE [id \in Id |-> None]
Stage(u) == IF end = "none" THEN actor[u] ELSE "unheard"
AsSeenBy(u, e) == IF e.upstream = u THEN [kind |-> e.kind, id |-> e.id, call |-> e.call] ELSE None
Heard(u) == IF end = "none" THEN [i \in DOMAIN events |-> AsSeenBy(u, events[i])] ELSE <<>>

Actor(u) == INSTANCE ActorView WITH
  Own <- {}, Other <- None, commands <- Queued(u), pending <- Standing(u), actor <- Stage(u),
  events <- Heard(u)

\* To each actor the session is the one ActorView has: whichever upstreams else share the
\* event queue, it sends, takes events and stops listening as Connection was checked with.
ActorsAreViews ==
  /\ \A u \in Upstream : Actor(u)!Init
  /\ [][\A u \in Upstream : [Actor(u)!Next]_(Actor(u)!vars)]_vars

\* A tool a grant names is served by one upstream for the whole session: no
\* sequence of re-lists redirects the grant's authority.
GrantedToolsNeverMove ==
  \A c, d \in Call :
    (/\ forwarded[c] # None /\ forwarded[d] # None
     /\ forwarded[c].request.tool = forwarded[d].request.tool
     /\ forwarded[c].request.tool \in WatchedTools)
      => forwarded[c].upstream = forwarded[d].upstream

\* A call in flight is somewhere: in its actor's queue, pending at the upstream,
\* or answered and waiting in the event queue.  No cancellation or reuse of its id
\* makes the actor forget it.
NoCallIsStranded ==
  end = "none" =>
    \A id \in Id :
      LET call == inFlight[id].call
          u == inFlight[id].upstream
      IN inFlight[id] # None /\ actor[u] = "up" =>
           \/ CommandOf("Forward", id, call) \in {commands[u][i] : i \in DOMAIN commands[u]}
           \/ pending[u][id] = call
           \/ EventOf("Response", u, id, call) \in {events[i] : i \in DOMAIN events}

\* Nothing is owed: the upstream announced all its changes, they were heard, no
\* re-list is under way and the last one did not fail.
Settled(u) ==
  /\ ~unsaid[u] /\ ~relistRunning[u] /\ ~relistFailed[u]
  /\ \A i \in DOMAIN events : ~(events[i].kind = "ListChanged" /\ events[i].upstream = u)

\* No list change is lost in the coalescing of re-lists: when nothing is owed
\* the table is what the upstream offers.
NoChangeIsLost ==
  end = "none" => \A u \in Upstream : Settled(u) => table[u] = offered[u]

\* A client that is Ready has been told of every replacement of the table, and
\* one that is not will be when it is.
ClientIsTold ==
  end = "none" => (untold => phase # "Ready" /\ listChangePending)

-----------------------------------------------------------------------------
(* Liveness properties *)

\* I10: any upstream ending ends the session, and the teardown completes.
UpstreamEndEndsSession ==
  \A u \in Upstream : actor[u] = "ending" ~> closed

\* A call the gate let through gets its terminal event.
ForwardedCallsEnd ==
  \A c \in Call :
    forwarded[c] # None ~> end = "TraceFailed" \/ (Enforced => trace[c] # Open)

\* The table catches up with what each upstream ended up offering.
TableCatchesUp ==
  \A u \in Upstream : <>[](end = "none" /\ ~relistFailed[u] => table[u] = offered[u])

-----------------------------------------------------------------------------
(* What the repository says and the code does not do *)

\* GLOSSARY, "Collision": the same tool name offered twice.  A session that ends
\* with ToolCollision met two upstreams offering one name, or one offering it twice.
CollisionsWereOffered ==
  [][\A u \in Upstream :
       end = "none" /\ end' = "ToolCollision" /\ relistResult[u] # None /\ relistResult'[u] = None
         => contested \/ relistResult[u].status = "twice"]_vars
=============================================================================
