---------------------------- MODULE RouterProofs ----------------------------
(***************************************************************************)
(* What holds of every session of the router: any number of upstreams,     *)
(* ids, calls and tool list changes, any envelope, any queue capacities.   *)
(***************************************************************************)
EXTENDS Router, GrantsProofs

USE RouterAssumption

-----------------------------------------------------------------------------
(* The tool table *)

\* A routed tool is in its upstream's list.
LEMMA RouteOfIsAnOffer ==
  ASSUME NEW lists \in [Upstream -> SUBSET Tool], NEW tool
  PROVE  /\ RouteOf(lists, tool) \in Optional(Upstream)
         /\ RouteOf(lists, tool) # None => tool \in lists[RouteOf(lists, tool)]
  BY DEF RouteOf, Optional

\* Remembering leaves a table of routes.
LEMMA RememberType ==
  ASSUME NEW lists \in [Upstream -> SUBSET Tool],
         NEW routes \in [Tool -> Optional(Upstream)]
  PROVE  Remember(routes, lists) \in [Tool -> Optional(Upstream)]
  BY RouteOfIsAnOffer DEF Remember

LEMMA NoRouteType == [tool \in Tool |-> None] \in [Tool -> Optional(Upstream)]
  BY DEF Optional

-----------------------------------------------------------------------------
(* Type correctness *)

\* The event a handler takes is an event of its kind, and the rest stays a queue.
LEMMA TakeEventType ==
  ASSUME TypeOK, NEW kind, TakeEvent(kind)
  PROVE  /\ Head(events) \in Events /\ Head(events).kind = kind
         /\ Head(events).upstream \in Upstream
         /\ kind = "Response" => Head(events).id \in Id /\ Head(events).call \in Call
         /\ events' \in Seq(Events)
<1>1. events \in Seq(Events) /\ events # <<>>
  BY DEF TypeOK, TakeEvent
<1>2. Head(events) \in Events /\ Tail(events) \in Seq(Events)
  BY <1>1
<1>. QED
  BY <1>2 DEF TakeEvent, Events

\* The command an actor takes is a command of its kind.
LEMMA TakeCommandType ==
  ASSUME TypeOK, NEW u \in Upstream, NEW kind, TakeCommand(u, kind)
  PROVE  /\ Head(commands[u]).id \in Id
         /\ kind = "Forward" => Head(commands[u]).call \in Call
         /\ commands' \in [Upstream -> Seq(Commands)]
<1>1. commands[u] \in Seq(Commands) /\ commands[u] # <<>>
  BY DEF TypeOK, TakeCommand
<1>2. Head(commands[u]) \in Commands /\ Tail(commands[u]) \in Seq(Commands)
  BY <1>1
<1>. QED
  BY <1>2 DEF TakeCommand, Commands, TypeOK

\* The bounds are positive numbers.
LEMMA Bounds ==
  /\ CommandCap \in Nat /\ EventCap \in Nat
  /\ ClientCap \in Nat /\ ClientCap > 0
  /\ MaxCalls \in Nat /\ MaxCalls > 0
  /\ MaxChanges \in Nat /\ MaxNotices \in Nat
  OBVIOUS

LEMMA DeliverType ==
  ASSUME TypeOK, Deliver
  PROVE  /\ closed' = closed /\ parked' \in BOOLEAN /\ end' \in SessionEnds
         /\ clientQueue' \in 0 .. ClientCap /\ writer' \in {"open", "failed"}
<1>1. /\ parked \in BOOLEAN /\ end \in SessionEnds
      /\ clientQueue \in 0 .. ClientCap /\ writer \in {"open", "failed"}
  BY DEF TypeOK
<1>2. clientQueue' \in 0 .. ClientCap
  BY <1>1, Bounds DEF Deliver
<1>3. closed' = closed /\ writer' \in {"open", "failed"}
  BY <1>1 DEF Deliver
<1>4. parked' \in BOOLEAN /\ end' \in SessionEnds
  BY <1>1 DEF Deliver, SessionEnds
<1>. QED
  BY <1>2, <1>3, <1>4

LEMMA TracedType ==
  ASSUME TypeOK, NEW call \in Call, NEW event \in Recorded, Traced(call, event)
  PROVE  trace' \in [Call -> Seq(Recorded)]
<1>1. trace \in [Call -> Seq(Recorded)] /\ trace[call] \in Seq(Recorded)
  BY DEF TypeOK
<1>2. Append(trace[call], event) \in Seq(Recorded)
  BY <1>1
<1>. QED
  BY <1>1, <1>2 DEF Traced

LEMMA AnsweredType ==
  ASSUME TypeOK, NEW call \in Call, Answered(call)
  PROVE  answers' \in [Call -> Nat]
  BY DEF TypeOK, Answered

LEMMA MintType ==
  ASSUME TypeOK, Mint
  PROVE  nextCall \in Call /\ nextCall' \in 0 .. MaxCalls
  BY DEF TypeOK, Mint, Call

\* A claim is a call in flight.
LEMMA ClaimType ==
  ASSUME TypeOK, Mint, NEW id \in Id, NEW u \in Upstream, NEW tool \in Tool
  PROVE  Claim(id, u, tool) \in [Id -> Optional(InFlight)]
  BY MintType, SMTT(30) DEF TypeOK, Claim, InFlight, Optional

LEMMA ReleaseType ==
  ASSUME TypeOK, NEW id \in Id
  PROVE  Release(id) \in [Id -> Optional(InFlight)]
  BY DEF TypeOK, Release, Optional

\* A routed request goes to an upstream that offers its tool.
LEMMA RoutedType ==
  ASSUME TypeOK, NEW id \in Id, NEW request \in Request, Routed(id, request)
  PROVE  RouteOf(table, request.tool) \in Upstream /\ request.tool \in Tool
<1>1. request \in ToolCall
  OBVIOUS
<1>. QED
  BY <1>1, RouteOfIsAnOffer DEF TypeOK, Routed, Optional, ToolCall

\* A call in flight names its upstream, its tool and its number.
LEMMA InFlightType ==
  ASSUME TypeOK, NEW id \in Id, inFlight[id] # None
  PROVE  /\ inFlight[id] \in InFlight
         /\ inFlight[id].upstream \in Upstream
         /\ inFlight[id].call \in Call
  BY DEF TypeOK, InFlight, Optional

LEMMA SendType ==
  ASSUME TypeOK, NEW u \in Upstream, NEW command \in Commands, Send(u, command)
  PROVE  commands' \in [Upstream -> Seq(Commands)]
<1>1. commands \in [Upstream -> Seq(Commands)] /\ commands[u] \in Seq(Commands)
  BY DEF TypeOK
<1>2. Append(commands[u], command) \in Seq(Commands)
  BY <1>1
<1>. QED
  BY <1>1, <1>2 DEF Send

LEMMA EmitType ==
  ASSUME TypeOK, NEW event \in Events, Emit(event)
  PROVE  events' \in Seq(Events)
  BY DEF TypeOK, Emit

\* Client frames keep the types.
LEMMA ClientTypes ==
  ASSUME TypeOK, HandleClient
  PROVE  TypeOK'
<1>. USE DEF Elsewhere, tableVars, callVars, relistVars, actorVars, sourceVars, clientVars
<1>1. CASE AnswerAtOnce
  BY <1>1, DeliverType DEF AnswerAtOnce, TypeOK
<1>2. CASE AuditFails
  BY <1>2 DEF AuditFails, SinkRefuses, Finish, TypeOK, SessionEnds
<1>3. CASE Initialize
  BY <1>3, DeliverType DEF Initialize, TypeOK
<1>4. CASE Initialized
  <2>1. CASE listChangePending
    BY <1>4, <2>1, DeliverType DEF Initialized, TypeOK
  <2>2. CASE ~listChangePending
    BY <1>4, <2>2 DEF Initialized, Carry, TypeOK
  <2>. QED
    BY <2>1, <2>2
<1>5. CASE ClientLeaves
  BY <1>5 DEF ClientLeaves, Finish, TypeOK, SessionEnds
<1>6. CASE RefuseCall
  <2>1. nextCall \in Call /\ nextCall' \in 0 .. MaxCalls
    BY <1>6, MintType DEF RefuseCall
  <2>2. CASE Traced(nextCall, "refused") /\ Answered(nextCall) /\ Deliver
    <3>1. trace' \in [Call -> Seq(Recorded)] /\ answers' \in [Call -> Nat]
      BY <2>1, <2>2, TracedType, AnsweredType DEF Recorded
    <3>. QED
      BY <1>6, <2>1, <2>2, <3>1, DeliverType DEF RefuseCall, TypeOK
  <2>3. CASE SinkRefuses /\ UNCHANGED <<trace, answers>>
    BY <1>6, <2>1, <2>3 DEF RefuseCall, SinkRefuses, Finish, TypeOK, SessionEnds
  <2>. QED
    BY <1>6, <2>2, <2>3 DEF RefuseCall
<1>7. ASSUME NEW id \in Id, CancelCall(id)
      PROVE  TypeOK'
  <2>1. inFlight' \in [Id -> Optional(InFlight)] /\ inFlight[id] # None
    BY <1>7, ReleaseType DEF CancelCall
  <2>2. inFlight[id].upstream \in Upstream /\ inFlight[id].call \in Call
    BY <2>1, InFlightType
  <2>3. CommandOf("Cancel", id, None) \in Commands
    BY DEF CommandOf, Commands
  <2>4. trace' \in [Call -> Seq(Recorded)]
    BY <1>7, <2>2, TracedType DEF CancelCall, TypeOK, Recorded
  <2>5. commands' \in [Upstream -> Seq(Commands)]
    BY <1>7, <2>2, <2>3, SendType DEF CancelCall, TypeOK
  <2>6. end' \in SessionEnds /\ UNCHANGED <<closed, parked, clientVars>>
    BY <1>7 DEF CancelCall, Carry, SinkRefuses, Finish, SessionEnds, TypeOK
  <2>. QED
    BY <1>7, <2>1, <2>4, <2>5, <2>6 DEF CancelCall, TypeOK
<1>8. ASSUME NEW id \in Id, NEW request \in Request, DecisionNotRecorded(id, request)
      PROVE  TypeOK'
  <2>1. inFlight' \in [Id -> Optional(InFlight)] /\ nextCall' \in 0 .. MaxCalls
    BY <1>8, RoutedType, ClaimType, MintType DEF DecisionNotRecorded
  <2>. QED
    BY <1>8, <2>1 DEF DecisionNotRecorded, SinkRefuses, Finish, TypeOK, SessionEnds
<1>9. ASSUME NEW id \in Id, NEW request \in Request, NEW now \in Times,
             DenyCall(id, request, now)
      PROVE  TypeOK'
  <2>1. nextCall \in Call /\ nextCall' \in 0 .. MaxCalls
    BY <1>9, MintType DEF DenyCall
  <2>2. trace' \in [Call -> Seq(Recorded)] /\ answers' \in [Call -> Nat]
    BY <1>9, <2>1, TracedType, AnsweredType DEF DenyCall, Recorded
  <2>. QED
    BY <1>9, <2>1, <2>2, DeliverType DEF DenyCall, TypeOK
<1>10. ASSUME NEW id \in Id, NEW request \in Request, NEW now \in Times,
              ForwardCall(id, request, now)
       PROVE  TypeOK'
  <2> DEFINE u == RouteOf(table, request.tool)
  <2>1. nextCall \in Call /\ nextCall' \in 0 .. MaxCalls
    BY <1>10, MintType DEF ForwardCall
  <2>2. u \in Upstream /\ request.tool \in Tool
    BY <1>10, RoutedType DEF ForwardCall
  <2>3. inFlight' \in [Id -> Optional(InFlight)]
    BY <1>10, <2>2, ClaimType DEF ForwardCall
  <2>4. trace' \in [Call -> Seq(Recorded)]
    BY <1>10, <2>1, TracedType DEF ForwardCall, Recorded
  <2>5. CommandOf("Forward", id, nextCall) \in Commands
    BY <2>1 DEF CommandOf, Commands
  <2>6. commands' \in [Upstream -> Seq(Commands)]
    BY <1>10, <2>2, <2>5, SendType DEF ForwardCall
  <2>7. forwarded' \in [Call -> Optional(Judged)]
    BY <1>10, <2>1, <2>2 DEF ForwardCall, TypeOK, Judged, Optional
  <2>. QED
    BY <1>10, <2>1, <2>3, <2>4, <2>6, <2>7 DEF ForwardCall, Carry, TypeOK
<1>11. ASSUME NEW id \in Id, NEW request \in Request, NEW now \in Times,
              CallNotForwarded(id, request, now)
       PROVE  TypeOK'
  <2>1. nextCall \in Call /\ nextCall' \in 0 .. MaxCalls
    BY <1>11, MintType DEF CallNotForwarded
  <2>2. trace \in [Call -> Seq(Recorded)] /\ answers \in [Call -> Nat]
    BY DEF TypeOK
  <2>3. trace[nextCall] \o <<"allowed", "notForwarded">> \in Seq(Recorded)
    BY <2>1, <2>2 DEF Recorded
  <2>4. trace' \in [Call -> Seq(Recorded)] /\ answers' \in [Call -> Nat]
    BY <1>11, <2>1, <2>2, <2>3, TracedType, AnsweredType, ZenonT(60) DEF CallNotForwarded, Recorded
  <2>5. end' \in SessionEnds /\ closed' = closed /\ parked' \in BOOLEAN
        /\ clientQueue' \in 0 .. ClientCap /\ writer' \in {"open", "failed"}
    BY <1>11, DeliverType DEF CallNotForwarded, SinkRefuses, Finish, SessionEnds, TypeOK
  <2>. QED
    BY <1>11, <2>1, <2>4, <2>5 DEF CallNotForwarded, TypeOK
<1>. QED
  BY <1>1, <1>2, <1>3, <1>4, <1>5, <1>6, <1>7, <1>8, <1>9, <1>10, <1>11
     DEF HandleClient, RefuseMalformed, RefuseDuplicateId, RefuseUnknownTool

\* Upstream events keep the types.
LEMMA EventTypes ==
  ASSUME TypeOK, HandleEvent
  PROVE  TypeOK'
<1>. USE DEF tableVars, callVars, relistVars, actorVars, sourceVars, clientVars
<1>1. CASE MatchedResponse
  <2> DEFINE e == Head(events)
  <2>1. TakeEvent("Response") /\ inFlight[e.id] # None /\ inFlight[e.id].call = e.call
    BY <1>1 DEF MatchedResponse, Matched
  <2>2. e.id \in Id /\ e.call \in Call /\ events' \in Seq(Events)
    BY <2>1, TakeEventType
  <2>3. inFlight' \in [Id -> Optional(InFlight)]
    BY <1>1, <2>2, ReleaseType DEF MatchedResponse
  <2>4. CASE Traced(e.call, "completed") /\ Answered(e.call) /\ Deliver
    <3>1. trace' \in [Call -> Seq(Recorded)] /\ answers' \in [Call -> Nat]
      BY <2>2, <2>4, TracedType, AnsweredType DEF Recorded
    <3>. QED
      BY <1>1, <2>2, <2>3, <2>4, <3>1, DeliverType DEF MatchedResponse, TypeOK
  <2>5. CASE SinkRefuses /\ UNCHANGED <<trace, answers>>
    BY <1>1, <2>2, <2>3, <2>5 DEF MatchedResponse, SinkRefuses, Finish, TypeOK, SessionEnds
  <2>. QED
    BY <1>1, <2>1, <2>4, <2>5 DEF MatchedResponse
<1>2. CASE StaleResponse
  <2>1. events' \in Seq(Events)
    BY <1>2, TakeEventType DEF StaleResponse
  <2>. QED
    BY <1>2, <2>1 DEF StaleResponse, Carry, SinkRefuses, Finish, TypeOK, SessionEnds
<1>3. CASE Notification
  <2>1. events' \in Seq(Events)
    BY <1>3, TakeEventType DEF Notification
  <2>2. CASE Deliver
    BY <1>3, <2>1, <2>2, DeliverType DEF Notification, TypeOK
  <2>3. CASE Carry \/ SinkRefuses
    BY <1>3, <2>1, <2>3 DEF Notification, Carry, SinkRefuses, Finish, TypeOK, SessionEnds
  <2>. QED
    BY <1>3, <2>2, <2>3 DEF Notification
<1>4. CASE ListChanged
  <2>1. events' \in Seq(Events) /\ Head(events).upstream \in Upstream
    BY <1>4, TakeEventType DEF ListChanged
  <2>2. relistRunning' \in [Upstream -> BOOLEAN] /\ relistDirty' \in [Upstream -> BOOLEAN]
    BY <1>4, <2>1, Zenon DEF ListChanged, TypeOK
  <2>. QED
    BY <1>4, <2>1, <2>2 DEF ListChanged, Carry, TypeOK
<1>5. CASE UpstreamEnds
  <2>1. events' \in Seq(Events)
    BY <1>5, TakeEventType DEF UpstreamEnds
  <2>. QED
    BY <1>5, <2>1 DEF UpstreamEnds, SinkRefuses, Finish, TypeOK, SessionEnds
<1>. QED
  BY <1>1, <1>2, <1>3, <1>4, <1>5 DEF HandleEvent

\* A joined re-list has a result, and the table it would make is a table.
LEMMA JoinedType ==
  ASSUME TypeOK, NEW u \in Upstream, Joined(u)
  PROVE  /\ relistResult[u] \in Relisted
         /\ NewTable(u) \in [Upstream -> SUBSET Tool]
         /\ relistRunning' \in [Upstream -> BOOLEAN]
         /\ relistDirty' \in [Upstream -> BOOLEAN]
         /\ relistFailed' \in [Upstream -> BOOLEAN]
         /\ relistResult' \in [Upstream -> Optional(Relisted)]
<1>1. relistResult[u] \in Relisted
  BY DEF TypeOK, Joined, Optional
<1>2. NewTable(u) \in [Upstream -> SUBSET Tool]
  BY <1>1 DEF TypeOK, NewTable, Relisted
<1>3. relistRunning' \in [Upstream -> BOOLEAN] /\ relistDirty' \in [Upstream -> BOOLEAN]
      /\ relistFailed' \in [Upstream -> BOOLEAN]
  BY DEF TypeOK, Joined
<1>4. relistResult' \in [Upstream -> Optional(Relisted)]
  BY DEF TypeOK, Joined, Optional
<1>. QED
  BY <1>1, <1>2, <1>3, <1>4

\* Re-lists keep the types.
LEMMA RelistTypes ==
  ASSUME TypeOK, NEW u \in Upstream, HandleRelist(u)
  PROVE  TypeOK'
<1>. USE DEF tableVars, callVars, actorVars, sourceVars, clientVars
<1>1. Joined(u)
  BY DEF HandleRelist, InstallTable, RefuseRebound, RefuseCollision, KeepTable
<1>2. /\ NewTable(u) \in [Upstream -> SUBSET Tool]
      /\ relistRunning' \in [Upstream -> BOOLEAN]
      /\ relistDirty' \in [Upstream -> BOOLEAN]
      /\ relistFailed' \in [Upstream -> BOOLEAN]
      /\ relistResult' \in [Upstream -> Optional(Relisted)]
  BY <1>1, JoinedType
<1>3. CASE InstallTable(u)
  <2>1. table' \in [Upstream -> SUBSET Tool]
        /\ grantedRoutes' \in [Tool -> Optional(Upstream)]
    BY <1>2, <1>3, RememberType DEF InstallTable, TypeOK
  <2>2. CASE phase = "Ready"
    BY <1>1, <1>2, <1>3, <2>1, <2>2, DeliverType, ZenonT(60) DEF InstallTable, Joined, TypeOK
  <2>3. CASE phase # "Ready"
    BY <1>1, <1>2, <1>3, <2>1, <2>3 DEF InstallTable, Joined, Carry, TypeOK
  <2>. QED
    BY <2>2, <2>3
<1>4. CASE RefuseRebound(u) \/ RefuseCollision(u) \/ KeepTable(u)
  BY <1>1, <1>2, <1>4
     DEF RefuseRebound, RefuseCollision, KeepTable, Joined, Finish, Carry, TypeOK, SessionEnds
<1>. QED
  BY <1>3, <1>4 DEF HandleRelist

\* The parked frame, the writer, the re-list tasks and the teardown keep the types.
LEMMA SessionTypes ==
  ASSUME TypeOK,
         \/ Unpark \/ ParkedFails \/ WriteFrame \/ WriterFails \/ Teardown
         \/ \E u \in Upstream : ReadTools(u)
  PROVE  TypeOK'
<1>. USE DEF Elsewhere, serveVars, tableVars, callVars, relistVars, actorVars, sourceVars,
             clientVars
<1>1. CASE Unpark
  <2>1. clientQueue' \in 0 .. ClientCap
    BY <1>1, Bounds DEF Unpark, TypeOK
  <2>. QED
    BY <1>1, <2>1 DEF Unpark, TypeOK
<1>2. CASE ParkedFails
  BY <1>2 DEF ParkedFails, TypeOK, SessionEnds
<1>3. CASE WriteFrame
  BY <1>3, Bounds DEF WriteFrame, TypeOK
<1>4. CASE WriterFails
  BY <1>4, Bounds DEF WriterFails, TypeOK
<1>5. ASSUME NEW id \in Id, AbandonCall(id)
      PROVE  TypeOK'
  <2>1. inFlight[id] # None /\ inFlight' \in [Id -> Optional(InFlight)]
    BY <1>5, ReleaseType DEF AbandonCall, OpenIds
  <2>2. inFlight[id].call \in Call
    BY <2>1, InFlightType
  <2>3. trace' \in [Call -> Seq(Recorded)]
    BY <1>5, <2>2, TracedType DEF AbandonCall, TypeOK, Recorded
  <2>4. end' \in SessionEnds
    BY <1>5 DEF AbandonCall, TypeOK, SessionEnds
  <2>. QED
    BY <1>5, <2>1, <2>3, <2>4 DEF AbandonCall, TypeOK
<1>6. CASE CloseSession
  BY <1>6 DEF CloseSession, TypeOK
<1>7. ASSUME NEW u \in Upstream, ReadTools(u)
      PROVE  TypeOK'
  <2>0. /\ relistResult'[u] \in Relisted
        /\ \A v \in Upstream \ {u} : relistResult'[v] = relistResult[v]
    BY <1>7 DEF ReadTools, TypeOK, Relisted
  <2>1. relistResult' \in [Upstream -> Optional(Relisted)]
    BY <1>7, <2>0, ZenonT(60) DEF ReadTools, TypeOK, Optional
  <2>. QED
    BY <1>7, <2>1 DEF ReadTools, TypeOK
<1>. QED
  BY <1>1, <1>2, <1>3, <1>4, <1>5, <1>6, <1>7 DEF Teardown

\* Actors and upstreams keep the types.
LEMMA OutsideTypes ==
  ASSUME TypeOK, NEW u \in Upstream, ActorStep(u) \/ UpstreamStep(u) \/ ReportEnd(u)
  PROVE  TypeOK'
<1>. USE DEF Outside, serveVars, tableVars, callVars, relistVars, actorVars, sourceVars,
             clientVars
<1>1. CASE SendUpstream(u) \/ CancelUpstream(u)
  <2>1. commands' \in [Upstream -> Seq(Commands)]
    BY <1>1, TakeCommandType DEF SendUpstream, CancelUpstream
  <2>2. PICK call \in Optional(Call) : pending' = [pending EXCEPT ![u][Head(commands[u]).id] = call]
    BY <1>1, TakeCommandType DEF SendUpstream, CancelUpstream, Optional
  <2>3. pending' \in [Upstream -> [Id -> Optional(Call)]]
    BY <2>2 DEF TypeOK
  <2>. QED
    BY <1>1, <2>1, <2>3, SMTT(30) DEF SendUpstream, CancelUpstream, TakeCommand, TypeOK
<1>2. CASE RejectForward(u)
  <2> DEFINE command == Head(commands[u])
  <2>1. command.id \in Id /\ command.call \in Call
        /\ commands' \in [Upstream -> Seq(Commands)]
    BY <1>2, TakeCommandType DEF RejectForward
  <2>2. pending' \in [Upstream -> [Id -> Optional(Call)]]
    BY <1>2, <2>1 DEF RejectForward, TypeOK, Optional
  <2>3. EventOf("Response", u, command.id, command.call) \in Events
    BY <2>1 DEF EventOf, Events
  <2>4. events' \in Seq(Events)
    BY <1>2, <2>3, EmitType DEF RejectForward
  <2>. QED
    BY <1>2, <2>1, <2>2, <2>4 DEF RejectForward, TakeCommand, TypeOK
<1>3. ASSUME NEW id \in Id, Respond(u, id)
      PROVE  TypeOK'
  <2>1. pending[u][id] \in Call
    BY <1>3 DEF Respond, TypeOK, Optional
  <2>2. pending' \in [Upstream -> [Id -> Optional(Call)]]
    BY <1>3 DEF Respond, TypeOK, Optional
  <2>3. EventOf("Response", u, id, pending[u][id]) \in Events
    BY <2>1 DEF EventOf, Events
  <2>4. events' \in Seq(Events)
    BY <1>3, <2>3, EmitType DEF Respond
  <2>. QED
    BY <1>3, <2>2, <2>4 DEF Respond, TypeOK
<1>4. CASE ReportProgress(u)
  <2>1. EventOf("Notification", u, None, None) \in Events
    BY DEF EventOf, Events
  <2>2. events' \in Seq(Events)
    BY <1>4, <2>1, EmitType DEF ReportProgress
  <2>3. notices' \in 0 .. MaxNotices
    BY <1>4, Bounds DEF ReportProgress, TypeOK
  <2>. QED
    BY <1>4, <2>2, <2>3 DEF ReportProgress, TypeOK
<1>5. CASE ChangeTools(u)
  <2>1. changes' \in 0 .. MaxChanges
    BY <1>5, Bounds DEF ChangeTools, TypeOK
  <2>2. offered' \in [Upstream -> SUBSET Tool] /\ unsaid' \in [Upstream -> BOOLEAN]
    BY <1>5 DEF ChangeTools, TypeOK
  <2>3. contested' \in BOOLEAN
    BY <1>5, Zenon DEF ChangeTools, TypeOK, Unambiguous
  <2>. QED
    BY <1>5, <2>1, <2>2, <2>3 DEF ChangeTools, TypeOK
<1>6. CASE SayListChanged(u)
  <2>1. EventOf("ListChanged", u, None, None) \in Events
    BY DEF EventOf, Events
  <2>2. events' \in Seq(Events)
    BY <1>6, <2>1, EmitType DEF SayListChanged
  <2>. QED
    BY <1>6, <2>2 DEF SayListChanged, TypeOK
<1>7. CASE LoseUpstream(u)
  <2>1. commands[u] # <<>> => Tail(commands[u]) \in Seq(Commands)
    BY DEF TypeOK
  <2>2. commands' \in [Upstream -> Seq(Commands)]
    BY <1>7, <2>1 DEF LoseUpstream, TypeOK
  <2>. QED
    BY <1>7, <2>2 DEF LoseUpstream, TypeOK, Optional
<1>8. CASE ReportEnd(u)
  <2>1. EventOf("Ended", u, None, None) \in Events
    BY DEF EventOf, Events
  <2>2. events' \in Seq(Events)
    BY <1>8, <2>1, EmitType DEF ReportEnd
  <2>. QED
    BY <1>8, <2>2 DEF ReportEnd, TypeOK
<1>9. CASE CloseTransport(u)
  BY <1>9 DEF CloseTransport, TypeOK
<1>. QED
  BY <1>1, <1>2, <1>3, <1>4, <1>5, <1>6, <1>7, <1>8, <1>9 DEF ActorStep, UpstreamStep

\* The session starts in a typed state.
LEMMA InitTypes == Init => TypeOK
<1>. SUFFICES ASSUME Init PROVE TypeOK
  OBVIOUS
<1>1. grantedRoutes \in [Tool -> Optional(Upstream)]
  BY NoRouteType, RememberType DEF Init
<1>2. commands \in [Upstream -> Seq(Commands)] /\ events \in Seq(Events)
      /\ trace \in [Call -> Seq(Recorded)]
  BY DEF Init
<1>3. nextCall \in 0 .. MaxCalls /\ clientQueue \in 0 .. ClientCap
      /\ changes \in 0 .. MaxChanges /\ notices \in 0 .. MaxNotices
      /\ answers \in [Call -> Nat]
  BY Bounds DEF Init
<1>4. inFlight \in [Id -> Optional(InFlight)] /\ forwarded \in [Call -> Optional(Judged)]
      /\ pending \in [Upstream -> [Id -> Optional(Call)]]
      /\ relistResult \in [Upstream -> Optional(Relisted)]
  BY DEF Init, Optional
<1>. QED
  BY <1>1, <1>2, <1>3, <1>4 DEF Init, TypeOK, SessionEnds

LEMMA StepTypes == TypeOK /\ [Next]_vars => TypeOK'
<1>. SUFFICES ASSUME TypeOK, [Next]_vars PROVE TypeOK'
  OBVIOUS
<1>1. CASE UNCHANGED vars
  BY <1>1 DEF TypeOK, vars, serveVars, tableVars, callVars, relistVars, actorVars, clientVars,
              sourceVars
<1>2. CASE Next
  BY <1>1, <1>2, ClientTypes, EventTypes, RelistTypes, SessionTypes, OutsideTypes
     DEF Next, Exited
<1>. QED
  BY <1>1, <1>2

\* TypeOK: the router's state keeps its types, whatever clients and upstreams do.
THEOREM TypeCorrect == Spec => []TypeOK
  BY InitTypes, StepTypes, PTL DEF Spec

-----------------------------------------------------------------------------
(* The granted tools stay where they were first seen *)

\* The strengthening of GrantedToolsNeverMove: where a watched tool routes, now
\* or when a call was forwarded, is where grantedRoutes says it was first seen.
RoutesAgree ==
  /\ \A tool \in WatchedTools :
       RouteOf(table, tool) # None => grantedRoutes[tool] = RouteOf(table, tool)
  /\ \A c \in Call :
       forwarded[c] # None /\ forwarded[c].request.tool \in WatchedTools =>
         grantedRoutes[forwarded[c].request.tool] = forwarded[c].upstream

LEMMA WatchedToolsAreTools == WatchedTools \subseteq Tool
<1>1. Envelope \in Seq(Grant)
  BY DEF GrantSet
<1>2. ASSUME NEW i \in DOMAIN Envelope
      PROVE  Envelope[i].tool \in Tool
  <2>1. Envelope[i] \in Grant
    BY <1>1
  <2>. QED
    BY <2>1 DEF Grant
<1>. QED
  BY <1>2 DEF WatchedTools

\* Remembering a table that rebinds nothing keeps what was remembered, and then
\* agrees with that table.
LEMMA RememberAgrees ==
  ASSUME NEW lists \in [Upstream -> SUBSET Tool],
         NEW routes \in [Tool -> Optional(Upstream)],
         NEW tool \in WatchedTools
  PROVE  /\ routes[tool] # None => Remember(routes, lists)[tool] = routes[tool]
         /\ ~Rebinds(routes, lists) /\ RouteOf(lists, tool) # None =>
              Remember(routes, lists)[tool] = RouteOf(lists, tool)
<1>1. tool \in Tool
  BY WatchedToolsAreTools
<1>2. Remember(routes, lists)[tool] = IF routes[tool] = None THEN RouteOf(lists, tool)
                                      ELSE routes[tool]
  BY <1>1 DEF Remember
<1>3. ~Rebinds(routes, lists) /\ routes[tool] # None =>
        RouteOf(lists, tool) \in {None, routes[tool]}
  BY <1>1 DEF Rebinds
<1>. QED
  BY <1>2, <1>3

LEMMA InitRoutes == Init => RoutesAgree
<1>. SUFFICES ASSUME Init PROVE RoutesAgree
  OBVIOUS
<1> DEFINE noRoute == [tool \in Tool |-> None]
<1>1. ~Rebinds(noRoute, table)
  BY DEF Rebinds
<1>2. table \in [Upstream -> SUBSET Tool] /\ grantedRoutes = Remember(noRoute, table)
  BY DEF Init
<1>3. \A tool \in WatchedTools :
        RouteOf(table, tool) # None => grantedRoutes[tool] = RouteOf(table, tool)
  BY <1>1, <1>2, NoRouteType, RememberAgrees
<1>. QED
  BY <1>3 DEF Init, RoutesAgree

\* Only a forwarded call and an installed table touch what RoutesAgree is about.
LEMMA WhoMovesRoutes ==
  ASSUME [Next]_vars
  PROVE  \/ UNCHANGED <<table, grantedRoutes, forwarded>>
         \/ \E id \in Id, request \in Request, now \in Times : ForwardCall(id, request, now)
         \/ \E u \in Upstream : InstallTable(u)
<1>. USE DEF tableVars, callVars
<1>1. CASE HandleClient
  BY <1>1 DEF HandleClient, AnswerAtOnce, AuditFails, Initialize, Initialized, ClientLeaves,
         RefuseMalformed, RefuseDuplicateId, RefuseUnknownTool, RefuseCall, CancelCall,
         DecisionNotRecorded, DenyCall, CallNotForwarded
<1>2. CASE HandleEvent
  BY <1>2 DEF HandleEvent, MatchedResponse, StaleResponse, Notification, ListChanged, UpstreamEnds
<1>3. ASSUME NEW u \in Upstream, HandleRelist(u) \/ ReadTools(u)
      PROVE  UNCHANGED <<table, grantedRoutes, forwarded>> \/ InstallTable(u)
  BY <1>3 DEF HandleRelist, RefuseRebound, RefuseCollision, KeepTable, Joined, ReadTools
<1>4. CASE Unpark \/ ParkedFails \/ WriteFrame \/ WriterFails \/ Teardown
  BY <1>4 DEF Unpark, ParkedFails, WriteFrame, WriterFails, Teardown, CloseSession, AbandonCall
<1>5. ASSUME NEW u \in Upstream, ActorStep(u) \/ UpstreamStep(u) \/ ReportEnd(u)
      PROVE  UNCHANGED <<table, grantedRoutes, forwarded>>
  BY <1>5 DEF ActorStep, SendUpstream, RejectForward, CancelUpstream, TakeCommand, CloseTransport,
         UpstreamStep, Respond, ReportProgress, ChangeTools, SayListChanged, LoseUpstream,
         ReportEnd, Outside
<1>. QED
  BY <1>1, <1>2, <1>3, <1>4, <1>5 DEF Next, Exited, vars

LEMMA StepRoutes == TypeOK /\ RoutesAgree /\ [Next]_vars => RoutesAgree'
<1>. SUFFICES ASSUME TypeOK, RoutesAgree, [Next]_vars PROVE RoutesAgree'
  OBVIOUS
<1>1. CASE UNCHANGED <<table, grantedRoutes, forwarded>>
  BY <1>1 DEF RoutesAgree
<1>2. ASSUME NEW id \in Id, NEW request \in Request, NEW now \in Times,
             ForwardCall(id, request, now)
      PROVE  RoutesAgree'
  <2>1. /\ UNCHANGED <<table, grantedRoutes>>
        /\ RouteOf(table, request.tool) # None
        /\ forwarded' = [forwarded EXCEPT ![nextCall] =
                            [upstream |-> RouteOf(table, request.tool),
                             request |-> request, now |-> now]]
    BY <1>2 DEF ForwardCall, Routed, tableVars
  <2>. QED
    BY <2>1 DEF RoutesAgree, TypeOK
<1>3. ASSUME NEW u \in Upstream, InstallTable(u)
      PROVE  RoutesAgree'
  <2>1. Joined(u) /\ ~Rebinds(grantedRoutes, NewTable(u)) /\ forwarded' = forwarded
        /\ table' = NewTable(u) /\ grantedRoutes' = Remember(grantedRoutes, NewTable(u))
    BY <1>3 DEF InstallTable, Joined, callVars
  <2>2. table' \in [Upstream -> SUBSET Tool] /\ grantedRoutes \in [Tool -> Optional(Upstream)]
    BY <2>1, JoinedType DEF TypeOK
  <2>3. \A tool \in WatchedTools :
          RouteOf(table', tool) # None => grantedRoutes'[tool] = RouteOf(table', tool)
    BY <2>1, <2>2, RememberAgrees
  <2>4. ASSUME NEW c \in Call, forwarded[c] # None, forwarded[c].request.tool \in WatchedTools
        PROVE  grantedRoutes'[forwarded[c].request.tool] = forwarded[c].upstream
    <3>1. forwarded[c].upstream \in Upstream
      BY <2>4 DEF TypeOK, Judged, Optional
    <3>2. grantedRoutes[forwarded[c].request.tool] = forwarded[c].upstream
      BY <2>4 DEF RoutesAgree
    <3>. QED
      BY <2>1, <2>2, <2>4, <3>1, <3>2, RememberAgrees
  <2>. QED
    BY <2>1, <2>3, <2>4 DEF RoutesAgree
<1>. QED
  BY <1>1, <1>2, <1>3, WhoMovesRoutes

\* GrantedToolsNeverMove: a grant's authority is never redirected to another
\* upstream, whatever lists the upstreams show and in whatever order re-lists land.
THEOREM GrantedToolsStay == Spec => []GrantedToolsNeverMove
<1>1. TypeOK /\ RoutesAgree => GrantedToolsNeverMove
  BY DEF RoutesAgree, GrantedToolsNeverMove
<1>. QED
  BY <1>1, InitTypes, StepTypes, InitRoutes, StepRoutes, PTL DEF Spec

-----------------------------------------------------------------------------
(* The client hears of every table *)

\* A session that is over stays over.
LEMMA EndIsFinal ==
  ASSUME [Next]_vars, end # "none"
  PROVE  end' # "none"
<1>1. ~HandleClient
  BY DEF HandleClient, AnswerAtOnce, AuditFails, Initialize, Initialized, ClientLeaves,
         RefuseMalformed, RefuseDuplicateId, RefuseUnknownTool, RefuseCall, CancelCall,
         DecisionNotRecorded, DenyCall, ForwardCall, CallNotForwarded, Routed, Serving
<1>2. ~HandleEvent
  BY DEF HandleEvent, MatchedResponse, StaleResponse, Notification, ListChanged, UpstreamEnds,
         TakeEvent, Serving
<1>3. ASSUME NEW u \in Upstream
      PROVE  ~HandleRelist(u)
  BY DEF HandleRelist, InstallTable, RefuseRebound, RefuseCollision, KeepTable, Joined, Serving
<1>4. CASE Unpark \/ ParkedFails \/ WriteFrame \/ WriterFails \/ Teardown
  BY <1>4 DEF Unpark, ParkedFails, WriteFrame, WriterFails, Teardown, CloseSession, AbandonCall,
         serveVars
<1>5. ASSUME NEW u \in Upstream, ReadTools(u) \/ ActorStep(u) \/ UpstreamStep(u) \/ ReportEnd(u)
      PROVE  end' # "none"
  BY <1>5 DEF ReadTools, ActorStep, SendUpstream, RejectForward, CancelUpstream, TakeCommand,
         CloseTransport, UpstreamStep, Respond, ReportProgress, ChangeTools, SayListChanged,
         LoseUpstream, ReportEnd, Outside, serveVars
<1>. QED
  BY <1>1, <1>2, <1>3, <1>4, <1>5 DEF Next, Exited, vars, serveVars

\* Only the handshake and an installed table touch what ClientIsTold is about.
LEMMA WhoTellsTheClient ==
  ASSUME [Next]_vars
  PROVE  \/ UNCHANGED <<phase, untold, listChangePending>>
         \/ Initialize \/ Initialized
         \/ \E u \in Upstream : InstallTable(u)
<1>. USE DEF tableVars
<1>1. CASE HandleClient
  BY <1>1 DEF HandleClient, AnswerAtOnce, AuditFails, ClientLeaves, RefuseMalformed,
         RefuseDuplicateId, RefuseUnknownTool, RefuseCall, CancelCall, DecisionNotRecorded,
         DenyCall, ForwardCall, CallNotForwarded
<1>2. CASE HandleEvent
  BY <1>2 DEF HandleEvent, MatchedResponse, StaleResponse, Notification, ListChanged, UpstreamEnds
<1>3. ASSUME NEW u \in Upstream, HandleRelist(u) \/ ReadTools(u)
      PROVE  UNCHANGED <<phase, untold, listChangePending>> \/ InstallTable(u)
  BY <1>3 DEF HandleRelist, RefuseRebound, RefuseCollision, KeepTable, Joined, ReadTools, serveVars
<1>4. CASE Unpark \/ ParkedFails \/ WriteFrame \/ WriterFails \/ Teardown
  BY <1>4 DEF Unpark, ParkedFails, WriteFrame, WriterFails, Teardown, CloseSession, AbandonCall,
         serveVars
<1>5. ASSUME NEW u \in Upstream, ActorStep(u) \/ UpstreamStep(u) \/ ReportEnd(u)
      PROVE  UNCHANGED <<phase, untold, listChangePending>>
  BY <1>5 DEF ActorStep, SendUpstream, RejectForward, CancelUpstream, TakeCommand, CloseTransport,
         UpstreamStep, Respond, ReportProgress, ChangeTools, SayListChanged, LoseUpstream,
         ReportEnd, Outside,
         serveVars
<1>. QED
  BY <1>1, <1>2, <1>3, <1>4, <1>5 DEF Next, Exited, vars, serveVars

\* ClientIsTold: no replacement of the table goes unannounced, also when it falls
\* into the handshake.
THEOREM ClientIsAlwaysTold == Spec => []ClientIsTold
<1>1. Init => ClientIsTold
  BY DEF Init, ClientIsTold
<1>2. ClientIsTold /\ [Next]_vars => ClientIsTold'
  <2>. SUFFICES ASSUME ClientIsTold, [Next]_vars, end = "none"
                PROVE  untold' => phase' # "Ready" /\ listChangePending'
    BY EndIsFinal DEF ClientIsTold
  <2>1. CASE UNCHANGED <<phase, untold, listChangePending>>
    BY <2>1 DEF ClientIsTold
  <2>2. CASE Initialize
    BY <2>2 DEF Initialize, ClientIsTold, tableVars
  <2>3. CASE Initialized
    BY <2>3 DEF Initialized, ClientIsTold
  <2>4. ASSUME NEW u \in Upstream, InstallTable(u)
        PROVE  untold' => phase' # "Ready" /\ listChangePending'
    BY <2>4 DEF InstallTable, Joined
  <2>. QED
    BY <2>1, <2>2, <2>3, <2>4, WhoTellsTheClient
<1>. QED
  BY <1>1, <1>2, PTL DEF Spec

-----------------------------------------------------------------------------
(* No list change is lost *)

\* A list_changed of u waits in the event queue.
Announced(u) ==
  \E i \in DOMAIN events : events[i].kind = "ListChanged" /\ events[i].upstream = u

\* The strengthening of NoChangeIsLost: either something on the way from the
\* upstream's list to the table still knows of the last change, or a re-list
\* failed, or the table is the list.
ChangeIsKnown(u) ==
  \/ unsaid[u] \/ Announced(u) \/ relistDirty[u]
  \/ relistRunning[u] /\ relistResult[u] = None
  \/ /\ relistResult[u] # None
     /\ relistResult[u].status = "failed" \/ relistResult[u].tools = offered[u]
  \/ ~relistRunning[u] /\ relistFailed[u]
  \/ table[u] = offered[u] /\ relistResult[u] = None

\* Only a running task is dirty or has a result.
RelistShape(u) == relistDirty[u] \/ relistResult[u] # None => relistRunning[u]

ChangesAreKnown == end = "none" => \A u \in Upstream : RelistShape(u) /\ ChangeIsKnown(u)

\* An announcement stays in the queue when another event is taken or added.
LEMMA AnnouncedStays ==
  ASSUME TypeOK, NEW u \in Upstream, Announced(u)
  PROVE  /\ \A event : events' = Append(events, event) => Announced(u)'
         /\ events # <<>> /\ events' = Tail(events) =>
              Announced(u)' \/ (Head(events).kind = "ListChanged" /\ Head(events).upstream = u)
<1>1. PICK i \in 1 .. Len(events) : events[i].kind = "ListChanged" /\ events[i].upstream = u
  BY DEF Announced, TypeOK
<1>2. events \in Seq(Events)
  BY DEF TypeOK
<1>3. ASSUME NEW event, events' = Append(events, event)
      PROVE  Announced(u)'
  <2>1. i \in DOMAIN Append(events, event) /\ Append(events, event)[i] = events[i]
    BY <1>2
  <2>. QED
    BY <1>1, <1>3, <2>1 DEF Announced
<1>4. ASSUME events # <<>>, events' = Tail(events)
      PROVE  Announced(u)' \/ (Head(events).kind = "ListChanged" /\ Head(events).upstream = u)
  <2>1. CASE i = 1
    BY <1>1, <1>2, <2>1
  <2>2. CASE i # 1
    <3>1. i - 1 \in DOMAIN Tail(events) /\ Tail(events)[i - 1] = events[i]
      BY <1>2, <1>4, <2>2
    <3>. QED
      BY <1>1, <1>4, <3>1 DEF Announced
  <2>. QED
    BY <2>1, <2>2
<1>. QED
  BY <1>3, <1>4

\* The new announcement is in the queue.
LEMMA AnnouncedNow ==
  ASSUME TypeOK, NEW u \in Upstream, SayListChanged(u)
  PROVE  Announced(u)'
<1> DEFINE event == EventOf("ListChanged", u, None, None)
<1>1. events \in Seq(Events) /\ events' = Append(events, event)
  BY DEF TypeOK, SayListChanged, Emit
<1>2. Len(events) + 1 \in DOMAIN Append(events, event)
      /\ Append(events, event)[Len(events) + 1] = event
  BY <1>1
<1>3. event.kind = "ListChanged" /\ event.upstream = u
  BY DEF EventOf
<1>. QED
  BY <1>1, <1>2, <1>3 DEF Announced

\* The steps that touch what ChangesAreKnown is about.
LEMMA WhoMovesLists ==
  ASSUME [Next]_vars, end' = "none"
  PROVE  \/ UNCHANGED <<events, offered, unsaid, table, relistVars>>
         \/ /\ \E event : events' = Append(events, event)
            /\ UNCHANGED <<offered, unsaid, table, relistVars>>
         \/ /\ events # <<>> /\ Head(events).kind # "ListChanged" /\ events' = Tail(events)
            /\ UNCHANGED <<offered, unsaid, table, relistVars>>
         \/ ListChanged
         \/ \E u \in Upstream :
              InstallTable(u) \/ KeepTable(u) \/ ReadTools(u) \/ ChangeTools(u) \/ SayListChanged(u)
<1>1. CASE UNCHANGED vars
  BY <1>1 DEF vars, tableVars, sourceVars
<1>2. CASE HandleClient \/ Unpark \/ ParkedFails \/ WriteFrame \/ WriterFails \/ Teardown
  BY <1>2 DEF HandleClient, AnswerAtOnce, AuditFails, Initialize, Initialized, ClientLeaves,
         RefuseMalformed, RefuseDuplicateId, RefuseUnknownTool, RefuseCall, CancelCall,
         DecisionNotRecorded, DenyCall, ForwardCall, CallNotForwarded, Unpark, ParkedFails,
         WriteFrame, WriterFails, Teardown, CloseSession, AbandonCall, Elsewhere, tableVars,
         sourceVars
<1>3. CASE HandleEvent
  BY <1>3 DEF HandleEvent, MatchedResponse, StaleResponse, Notification, UpstreamEnds, TakeEvent,
         tableVars, sourceVars
<1>4. ASSUME NEW u \in Upstream, HandleRelist(u) \/ ReadTools(u)
      PROVE  InstallTable(u) \/ KeepTable(u) \/ ReadTools(u)
  BY <1>4 DEF HandleRelist, RefuseRebound, RefuseCollision, Finish
<1>5. ASSUME NEW u \in Upstream, ActorStep(u) \/ UpstreamStep(u) \/ ReportEnd(u)
      PROVE  \/ UNCHANGED <<events, offered, unsaid, table, relistVars>>
             \/ /\ \E event : events' = Append(events, event)
                /\ UNCHANGED <<offered, unsaid, table, relistVars>>
             \/ ChangeTools(u) \/ SayListChanged(u)
  BY <1>5 DEF ActorStep, SendUpstream, RejectForward, CancelUpstream, TakeCommand, CloseTransport,
         UpstreamStep, Respond, ReportProgress, LoseUpstream, ReportEnd, Emit, Outside, tableVars,
         sourceVars
<1>. QED
  BY <1>1, <1>2, <1>3, <1>4, <1>5 DEF Next, Exited

LEMMA StepChanges == TypeOK /\ ChangesAreKnown /\ [Next]_vars => ChangesAreKnown'
<1>. SUFFICES ASSUME TypeOK, ChangesAreKnown, [Next]_vars, end' = "none", NEW u \in Upstream
              PROVE  RelistShape(u)' /\ ChangeIsKnown(u)'
  BY DEF ChangesAreKnown
<1>0. RelistShape(u) /\ ChangeIsKnown(u)
  BY EndIsFinal DEF ChangesAreKnown
<1>. USE DEF RelistShape, ChangeIsKnown
<1>1. CASE UNCHANGED <<events, offered, unsaid, table, relistVars>>
  BY <1>0, <1>1 DEF Announced, relistVars
<1>2. CASE /\ \E event : events' = Append(events, event)
           /\ UNCHANGED <<offered, unsaid, table, relistVars>>
  BY <1>0, <1>2, AnnouncedStays DEF relistVars
<1>3. CASE /\ events # <<>> /\ Head(events).kind # "ListChanged" /\ events' = Tail(events)
           /\ UNCHANGED <<offered, unsaid, table, relistVars>>
  BY <1>0, <1>3, AnnouncedStays DEF relistVars
<1>4. CASE ListChanged
  <2> DEFINE v == Head(events).upstream
  <2>1. /\ events # <<>> /\ events' = Tail(events)
        /\ relistRunning' = [relistRunning EXCEPT ![v] = TRUE]
        /\ relistDirty' = [relistDirty EXCEPT ![v] = relistDirty[v] \/ relistRunning[v]]
        /\ UNCHANGED <<offered, unsaid, table, relistResult, relistFailed>>
    BY <1>4 DEF ListChanged, TakeEvent, tableVars, sourceVars
  <2>2. CASE u = v
    <3>1. relistRunning'[u] /\ (relistDirty'[u] <=> relistDirty[u] \/ relistRunning[u])
      BY <2>1, <2>2 DEF TypeOK
    <3>2. relistRunning[u] \/ relistResult'[u] = None
      BY <1>0, <2>1
    <3>. QED
      BY <3>1, <3>2
  <2>3. CASE u # v
    <3>1. relistRunning'[u] = relistRunning[u] /\ relistDirty'[u] = relistDirty[u]
      BY <2>1, <2>3 DEF TypeOK
    <3>2. Announced(u) => Announced(u)'
      BY <2>1, <2>3, AnnouncedStays
    <3>. QED
      BY <1>0, <2>1, <3>1, <3>2
  <2>. QED
    BY <2>2, <2>3
<1>5. ASSUME NEW v \in Upstream, InstallTable(v) \/ KeepTable(v)
      PROVE  RelistShape(u)' /\ ChangeIsKnown(u)'
  <2>1. Joined(v) /\ UNCHANGED <<events, offered, unsaid>> /\ (Announced(u) <=> Announced(u)')
    BY <1>5 DEF InstallTable, KeepTable, Joined, sourceVars, Announced
  <2>2. CASE u = v
    <3>1. /\ relistResult[u] # None /\ relistResult'[u] = None /\ ~relistDirty'[u]
          /\ relistRunning'[u] = relistDirty[u]
          /\ relistFailed'[u] = (relistResult[u].status = "failed")
      BY <2>1, <2>2 DEF Joined, TypeOK
    <3>2. relistRunning[u]
      BY <1>0, <3>1
    <3>3. CASE InstallTable(v)
      BY <1>0, <1>5, <2>1, <2>2, <3>1, <3>2, <3>3 DEF InstallTable, Builds, NewTable, TypeOK
    <3>4. CASE KeepTable(v)
      BY <1>0, <1>5, <2>1, <2>2, <3>1, <3>2, <3>4 DEF KeepTable
    <3>. QED
      BY <1>5, <3>3, <3>4
  <2>3. CASE u # v
    <3>1. /\ relistResult'[u] = relistResult[u] /\ relistDirty'[u] = relistDirty[u]
          /\ relistRunning'[u] = relistRunning[u] /\ relistFailed'[u] = relistFailed[u]
      BY <2>1, <2>3 DEF Joined, TypeOK
    <3>2. table'[u] = table[u]
      BY <1>5, <2>3 DEF InstallTable, KeepTable, NewTable, TypeOK, tableVars
    <3>. QED
      BY <1>0, <2>1, <3>1, <3>2
  <2>. QED
    BY <2>2, <2>3
<1>6. ASSUME NEW v \in Upstream, ReadTools(v)
      PROVE  RelistShape(u)' /\ ChangeIsKnown(u)'
  <2>1. /\ UNCHANGED <<events, offered, unsaid, table, relistRunning, relistDirty, relistFailed>>
        /\ relistRunning[v] /\ (Announced(u) <=> Announced(u)')
    BY <1>6 DEF ReadTools, tableVars, sourceVars, Announced
  <2>2. CASE u = v
    <3>1. relistResult'[u].status = "failed" \/ relistResult'[u].tools = offered[u]
      BY <1>6, <2>2 DEF ReadTools, TypeOK
    <3>2. relistResult'[u] # None
      BY <1>6, <2>2 DEF ReadTools, TypeOK, Relisted
    <3>. QED
      BY <2>1, <2>2, <3>1, <3>2
  <2>3. CASE u # v
    <3>1. relistResult'[u] = relistResult[u]
      BY <1>6, <2>3 DEF ReadTools, TypeOK
    <3>. QED
      BY <1>0, <2>1, <3>1
  <2>. QED
    BY <2>2, <2>3
<1>7. ASSUME NEW v \in Upstream, ChangeTools(v)
      PROVE  RelistShape(u)' /\ ChangeIsKnown(u)'
  BY <1>0, <1>7 DEF ChangeTools, Outside, tableVars, relistVars, TypeOK, Announced
<1>8. ASSUME NEW v \in Upstream, SayListChanged(v)
      PROVE  RelistShape(u)' /\ ChangeIsKnown(u)'
  <2>1. UNCHANGED <<offered, table, relistVars>> /\ unsaid' = [unsaid EXCEPT ![v] = FALSE]
        /\ \E event : events' = Append(events, event)
    BY <1>8 DEF SayListChanged, Emit, Outside, tableVars
  <2>2. CASE u = v
    BY <1>0, <1>8, <2>1, <2>2, AnnouncedNow DEF relistVars
  <2>3. CASE u # v
    <3>1. unsaid'[u] = unsaid[u]
      BY <2>1, <2>3 DEF TypeOK
    <3>. QED
      BY <1>0, <2>1, <3>1, AnnouncedStays DEF relistVars
  <2>. QED
    BY <2>2, <2>3
<1>. QED
  BY <1>1, <1>2, <1>3, <1>4, <1>5, <1>6, <1>7, <1>8, WhoMovesLists

\* NoChangeIsLost: coalescing the re-lists never loses the last change of a list.
THEOREM EveryChangeIsKept == Spec => []NoChangeIsLost
<1>1. Init => ChangesAreKnown
  BY DEF Init, ChangesAreKnown, RelistShape, ChangeIsKnown
<1>2. TypeOK /\ ChangesAreKnown => NoChangeIsLost
  <2>. SUFFICES ASSUME TypeOK, ChangesAreKnown, end = "none", NEW u \in Upstream, Settled(u)
                PROVE  table[u] = offered[u]
    BY DEF NoChangeIsLost
  <2>1. RelistShape(u) /\ ChangeIsKnown(u) /\ ~Announced(u)
    BY DEF ChangesAreKnown, Settled, Announced
  <2>. QED
    BY <2>1 DEF RelistShape, ChangeIsKnown, Settled
<1>. QED
  BY <1>1, <1>2, InitTypes, StepTypes, StepChanges, PTL DEF Spec

-----------------------------------------------------------------------------
(* What ActorView sees of an actor *)

LEMMA HeardWhole ==
  ASSUME TypeOK, end = "none", NEW u
  PROVE  Len(Heard(u)) = Len(events) /\ DOMAIN Heard(u) = 1 .. Len(events)
<1>1. events \in Seq(Events)
  BY DEF TypeOK
<1>2. DOMAIN events = 1 .. Len(events) /\ Len(events) \in Nat
  BY <1>1
<1>3. Heard(u) = [i \in 1 .. Len(events) |-> AsSeenBy(u, events[i])]
  BY <1>2 DEF Heard
<1>. QED
  BY <1>2, <1>3

LEMMA HeardSame ==
  ASSUME end = "none", end' = "none", NEW u, events' = events
  PROVE  Heard(u)' = Heard(u)
BY DEF Heard, AsSeenBy

LEMMA HeardTaken ==
  ASSUME TypeOK, end = "none", end' = "none", NEW u, events # <<>>, events' = Tail(events)
  PROVE  Heard(u) # <<>> /\ Heard(u)' = Tail(Heard(u))
<1>1. events \in Seq(Events) /\ Len(events) \in Nat /\ Len(events) # 0
  BY DEF TypeOK
<1>2. DOMAIN events' = 1 .. Len(events) - 1 /\ \A i \in 1 .. Len(events) - 1 : events'[i] = events[i + 1]
  BY <1>1
<1>3. Heard(u)' = [i \in 1 .. Len(events) - 1 |-> AsSeenBy(u, events[i + 1])]
  BY <1>2 DEF Heard, AsSeenBy
<1>4. /\ Len(Heard(u)) = Len(events) /\ DOMAIN Heard(u) = 1 .. Len(events)
      /\ Heard(u) = [i \in 1 .. Len(events) |-> AsSeenBy(u, events[i])]
  BY <1>1, HeardWhole DEF Heard
<1>5. Tail(Heard(u)) = [i \in 1 .. Len(events) - 1 |-> Heard(u)[i + 1]]
  BY <1>4 DEF Tail
<1>6. \A i \in 1 .. Len(events) - 1 : Heard(u)[i + 1] = AsSeenBy(u, events[i + 1])
  BY <1>1, <1>4
<1>. QED
  BY <1>1, <1>3, <1>4, <1>5, <1>6

LEMMA HeardEmitted ==
  ASSUME TypeOK, end = "none", end' = "none", NEW u, NEW e \in Events, events' = Append(events, e)
  PROVE  Heard(u)' = Append(Heard(u), AsSeenBy(u, e))
<1>1. events \in Seq(Events) /\ Len(events) \in Nat
  BY DEF TypeOK
<1>2. /\ DOMAIN events' = 1 .. Len(events) + 1
      /\ \A i \in 1 .. Len(events) : events'[i] = events[i]
      /\ events'[Len(events) + 1] = e
  BY <1>1
<1>3. Heard(u)' = [i \in 1 .. Len(events) + 1 |-> AsSeenBy(u, events'[i])]
  BY <1>2 DEF Heard, AsSeenBy
<1>4. /\ Len(Heard(u)) = Len(events)
      /\ Heard(u) = [i \in 1 .. Len(events) |-> AsSeenBy(u, events[i])]
  BY <1>1, HeardWhole DEF Heard
<1>5. Append(Heard(u), AsSeenBy(u, e)) =
        [i \in 1 .. Len(events) + 1 |-> IF i = Len(events) + 1 THEN AsSeenBy(u, e) ELSE Heard(u)[i]]
  BY <1>4 DEF Append
<1>6. \A i \in 1 .. Len(events) + 1 :
        AsSeenBy(u, events'[i]) = IF i = Len(events) + 1 THEN AsSeenBy(u, e) ELSE Heard(u)[i]
  BY <1>1, <1>2, <1>4
<1>. QED
  BY <1>3, <1>5, <1>6

\* A session that ends listens no more; one that has ended shows nothing.
LEMMA ViewStops ==
  ASSUME NEW u, end' # "none"
  PROVE  Actor(u)!StopListening
BY DEF Actor!StopListening, Actor!Nobody, Queued, Standing, Stage, Heard

LEMMA ViewEnded ==
  ASSUME NEW u, end # "none", end' # "none"
  PROVE  UNCHANGED Actor(u)!vars
BY DEF Actor!vars, Queued, Standing, Stage, Heard

\* While it serves, what concerns the actor of u shows as it is.
Untouched(u) == commands'[u] = commands[u] /\ pending'[u] = pending[u] /\ actor'[u] = actor[u]

LEMMA ViewUntouched ==
  ASSUME TypeOK, end = "none", end' = "none", NEW u \in Upstream, Untouched(u)
  PROVE  /\ UNCHANGED <<Queued(u), Standing(u), Stage(u)>> /\ Stage(u) # "unheard"
         /\ events' = events => UNCHANGED Actor(u)!vars
         /\ events # <<>> /\ events' = Tail(events) => Actor(u)!Receive
         /\ \A e \in Events :
              e.upstream # u /\ EventRoom /\ events' = Append(events, e) => Actor(u)!OthersEmit
<1>1. UNCHANGED <<Queued(u), Standing(u), Stage(u)>> /\ Stage(u) # "unheard"
  BY DEF Untouched, Queued, Standing, Stage, TypeOK
<1>2. events' = events => UNCHANGED Heard(u)
  BY HeardSame
<1>3. ASSUME events # <<>>, events' = Tail(events)
      PROVE  Actor(u)!Receive
  BY <1>1, <1>3, HeardTaken DEF Actor!Receive
<1>4. ASSUME NEW e \in Events, e.upstream # u, EventRoom, events' = Append(events, e)
      PROVE  Actor(u)!OthersEmit
  <2>1. Len(Heard(u)) < EventCap /\ Heard(u)' = Append(Heard(u), None)
    BY <1>4, HeardWhole, HeardEmitted DEF EventRoom, AsSeenBy
  <2>. QED
    BY <1>1, <2>1 DEF Actor!OthersEmit, Actor!Emit
<1>. QED
  BY <1>1, <1>2, <1>3, <1>4 DEF Actor!vars

LEMMA ViewSends ==
  ASSUME TypeOK, end = "none", end' = "none", NEW u \in Upstream, NEW command \in Commands,
         CanSend(u), Send(u, command), UNCHANGED <<pending, actor, events>>
  PROVE  Actor(u)!Send
<1>1. Stage(u) \in {"up", "ending", "closing"} /\ UNCHANGED <<Standing(u), Stage(u)>>
  BY DEF Stage, Standing, CanSend, TypeOK
<1>2. UNCHANGED Heard(u)
  BY HeardSame
<1>3. Queued(u)' = Append(Queued(u), command)
  BY DEF Queued, CanSend, Send, TypeOK
<1>4. command \in Actor(u)!Commands
  BY DEF Commands, Actor!Commands
<1>. QED
  BY <1>1, <1>2, <1>3, <1>4 DEF Actor!Send

LEMMA ViewEmits ==
  ASSUME TypeOK, end = "none", end' = "none", NEW u, NEW kind, NEW id, NEW call,
         EventOf(kind, u, id, call) \in Events, Emit(EventOf(kind, u, id, call))
  PROVE  Actor(u)!Emit([kind |-> kind, id |-> id, call |-> call])
<1>1. Len(Heard(u)) < EventCap
  BY HeardWhole DEF Emit, EventRoom
<1>2. AsSeenBy(u, EventOf(kind, u, id, call)) = [kind |-> kind, id |-> id, call |-> call]
  BY DEF AsSeenBy, EventOf
<1>. QED
  BY <1>1, <1>2, HeardEmitted DEF Actor!Emit, Emit

LEMMA ViewTakes ==
  ASSUME TypeOK, end = "none", end' = "none", NEW u \in Upstream, NEW kind, TakeCommand(u, kind)
  PROVE  /\ Actor(u)!Take(kind) /\ Head(Queued(u)) = Head(commands[u])
         /\ UNCHANGED Stage(u)
<1>1. Queued(u) = commands[u] /\ Queued(u)' = Tail(commands[u]) /\ Stage(u) = "up" /\ Stage(u)' = "up"
  BY DEF TakeCommand, Queued, Stage, TypeOK
<1>. QED
  BY <1>1 DEF Actor!Take, TakeCommand

LEMMA ViewActs ==
  ASSUME TypeOK, end = "none", end' = "none", NEW u \in Upstream,
         ActorStep(u) \/ UpstreamStep(u) \/ ReportEnd(u)
  PROVE  [Actor(u)!ActorStep]_(Actor(u)!vars)
<1>. USE DEF Actor!ActorStep
<1>1. events' = events => UNCHANGED Heard(u)
  BY HeardSame
<1>2. Standing(u) = pending[u] /\ Standing(u)' = pending'[u] /\ pending[u] \in [Id -> Optional(Call)]
  BY DEF Standing, TypeOK
<1>3. ASSUME SendUpstream(u)
      PROVE  Actor(u)!SendUpstream
  <2>1. TakeCommand(u, "Forward")
    BY <1>3 DEF SendUpstream
  <2>2. Standing(u)' = [Standing(u) EXCEPT ![Head(commands[u]).id] = Head(commands[u]).call]
    BY <1>2, <1>3 DEF SendUpstream, TypeOK
  <2>. QED
    BY <1>1, <1>3, <2>1, <2>2, ViewTakes DEF SendUpstream, Actor!SendUpstream, Actor!Becomes
<1>4. ASSUME RejectForward(u)
      PROVE  Actor(u)!RejectForward
  <2>1. TakeCommand(u, "Forward")
    BY <1>4 DEF RejectForward
  <2>2. Standing(u)' = [Standing(u) EXCEPT ![Head(commands[u]).id] = None]
    BY <1>2, <1>4 DEF RejectForward, TypeOK
  <2>3. EventOf("Response", u, Head(commands[u]).id, Head(commands[u]).call) \in Events
    BY <2>1, TakeCommandType DEF EventOf, Events
  <2>4. Actor(u)!Emit([kind |-> "Response", id |-> Head(commands[u]).id, call |-> Head(commands[u]).call])
    BY <1>4, <2>3, ViewEmits DEF RejectForward
  <2>. QED
    BY <2>1, <2>2, <2>4, ViewTakes DEF Actor!RejectForward, Actor!Becomes, Actor!Response
<1>5. ASSUME CancelUpstream(u)
      PROVE  Actor(u)!CancelUpstream
  <2>1. TakeCommand(u, "Cancel")
    BY <1>5 DEF CancelUpstream
  <2>2. Standing(u)' = [Standing(u) EXCEPT ![Head(commands[u]).id] = None]
    BY <1>2, <1>5 DEF CancelUpstream, TypeOK
  <2>. QED
    BY <1>1, <1>5, <2>1, <2>2, ViewTakes DEF CancelUpstream, Actor!CancelUpstream, Actor!Becomes
<1>6. ASSUME CloseTransport(u)
      PROVE  Actor(u)!CloseTransport
  <2>1. Stage(u) = "closing" /\ Stage(u)' = "gone" /\ Queued(u)' = <<>> /\ UNCHANGED Standing(u)
    BY <1>6 DEF CloseTransport, Stage, Queued, Standing, TypeOK
  <2>. QED
    BY <1>1, <1>6, <2>1 DEF CloseTransport, Actor!CloseTransport
<1>7. ASSUME NEW id \in Id, Respond(u, id)
      PROVE  Actor(u)!Respond(id)
  <2>1. Stage(u) = "up" /\ UNCHANGED <<Queued(u), Stage(u)>>
    BY <1>7 DEF Respond, Stage, Queued
  <2>2. pending[u][id] \in Call /\ Standing(u)' = [Standing(u) EXCEPT ![id] = None]
    BY <1>2, <1>7 DEF Respond, TypeOK, Optional
  <2>3. EventOf("Response", u, id, pending[u][id]) \in Events
    BY <2>2 DEF EventOf, Events
  <2>4. Actor(u)!Emit([kind |-> "Response", id |-> id, call |-> pending[u][id]])
    BY <1>7, <2>3, ViewEmits DEF Respond
  <2>. QED
    BY <1>2, <1>7, <2>1, <2>2, <2>4 DEF Respond, Actor!Respond, Actor!Becomes, Actor!Response
<1>8. ASSUME ReportProgress(u) \/ SayListChanged(u)
      PROVE  Actor(u)!Notify
  <2>1. Stage(u) = "up" /\ UNCHANGED <<Queued(u), Standing(u), Stage(u)>>
    BY <1>8 DEF ReportProgress, SayListChanged, Stage, Queued, Standing, actorVars
  <2>2. PICK kind \in {"Notification", "ListChanged"} : Emit(EventOf(kind, u, None, None))
    BY <1>8 DEF ReportProgress, SayListChanged
  <2>3. EventOf(kind, u, None, None) \in Events
    BY DEF EventOf, Events
  <2>4. Actor(u)!Emit([kind |-> kind, id |-> None, call |-> None])
    BY <2>2, <2>3, ViewEmits
  <2>. QED
    BY <2>1, <2>4 DEF Actor!Notify, Actor!Notice
<1>9. ASSUME ChangeTools(u)
      PROVE  UNCHANGED Actor(u)!vars
  BY <1>9, ViewUntouched DEF ChangeTools, actorVars, Untouched
<1>10. ASSUME LoseUpstream(u)
       PROVE  Actor(u)!LoseUpstream
  <2>1. Stage(u) = "up" /\ Stage(u)' = "ending" /\ Queued(u) = commands[u] /\ Queued(u)' = commands'[u]
    BY <1>10 DEF LoseUpstream, Stage, Queued, TypeOK
  <2>2. Standing(u)' = [id \in Id |-> None]
    BY <1>2, <1>10 DEF LoseUpstream, TypeOK
  <2>3. commands'[u] = commands[u] \/ (commands[u] # <<>> /\ commands'[u] = Tail(commands[u]))
    BY <1>10 DEF LoseUpstream, TypeOK
  <2>. QED
    BY <1>1, <1>10, <2>1, <2>2, <2>3 DEF LoseUpstream, Actor!LoseUpstream, Actor!Nobody
<1>11. ASSUME ReportEnd(u)
       PROVE  Actor(u)!ReportEnd
  <2>1. Stage(u) = "ending" /\ Stage(u)' = "closing" /\ UNCHANGED <<Queued(u), Standing(u)>>
    BY <1>11 DEF ReportEnd, Stage, Queued, Standing, TypeOK
  <2>2. EventOf("Ended", u, None, None) \in Events
    BY DEF EventOf, Events
  <2>3. Actor(u)!Emit([kind |-> "Ended", id |-> None, call |-> None])
    BY <1>11, <2>2, ViewEmits DEF ReportEnd
  <2>. QED
    BY <2>1, <2>3 DEF Actor!ReportEnd, Actor!Notice
<1>. QED
  BY <1>3, <1>4, <1>5, <1>6, <1>7, <1>8, <1>9, <1>10, <1>11 DEF ActorStep, UpstreamStep

\* Every step leaves alone what concerns the actor of u, or is its own, or sends to it.
LEMMA WhoseStep ==
  ASSUME TypeOK, end = "none", end' = "none", [Next]_vars, NEW u \in Upstream
  PROVE  \/ Untouched(u) /\ \/ events' = events
                            \/ events # <<>> /\ events' = Tail(events)
                            \/ \E e \in Events : e.upstream # u /\ EventRoom /\ events' = Append(events, e)
         \/ \E command \in Commands :
              CanSend(u) /\ Send(u, command) /\ UNCHANGED <<pending, actor, events>>
         \/ ActorStep(u) \/ UpstreamStep(u) \/ ReportEnd(u)
<1>1. CASE UNCHANGED vars
  BY <1>1 DEF vars, actorVars, Untouched
<1>2. ASSUME UNCHANGED actorVars, events' = events \/ (events # <<>> /\ events' = Tail(events))
      PROVE  Untouched(u) /\ (events' = events \/ (events # <<>> /\ events' = Tail(events)))
  BY <1>2 DEF actorVars, Untouched
<1>3. CASE HandleEvent \/ Unpark \/ ParkedFails \/ WriteFrame \/ WriterFails \/ Teardown \/ Exited
  <2>1. UNCHANGED actorVars
    BY <1>3 DEF HandleEvent, MatchedResponse, StaleResponse, Notification, ListChanged, UpstreamEnds,
                Unpark, ParkedFails, WriteFrame, WriterFails, Teardown, CloseSession, AbandonCall, Exited,
                Elsewhere, vars
  <2>2. events' = events \/ (events # <<>> /\ events' = Tail(events))
    BY <1>3 DEF HandleEvent, MatchedResponse, StaleResponse, Notification, ListChanged, UpstreamEnds,
                TakeEvent, Unpark, ParkedFails, WriteFrame, WriterFails, Teardown, CloseSession,
                AbandonCall, Exited, Elsewhere, vars
  <2>. QED
    BY <1>2, <2>1, <2>2
<1>4. ASSUME NEW v \in Upstream, HandleRelist(v) \/ ReadTools(v)
      PROVE  Untouched(u) /\ events' = events
  BY <1>4 DEF HandleRelist, InstallTable, RefuseRebound, RefuseCollision, KeepTable, Joined, ReadTools,
              actorVars, Untouched
<1>5. CASE HandleClient
  <2>1. CASE \E id \in Id, request \in Request, now \in Times : ForwardCall(id, request, now)
    <3>1. PICK id \in Id, request \in Request, now \in Times : ForwardCall(id, request, now)
      BY <2>1
    <3>. DEFINE v == RouteOf(table, request.tool)
                command == CommandOf("Forward", id, nextCall)
    <3>2. /\ CanSend(v) /\ Send(v, command) /\ UNCHANGED <<pending, actor, events>>
          /\ nextCall < MaxCalls /\ v # None
      BY <3>1 DEF ForwardCall, Mint, Routed
    <3>3. v \in Upstream
      BY <3>2, RouteOfIsAnOffer DEF TypeOK, Optional
    <3>4. nextCall \in Call
      BY <3>2, Bounds DEF TypeOK, Call
    <3>5. command \in Commands
      BY <3>4 DEF CommandOf, Commands
    <3>. HIDE DEF v, command
    <3>6. CASE v = u
      BY <3>2, <3>5, <3>6
    <3>7. CASE v # u
      BY <3>2, <3>3, <3>7 DEF Send, Untouched, TypeOK
    <3>. QED
      BY <3>6, <3>7
  <2>2. ASSUME NEW id \in Id, CancelCall(id)
        PROVE  \/ Untouched(u) /\ events' = events
               \/ \E command \in Commands :
                    CanSend(u) /\ Send(u, command) /\ UNCHANGED <<pending, actor, events>>
    <3>. DEFINE v == inFlight[id].upstream
                command == CommandOf("Cancel", id, None)
    <3>1. /\ UNCHANGED <<pending, actor, events>>
          /\ commands' = commands \/ (CanSend(v) /\ Send(v, command))
      BY <2>2 DEF CancelCall
    <3>2. v \in Upstream
      BY <2>2, InFlightType DEF CancelCall
    <3>3. command \in Commands
      BY DEF CommandOf, Commands
    <3>. HIDE DEF v, command
    <3>4. CASE v = u
      BY <3>1, <3>3, <3>4 DEF Untouched
    <3>5. CASE v # u
      BY <3>1, <3>2, <3>5 DEF Send, Untouched, TypeOK
    <3>. QED
      BY <3>4, <3>5
  <2>3. CASE \/ AnswerAtOnce \/ AuditFails \/ Initialize \/ Initialized \/ ClientLeaves \/ RefuseCall
             \/ \E id \in Id, request \in Request :
                  \/ DecisionNotRecorded(id, request)
                  \/ \E now \in Times : DenyCall(id, request, now) \/ CallNotForwarded(id, request, now)
    <3>1. UNCHANGED <<actorVars, events>>
      BY <2>3 DEF AnswerAtOnce, AuditFails, Initialize, Initialized, ClientLeaves, RefuseCall,
                  DecisionNotRecorded, DenyCall, CallNotForwarded, Elsewhere
    <3>. QED
      BY <3>1 DEF actorVars, Untouched
  <2>. QED
    BY <1>5, <2>1, <2>2, <2>3 DEF HandleClient, RefuseMalformed, RefuseDuplicateId, RefuseUnknownTool
<1>6. ASSUME NEW v \in Upstream, v # u, ActorStep(v) \/ UpstreamStep(v) \/ ReportEnd(v)
      PROVE  Untouched(u) /\ (events' = events \/ \E e \in Events :
                                e.upstream # u /\ EventRoom /\ events' = Append(events, e))
  <2>1. Untouched(u)
    BY <1>6 DEF ActorStep, SendUpstream, RejectForward, CancelUpstream, CloseTransport, TakeCommand,
                UpstreamStep, Respond, ReportProgress, ChangeTools, SayListChanged, LoseUpstream,
                ReportEnd, Untouched, actorVars, TypeOK
  <2>2. \A e \in Events : e.upstream = v /\ Emit(e) =>
          e.upstream # u /\ EventRoom /\ events' = Append(events, e)
    BY <1>6 DEF Emit
  <2>3. \/ events' = events
        \/ \E e \in Events : e.upstream = v /\ Emit(e)
    <3>1. ASSUME NEW id \in Id, NEW call \in Call, Emit(EventOf("Response", v, id, call))
          PROVE  \E e \in Events : e.upstream = v /\ Emit(e)
      BY <3>1 DEF EventOf, Events
    <3>2. ASSUME NEW kind \in {"Notification", "ListChanged", "Ended"}, Emit(EventOf(kind, v, None, None))
          PROVE  \E e \in Events : e.upstream = v /\ Emit(e)
      BY <3>2 DEF EventOf, Events
    <3>3. RejectForward(v) => \E e \in Events : e.upstream = v /\ Emit(e)
      BY <3>1, TakeCommandType DEF RejectForward
    <3>4. \A id \in Id : Respond(v, id) => \E e \in Events : e.upstream = v /\ Emit(e)
      BY <3>1 DEF Respond, TypeOK, Optional
    <3>5. ReportProgress(v) \/ SayListChanged(v) \/ ReportEnd(v) =>
            \E e \in Events : e.upstream = v /\ Emit(e)
      BY <3>2 DEF ReportProgress, SayListChanged, ReportEnd
    <3>6. SendUpstream(v) \/ CancelUpstream(v) \/ CloseTransport(v) \/ ChangeTools(v) \/ LoseUpstream(v)
            => events' = events
      BY DEF SendUpstream, CancelUpstream, CloseTransport, ChangeTools, LoseUpstream
    <3>. QED
      BY <1>6, <3>3, <3>4, <3>5, <3>6 DEF ActorStep, UpstreamStep
  <2>. QED
    BY <2>1, <2>2, <2>3
<1>. QED
  BY <1>1, <1>3, <1>4, <1>5, <1>6 DEF Next

LEMMA ViewStep ==
  ASSUME TypeOK, [Next]_vars, NEW u \in Upstream
  PROVE  [Actor(u)!Next]_(Actor(u)!vars)
<1>1. CASE end # "none"
  BY <1>1, EndIsFinal, ViewEnded DEF vars, serveVars
<1>2. CASE end' # "none"
  BY <1>2, ViewStops DEF Actor!Next
<1>3. CASE end = "none" /\ end' = "none"
  <2>1. CASE Untouched(u) /\ \/ events' = events
                             \/ events # <<>> /\ events' = Tail(events)
                             \/ \E e \in Events : e.upstream # u /\ EventRoom /\ events' = Append(events, e)
    BY <1>3, <2>1, ViewUntouched DEF Actor!Next
  <2>2. CASE \E command \in Commands :
               CanSend(u) /\ Send(u, command) /\ UNCHANGED <<pending, actor, events>>
    BY <1>3, <2>2, ViewSends DEF Actor!Next
  <2>3. CASE ActorStep(u) \/ UpstreamStep(u) \/ ReportEnd(u)
    BY <1>3, <2>3, ViewActs DEF Actor!Next
  <2>. QED
    BY <1>3, <2>1, <2>2, <2>3, WhoseStep
<1>. QED
  BY <1>1, <1>2, <1>3

\* ActorsAreViews: each actor's queue, its map and the end it reports go through the steps of
\* ActorView, for any number of upstreams that emit into one queue.
THEOREM RouterKeepsToTheView == Spec => ActorsAreViews
<1>1. Init => \A u \in Upstream : Actor(u)!Init
  <2>1. ASSUME Init, NEW u \in Upstream
        PROVE  Actor(u)!Init
    <3>1. Queued(u) = <<>> /\ Standing(u) = [id \in Id |-> None] /\ Stage(u) = "up"
      BY <2>1 DEF Init, Queued, Standing, Stage
    <3>2. Heard(u) = <<>>
      BY <2>1, InitTypes, HeardWhole DEF Init, Heard
    <3>. QED
      BY <3>1, <3>2 DEF Actor!Init, Actor!Nobody
  <2>. QED
    BY <2>1
<1>2. TypeOK /\ [Next]_vars => [\A u \in Upstream : [Actor(u)!Next]_(Actor(u)!vars)]_vars
  BY ViewStep
<1>. QED
  BY <1>1, <1>2, TypeCorrect, PTL DEF Spec, ActorsAreViews

\* A step of the actor of u alone: of the rest of the session it sees at most a longer event
\* queue.  What is left in the queue of an actor that is gone nobody will read.
OnlyActor(u) ==
  /\ Outside /\ UNCHANGED sourceVars
  /\ \A v \in Upstream \ {u} : Untouched(v)
  /\ events' = events \/ \E e \in Events : e.upstream = u /\ events' = Append(events, e)
  /\ actor'[u] = "gone" => commands'[u] = commands[u]

LEMMA EmittedIs ==
  ASSUME TypeOK, end = "none", end' = "none", NEW u, OnlyActor(u),
         NEW kind, NEW id, NEW call, Actor(u)!Emit([kind |-> kind, id |-> id, call |-> call])
  PROVE  Emit(EventOf(kind, u, id, call))
<1>. DEFINE seen == [kind |-> kind, id |-> id, call |-> call]
<1>1. EventRoom /\ Heard(u)' = Append(Heard(u), seen)
  BY HeardWhole DEF EventRoom, Actor!Emit
<1>2. Heard(u) = [i \in 1 .. Len(events) |-> AsSeenBy(u, events[i])] /\ Len(Heard(u)) = Len(events)
      /\ Len(events) \in Nat
  BY HeardWhole DEF Heard, TypeOK
<1>3. Len(Heard(u)') = Len(events) + 1 /\ Heard(u)'[Len(events) + 1] = seen
  BY <1>1, <1>2
<1>4. events' # events
  <2>1. ASSUME events' = events PROVE FALSE
    <3>1. Heard(u)' = Heard(u)
      BY <2>1, HeardSame
    <3>. QED
      BY <1>2, <1>3, <3>1
  <2>. QED
    BY <2>1
<1>5. PICK e \in Events : e.upstream = u /\ events' = Append(events, e)
  BY <1>4 DEF OnlyActor
<1>6. Heard(u)' = Append(Heard(u), AsSeenBy(u, e))
  BY <1>5, HeardEmitted
<1>7. AsSeenBy(u, e) = seen
  BY <1>2, <1>3, <1>6
<1>8. e = EventOf(kind, u, id, call)
  BY <1>5, <1>7 DEF AsSeenBy, EventOf, Events
<1>. QED
  BY <1>1, <1>5, <1>8 DEF Emit

LEMMA NothingEmitted ==
  ASSUME TypeOK, end = "none", end' = "none", NEW u, OnlyActor(u), UNCHANGED Heard(u)
  PROVE  events' = events
<1>1. SUFFICES ASSUME NEW e \in Events, events' = Append(events, e)
               PROVE  FALSE
  BY DEF OnlyActor
<1>2. Heard(u)' = Append(Heard(u), AsSeenBy(u, e)) /\ Len(Heard(u)) \in Nat
  <2>1. Len(events) \in Nat
    BY DEF TypeOK
  <2>. QED
    BY <1>1, <2>1, HeardEmitted, HeardWhole
<1>3. Heard(u) = [i \in 1 .. Len(events) |-> AsSeenBy(u, events[i])] /\ Len(Heard(u)) = Len(events)
  BY HeardWhole DEF Heard
<1>4. Len(Heard(u)') = Len(events) + 1
  BY <1>2, <1>3
<1>. QED
  BY <1>2, <1>3, <1>4

\* A change at one place that changes nothing there changes nothing.
LEMMA SameThere ==
  ASSUME NEW S, NEW T, NEW f \in [S -> T], NEW g, NEW x \in S, g = [f EXCEPT ![x] = g[x]], g[x] = f[x]
  PROVE  g = f
  OBVIOUS

\* And the other way round: whatever ActorView lets an actor do, the actor of u may do in the
\* session's own terms.  Since the actors of Connection do no more than ActorView lets them
\* (ActorIsWhatTheRouterSees), nothing they do to the session is missing from it.  (Notices are
\* left out: how many there are is bounded here, and a change of tools is only said after there
\* was one.  The proxy's own requests, which take room among the commands, the session has none of.)
THEOREM ActorsDoWhatTheViewAllows ==
  ASSUME TypeOK, TypeOK', end = "none", NEW u \in Upstream,
         Actor(u)!ActorStep, ~Actor(u)!Notify, OnlyActor(u)
  PROVE  ActorStep(u) \/ UpstreamStep(u) \/ ReportEnd(u)
<1>1. end' = "none"
  BY DEF OnlyActor, Outside, serveVars
<1>2. /\ Stage(u) = actor[u] /\ Stage(u)' = actor'[u]
      /\ Standing(u) = pending[u] /\ Standing(u)' = pending'[u]
      /\ actor[u] # "gone" => Queued(u) = commands[u]
      /\ actor'[u] # "gone" => Queued(u)' = commands'[u]
  BY <1>1 DEF Stage, Standing, Queued
<1>3. Outside /\ UNCHANGED sourceVars
  BY DEF OnlyActor
<1>4. /\ actor' = [actor EXCEPT ![u] = actor'[u]]
      /\ commands' = [commands EXCEPT ![u] = commands'[u]]
      /\ pending' = [pending EXCEPT ![u] = pending'[u]]
  BY SMTT(30) DEF OnlyActor, Untouched, TypeOK
<1>5. /\ actor'[u] = actor[u] => UNCHANGED actor
      /\ commands'[u] = commands[u] => UNCHANGED commands
      /\ pending'[u] = pending[u] => UNCHANGED pending
  <2>1. /\ actor \in [Upstream -> {"up", "ending", "closing", "gone"}]
        /\ commands \in [Upstream -> Seq(Commands)]
        /\ pending \in [Upstream -> [Id -> Optional(Call)]]
    BY DEF TypeOK
  <2>2. actor' = [actor EXCEPT ![u] = actor'[u]]
    BY <1>4
  <2>3. actor'[u] = actor[u] => UNCHANGED actor
    BY <2>1, <2>2, SameThere
  <2>4. commands' = [commands EXCEPT ![u] = commands'[u]]
    BY <1>4
  <2>5. commands'[u] = commands[u] => UNCHANGED commands
    BY <2>1, <2>4, SameThere
  <2>6. pending' = [pending EXCEPT ![u] = pending'[u]]
    BY <1>4
  <2>7. pending'[u] = pending[u] => UNCHANGED pending
    BY <2>1, <2>6, SameThere
  <2>. QED
    BY <2>3, <2>5, <2>7
<1>6. \A id, call : Actor(u)!Becomes(id, call) => pending' = [pending EXCEPT ![u][id] = call]
  BY <1>2, <1>4 DEF Actor!Becomes, TypeOK
<1>7. ASSUME NEW kind, Actor(u)!Take(kind), actor'[u] = actor[u]
      PROVE  TakeCommand(u, kind) /\ Head(Queued(u)) = Head(commands[u])
  <2>1. actor[u] = "up" /\ commands[u] # <<>> /\ Head(commands[u]).kind = kind /\ commands'[u] = Tail(commands[u])
    BY <1>2, <1>7 DEF Actor!Take
  <2>2. commands' = [commands EXCEPT ![u] = Tail(@)]
    BY <1>4, <2>1
  <2>. QED
    BY <1>2, <1>3, <1>5, <1>7, <2>1, <2>2 DEF TakeCommand, OnlyActor
<1>8. CASE Actor(u)!SendUpstream
  <2>1. TakeCommand(u, "Forward") /\ Head(Queued(u)) = Head(commands[u]) /\ events' = events
    BY <1>1, <1>2, <1>7, <1>8, NothingEmitted DEF Actor!SendUpstream
  <2>. QED
    BY <1>6, <1>8, <2>1 DEF Actor!SendUpstream, SendUpstream, ActorStep
<1>9. CASE Actor(u)!RejectForward
  <2>1. TakeCommand(u, "Forward") /\ Head(Queued(u)) = Head(commands[u])
    BY <1>2, <1>7, <1>9 DEF Actor!RejectForward
  <2>2. Emit(EventOf("Response", u, Head(commands[u]).id, Head(commands[u]).call))
    BY <1>1, <1>9, <2>1, EmittedIs DEF Actor!RejectForward, Actor!Response
  <2>. QED
    BY <1>6, <1>9, <2>1, <2>2 DEF Actor!RejectForward, RejectForward, ActorStep
<1>10. CASE Actor(u)!CancelUpstream
  <2>1. TakeCommand(u, "Cancel") /\ Head(Queued(u)) = Head(commands[u]) /\ events' = events
    BY <1>1, <1>2, <1>7, <1>10, NothingEmitted DEF Actor!CancelUpstream
  <2>. QED
    BY <1>6, <1>10, <2>1 DEF Actor!CancelUpstream, CancelUpstream, ActorStep
<1>11. ~Actor(u)!TakeOwn
  BY DEF Actor!TakeOwn
<1>12. CASE \E id \in Id : Actor(u)!Respond(id)
  <2>1. PICK id \in Id : Actor(u)!Respond(id)
    BY <1>12
  <2>2. actor[u] = "up" /\ pending[u][id] # None /\ UNCHANGED <<commands, actor>>
    BY <1>2, <1>5, <2>1 DEF Actor!Respond
  <2>3. Emit(EventOf("Response", u, id, pending[u][id]))
    BY <1>1, <1>2, <2>1, EmittedIs DEF Actor!Respond, Actor!Response
  <2>. QED
    BY <1>3, <1>6, <2>1, <2>2, <2>3 DEF Actor!Respond, Respond, UpstreamStep
<1>13. CASE Actor(u)!LoseUpstream
  <2>1. actor[u] = "up" /\ actor'[u] = "ending" /\ pending'[u] = [id \in Id |-> None] /\ events' = events
    BY <1>1, <1>2, <1>13, NothingEmitted DEF Actor!LoseUpstream, Actor!Nobody
  <2>2. commands'[u] = commands[u] \/ (commands[u] # <<>> /\ commands'[u] = Tail(commands[u]))
    BY <1>2, <1>13, <2>1 DEF Actor!LoseUpstream
  <2>3. UNCHANGED commands \/ (commands[u] # <<>> /\ commands' = [commands EXCEPT ![u] = Tail(@)])
    BY <1>4, <1>5, <2>2
  <2>. QED
    BY <1>3, <1>4, <2>1, <2>3 DEF LoseUpstream, UpstreamStep
<1>14. CASE Actor(u)!ReportEnd
  <2>1. actor[u] = "ending" /\ actor'[u] = "closing" /\ UNCHANGED <<commands, pending>>
    BY <1>2, <1>5, <1>14 DEF Actor!ReportEnd
  <2>2. Emit(EventOf("Ended", u, None, None))
    BY <1>1, <1>14, EmittedIs DEF Actor!ReportEnd, Actor!Notice
  <2>. QED
    BY <1>3, <1>4, <2>1, <2>2 DEF ReportEnd
<1>15. CASE Actor(u)!CloseTransport
  <2>1. actor[u] = "closing" /\ actor'[u] = "gone" /\ UNCHANGED <<commands, pending>> /\ events' = events
    BY <1>1, <1>2, <1>5, <1>15, NothingEmitted DEF Actor!CloseTransport, OnlyActor
  <2>. QED
    BY <1>3, <1>4, <2>1 DEF CloseTransport, ActorStep, OnlyActor
<1>. QED
  BY <1>8, <1>9, <1>10, <1>11, <1>12, <1>13, <1>14, <1>15 DEF Actor!ActorStep

=============================================================================
