-------------------------- MODULE ConnectionProofs --------------------------
(***************************************************************************)
(* Theorems about Connection, for all ids, callers, tokens, queue lengths  *)
(* and numbers of calls.                                                   *)
(***************************************************************************)
EXTENDS Connection, FiniteSetTheorems, TLAPS

-----------------------------------------------------------------------------
(* Types *)

LEMMA HeadTypes ==
  ASSUME TypeOK, commands # <<>>
  PROVE  /\ Head(commands) \in Commands
         /\ Tail(commands) \in Seq(Commands) /\ Len(Tail(commands)) <= CommandCap
BY ConnectionAssumption DEF TypeOK

LEMMA ForwardTypes ==
  ASSUME TypeOK, commands # <<>>, Head(commands).kind \in {"Forward", "Cancel"}
  PROVE  Head(commands).id \in Id /\ Head(commands).call \in Call
BY HeadTypes DEF Commands, Requests

LEMMA PutTypes ==
  ASSUME TypeOK, Room, NEW command \in Commands, Put(command)
  PROVE  commands' \in Seq(Commands) /\ Len(commands') <= CommandCap
BY ConnectionAssumption DEF TypeOK, Room, Put

LEMMA EventTypes ==
  ASSUME TypeOK, NEW event \in Events, EventRoom, events' = Append(events, event)
  PROVE  events' \in Seq(Events) /\ Len(events') <= EventCap
<1>1. EventCap \in Nat /\ events \in Seq(Events) /\ Len(events) < EventCap
  BY ConnectionAssumption DEF TypeOK, EventRoom
<1>2. Append(events, event) \in Seq(Events) /\ Len(Append(events, event)) = Len(events) + 1
  BY <1>1
<1>. QED
  BY <1>1, <1>2

LEMMA EmitTypes ==
  ASSUME TypeOK, NEW event \in Events, NEW before \in Optional(Call), NEW taken \in Seq(Commands),
         Emit(event, before, taken)
  PROVE  /\ events' \in Seq(Events) /\ Len(events') <= EventCap
         /\ held' = None \/ held' \in Held
<1>1. CASE EventRoom
  BY <1>1, EventTypes DEF Emit, TypeOK
<1>2. CASE ~EventRoom
  <2>1. held' = [event |-> event, before |-> before, taken |-> taken] /\ events' = events
    BY <1>2 DEF Emit
  <2>. QED
    BY <2>1 DEF TypeOK, Held
<1>. QED
  BY <1>1, <1>2

LEMMA EventsAreTyped ==
  /\ \A id \in Id, c \in Call : Response(id, c) \in Events
  /\ \A kind \in {"Notification", "ListChanged", "Ended"} : Notice(kind) \in Events
BY DEF Response, Notice, Events

LEMMA MappedTypes ==
  ASSUME TypeOK, IndexesAgree, NEW id \in Id
  PROVE  Mapped(id) \in Optional(Call)
BY DEF TypeOK, IndexesAgree, IsClient, Mapped, Optional, Entries

LEMMA LeaveTypes ==
  ASSUME TypeOK, NEW next \in {"reporting", "closing"}, NEW told, Leave(next, told)
  PROVE  /\ task' = next /\ held' = None
         /\ pending' \in [Minted -> Optional(Entries)] /\ byClient' \in [Id -> Optional(Minted)]
         /\ callers' \in [Caller -> CallerStates]
         /\ UNCHANGED <<tokenVars, sessionVars, history>>
BY DEF TypeOK, Leave, Resolve, Optional, CallerStates

LEMMA InitTypes == Init => TypeOK
<1>. SUFFICES ASSUME Init PROVE TypeOK
  OBVIOUS
<1>1. commands \in Seq(Commands) /\ Len(commands) = 0 /\ events \in Seq(Events) /\ Len(events) = 0
  BY DEF Init
<1>2. 1 \in 0 .. MaxMinted /\ 0 \in 0 .. MaxCalls /\ 0 <= CommandCap /\ 0 <= EventCap
  BY ConnectionAssumption
<1>3. /\ pending \in [Minted -> Optional(Entries)] /\ byClient \in [Id -> Optional(Minted)]
      /\ tokenOf \in [Minted -> Optional(Token)] /\ claimed \in [Id -> Optional(Call)]
  BY DEF Init, Optional
<1>4. /\ tokenCounts \in [Token -> Int] /\ replied \in [Call -> Nat] /\ withdrawn \subseteq Call
      /\ callers \in [Caller -> CallerStates]
  BY DEF Init, CallerStates
<1>. QED
  BY <1>1, <1>2, <1>3, <1>4 DEF Init, TypeOK

\* An entry goes from both maps.
Removed(n) ==
  /\ pending' = [pending EXCEPT ![n] = None]
  /\ byClient' = [id \in Id |-> IF byClient[id] = n THEN None ELSE byClient[id]]
  /\ UNCHANGED nextId

\* complete frees the id its entry names, cancel_client the id it is asked for; as the
\* indexes agree, that is the one id the entry is known by.
LEMMA CancelRemoves ==
  ASSUME TypeOK, IndexesAgree, CancelForward, byClient[Head(commands).id] # None
  PROVE  byClient[Head(commands).id] \in Minted /\ Removed(byClient[Head(commands).id])
<1>1. PICK id \in Id : id = Head(commands).id
  BY ForwardTypes DEF CancelForward, Take
<1>2. byClient[id] \in Minted
  BY <1>1 DEF TypeOK, Optional
<1>3. \A x \in Id : byClient[x] = byClient[id] <=> x = id
  <2>1. \A x \in Id : byClient[x] = byClient[id] => pending[byClient[id]].id = x
    BY <1>2 DEF IndexesAgree
  <2>. QED
    BY <2>1
<1>4. Remove(byClient[id], {id})
  BY <1>1 DEF CancelForward
<1>. QED
  BY <1>1, <1>2, <1>3, <1>4 DEF Remove, Removed

LEMMA RespondRemoves ==
  ASSUME TypeOK, IndexesAgree, NEW n \in Minted, Respond(n)
  PROVE  Removed(n)
<1>1. pending[n] # None /\ pending[n].kind \in {"client", "internal"}
  BY DEF Respond, TypeOK, Optional, Entries
<1>2. Remove(n, IF pending[n].kind = "client" THEN {pending[n].id} ELSE {})
  BY DEF Respond
<1>3. \A id \in Id : byClient[id] = n <=>
        id \in (IF pending[n].kind = "client" THEN {pending[n].id} ELSE {})
  BY <1>1 DEF IndexesAgree, IsClient
<1>. QED
  BY <1>2, <1>3 DEF Remove, Removed

LEMMA StepTypes == TypeOK /\ IndexesAgree /\ [Next]_vars => TypeOK'
<1>. SUFFICES ASSUME TypeOK, IndexesAgree, [Next]_vars PROVE TypeOK'
  OBVIOUS
<1>. USE DEF mapVars, tokenVars, sessionVars, history
<1>1. CASE UNCHANGED vars
  BY <1>1 DEF vars, TypeOK
<1>2. CASE Session
  <2>1. ASSUME NEW id \in Id, ForwardCall(id) PROVE TypeOK'
    <3>1. nextCall \in Call
      BY <2>1, ConnectionAssumption DEF ForwardCall, TypeOK, Call
    <3>2. ForClient("Forward", id, nextCall) \in Commands
      BY <3>1 DEF ForClient, Commands, Requests
    <3>3. commands' \in Seq(Commands) /\ Len(commands') <= CommandCap
      BY <2>1, <3>2, PutTypes DEF ForwardCall, TypeOK
    <3>. QED
      BY <2>1, <3>1, <3>3, ConnectionAssumption, SMTT(30) DEF ForwardCall, TypeOK, Optional
  <2>2. ASSUME NEW id \in Id, CancelCall(id) PROVE TypeOK'
    <3>1. ForClient("Cancel", id, claimed[id]) \in Commands
      BY <2>2 DEF CancelCall, TypeOK, Optional, ForClient, Commands, Requests
    <3>2. commands' \in Seq(Commands) /\ Len(commands') <= CommandCap
      BY <2>2, <3>1, PutTypes DEF CancelCall, TypeOK
    <3>. QED
      BY <2>2, <3>2 DEF CancelCall, TypeOK, Optional
  <2>3. CASE Serve
    BY <2>3, ConnectionAssumption DEF Serve, TypeOK, Optional
  <2>4. CASE EndSession
    <3>1. [kind |-> "Shutdown"] \in Commands
      BY DEF Commands, Requests
    <3>2. commands' \in Seq(Commands) /\ Len(commands') <= CommandCap
      BY <2>4, <3>1, PutTypes DEF EndSession, TypeOK
    <3>. QED
      BY <2>4, <3>2, ConnectionAssumption DEF EndSession, TypeOK, Optional, CallerStates
  <2>. QED
    BY <1>2, <2>1, <2>2, <2>3, <2>4 DEF Session, UpstreamEnds
<1>3. ASSUME NEW k \in Caller, Ask(k) \/ Enqueue(k) \/ Timeout(k) PROVE TypeOK'
  <2>1. commands' \in Seq(Commands) /\ Len(commands') <= CommandCap
    <3>1. [kind |-> "Request", caller |-> k] \in Commands
      BY DEF Commands, Requests
    <3>. QED
      BY <1>3, <3>1, PutTypes DEF Ask, Enqueue, Timeout, TypeOK
  <2>2. callers' \in [Caller -> CallerStates]
    BY <1>3 DEF Ask, Enqueue, Timeout, CallerIs, CallerStates, TypeOK
  <2>. QED
    BY <1>3, <2>1, <2>2 DEF Ask, Enqueue, Timeout, CallerIs, TypeOK
<1>4. CASE HandleCommand
  <2>1. CASE SendForward
    <3>1. commands # <<>> /\ Head(commands).id \in Id /\ Head(commands).call \in Call
      BY <2>1, ForwardTypes DEF SendForward, Take
    <3>2. Client(Head(commands).id, Head(commands).call) \in Entries
      BY <3>1 DEF Client, Entries
    <3>3. nextId \in Minted /\ nextId' \in 0 .. MaxMinted
      BY <2>1, ConnectionAssumption DEF SendForward, InsertClient, TypeOK, Minted
    <3>4. /\ pending' \in [Minted -> Optional(Entries)] /\ byClient' \in [Id -> Optional(Minted)]
      BY <2>1, <3>1, <3>2, <3>3 DEF SendForward, InsertClient, TypeOK, Optional
    <3>5. tokenOf' \in [Minted -> Optional(Token)] /\ tokenCounts' \in [Token -> Int]
      BY <2>1, <3>3 DEF SendForward, CarryToken, TypeOK
    <3>. QED
      BY <2>1, <3>1, <3>3, <3>4, <3>5, HeadTypes DEF SendForward, Take, Elsewhere, TypeOK
  <2>2. CASE RejectForward
    <3>1. commands # <<>> /\ Head(commands).id \in Id /\ Head(commands).call \in Call
      BY <2>2, ForwardTypes DEF RejectForward, Take
    <3>2. nextId' \in 0 .. MaxMinted
      BY <2>2, ConnectionAssumption DEF RejectForward, InsertAndCancel, TypeOK, Minted
    <3>3. /\ pending' \in [Minted -> Optional(Entries)] /\ byClient' \in [Id -> Optional(Minted)]
      BY <2>2 DEF RejectForward, InsertAndCancel, TypeOK, Optional
    <3>4. <<Head(commands)>> \in Seq(Commands)
      BY <3>1, HeadTypes
    <3>5. /\ events' \in Seq(Events) /\ Len(events') <= EventCap
          /\ held' = None \/ held' \in Held
      BY <2>2, <3>1, <3>4, EmitTypes, EventsAreTyped, MappedTypes DEF RejectForward
    <3>6. replied' \in [Call -> Nat]
      BY <2>2, <3>1 DEF RejectForward, TypeOK
    <3>. QED
      BY <2>2, <3>1, <3>2, <3>3, <3>5, <3>6, HeadTypes DEF RejectForward, Take, Elsewhere, TypeOK
  <2>3. CASE CancelForward
    <3>1. commands # <<>> /\ Head(commands).id \in Id
      BY <2>3, ForwardTypes DEF CancelForward, Take
    <3>2. CASE byClient[Head(commands).id] = None
      BY <2>3, <3>1, <3>2, HeadTypes DEF CancelForward, Take, Elsewhere, TypeOK
    <3>3. CASE byClient[Head(commands).id] # None
      <4> DEFINE n == byClient[Head(commands).id]
      <4>1. n \in Minted /\ IsClient(n) /\ pending[n].call \in Call
        BY <3>1, <3>3 DEF TypeOK, IndexesAgree, IsClient, Optional, Entries
      <4>2. Removed(n) /\ ReleaseToken(n) /\ withdrawn' = withdrawn \cup {pending[n].call}
        BY <2>3, <3>3, CancelRemoves DEF CancelForward
      <4>3. /\ pending' \in [Minted -> Optional(Entries)] /\ byClient' \in [Id -> Optional(Minted)]
            /\ nextId' = nextId
        BY <4>1, <4>2 DEF Removed, TypeOK, Optional
      <4>4. tokenOf' \in [Minted -> Optional(Token)] /\ tokenCounts' \in [Token -> Int]
        BY <4>1, <4>2 DEF ReleaseToken, TypeOK, Optional
      <4>. QED
        BY <2>3, <3>1, <4>1, <4>2, <4>3, <4>4, HeadTypes DEF CancelForward, Take, Elsewhere, TypeOK
    <3>. QED
      BY <3>2, <3>3
  <2>4. CASE SendRequest
    <3>1. commands # <<>> /\ Head(commands).caller \in Caller
      BY <2>4, HeadTypes DEF SendRequest, Take, Commands, Requests
    <3>2. nextId \in Minted /\ nextId' \in 0 .. MaxMinted
      BY <2>4, ConnectionAssumption DEF SendRequest, InsertInternal, TypeOK, Minted
    <3>3. Internal(Head(commands).caller) \in Entries
      BY <3>1 DEF Internal, Entries
    <3>4. pending' \in [Minted -> Optional(Entries)] /\ byClient' = byClient
      BY <2>4, <3>2, <3>3 DEF SendRequest, InsertInternal, TypeOK, Optional
    <3>. QED
      BY <2>4, <3>1, <3>2, <3>4, HeadTypes DEF SendRequest, Take, Elsewhere, TypeOK
  <2>5. CASE SendFails
    <3>1. PICK told : Leave("reporting", told)
      BY <2>5 DEF SendFails
    <3>. QED
      BY <2>5, <3>1, HeadTypes, LeaveTypes DEF SendFails, TypeOK
  <2>6. CASE Stop
    BY <2>6, HeadTypes, LeaveTypes DEF Stop, Take, TypeOK
  <2>. QED
    BY <1>4, <2>1, <2>2, <2>3, <2>4, <2>5, <2>6 DEF HandleCommand
<1>5. CASE HandleFrame
  <2>1. ASSUME NEW n \in Minted, Respond(n) PROVE TypeOK'
    <3>1. pending[n] \in Entries
      BY <2>1 DEF Respond, TypeOK, Optional
    <3>2. /\ pending' \in [Minted -> Optional(Entries)] /\ byClient' \in [Id -> Optional(Minted)]
          /\ nextId' = nextId
      BY <2>1, RespondRemoves DEF Respond, Removed, TypeOK, Optional
    <3>3. tokenOf' \in [Minted -> Optional(Token)] /\ tokenCounts' \in [Token -> Int]
      BY <2>1 DEF Respond, ReleaseToken, TypeOK, Optional
    <3>4. CASE pending[n].kind = "client"
      <4>1. pending[n].id \in Id /\ pending[n].call \in Call /\ <<>> \in Seq(Commands)
        BY <3>1, <3>4 DEF Entries
      <4>2. /\ Emit(Response(pending[n].id, pending[n].call), pending[n].call, <<>>)
            /\ replied' = [replied EXCEPT ![pending[n].call] = @ + 1]
            /\ UNCHANGED callers
        BY <2>1, <3>4 DEF Respond
      <4>3. /\ events' \in Seq(Events) /\ Len(events') <= EventCap
            /\ held' = None \/ held' \in Held
        BY <4>1, <4>2, EmitTypes, EventsAreTyped DEF Optional
      <4>. QED
        BY <2>1, <3>2, <3>3, <4>1, <4>2, <4>3 DEF Respond, TypeOK
    <3>5. CASE pending[n].kind = "internal"
      <4>1. callers' \in [Caller -> CallerStates] /\ UNCHANGED <<held, events, replied>>
        BY <2>1, <3>5 DEF Respond, Resolve, TypeOK, CallerStates
      <4>. QED
        BY <2>1, <3>2, <3>3, <4>1 DEF Respond, TypeOK
    <3>. QED
      BY <2>1, <3>4, <3>5 DEF Respond
  <2>2. CASE ReportProgress \/ SayListChanged
    <3>1. PICK kind \in {"Notification", "ListChanged"} : Emit(Notice(kind), None, <<>>)
      BY <2>2 DEF ReportProgress, SayListChanged
    <3>2. <<>> \in Seq(Commands) /\ None \in Optional(Call)
      BY DEF Optional
    <3>3. /\ events' \in Seq(Events) /\ Len(events') <= EventCap
          /\ held' = None \/ held' \in Held
      BY <3>1, <3>2, EmitTypes, EventsAreTyped
    <3>. QED
      BY <2>2, <3>3 DEF ReportProgress, SayListChanged, Elsewhere, TypeOK
  <2>3. CASE ReplyFails
    <3>1. held' \in Held
      BY <2>3, EventsAreTyped DEF ReplyFails, Held, Optional
    <3>. QED
      BY <2>3, <3>1 DEF ReplyFails, Elsewhere, TypeOK
  <2>4. CASE TransportEnds
    BY <2>4, LeaveTypes DEF TransportEnds, TypeOK
  <2>. QED
    BY <1>5, <2>1, <2>2, <2>3, <2>4 DEF HandleFrame
<1>6. CASE EmitHeld
  <2>1. events' \in Seq(Events) /\ Len(events') <= EventCap
    BY <1>6, EventTypes DEF EmitHeld, TypeOK, Held
  <2>2. CASE held.event.kind = "Ended"
    BY <1>6, <2>1, <2>2, LeaveTypes DEF EmitHeld, TypeOK
  <2>3. CASE held.event.kind # "Ended"
    BY <1>6, <2>1, <2>3 DEF EmitHeld, Elsewhere, TypeOK
  <2>. QED
    BY <2>2, <2>3
<1>7. CASE EmitFails
  BY <1>7, LeaveTypes DEF EmitFails, TypeOK
<1>8. CASE ReportEnd
  <2>1. events' \in Seq(Events) /\ Len(events') <= EventCap
    BY <1>8, EventsAreTyped, EventTypes DEF ReportEnd, TypeOK
  <2>. QED
    BY <1>8, <2>1 DEF ReportEnd, Elsewhere, TypeOK
<1>9. CASE CloseTransport
  BY <1>9, ConnectionAssumption DEF CloseTransport, TypeOK, CallerStates
<1>10. CASE AbortTask
  BY <1>10, ConnectionAssumption DEF AbortTask, Elsewhere, TypeOK, Optional
<1>11. CASE Exited
  BY <1>11 DEF Exited, vars, TypeOK
<1>. QED
  BY <1>1, <1>2, <1>3, <1>4, <1>5, <1>6, <1>7, <1>8, <1>9, <1>10, <1>11 DEF Next

-----------------------------------------------------------------------------
(* The two indexes *)

\* What a step can do to the map.
MapKept == UNCHANGED <<nextId, pending, byClient>>
MapDrained ==
  /\ nextId' \in {nextId, nextId + 1}
  /\ pending' = [n \in Minted |-> None] /\ byClient' = [id \in Id |-> None]

MapMove ==
  \/ MapKept \/ MapDrained
  \/ \E id \in Id, c \in Call : InsertClient(id, c)
  \/ \E id \in Id : InsertAndCancel(id)
  \/ \E k \in Caller : InsertInternal(k)
  \/ \E n \in Minted : Removed(n)

LEMMA LeaveDrains ==
  ASSUME NEW next, NEW told, Leave(next, told), nextId' = nextId PROVE MapDrained
BY DEF Leave, MapDrained

LEMMA WhichMapMove ==
  ASSUME TypeOK, IndexesAgree, [Next]_vars PROVE MapMove
<1>. USE DEF mapVars
<1>1. CASE UNCHANGED vars \/ Session \/ \E k \in Caller : Ask(k) \/ Enqueue(k) \/ Timeout(k)
  BY <1>1 DEF vars, Session, ForwardCall, CancelCall, Serve, UpstreamEnds, EndSession, Ask, Enqueue,
              Timeout, CallerIs, MapMove, MapKept
<1>2. CASE SendForward \/ RejectForward
  BY <1>2, ForwardTypes DEF SendForward, RejectForward, Take, MapMove
<1>3. CASE CancelForward
  BY <1>3, CancelRemoves DEF CancelForward, MapMove, MapKept
<1>4. CASE SendRequest
  <2>1. Head(commands).caller \in Caller
    BY <1>4, HeadTypes DEF SendRequest, Take, Commands, Requests
  <2>. QED
    BY <1>4, <2>1 DEF SendRequest, MapMove
<1>5. CASE SendFails \/ Stop \/ TransportEnds \/ EmitFails
  BY <1>5, LeaveDrains DEF SendFails, Stop, TransportEnds, EmitFails, MapMove
<1>6. CASE \E n \in Minted : Respond(n)
  BY <1>6, RespondRemoves DEF MapMove
<1>7. CASE ReportProgress \/ SayListChanged \/ ReplyFails \/ ReportEnd \/ CloseTransport \/ Exited
  BY <1>7 DEF ReportProgress, SayListChanged, ReplyFails, ReportEnd, CloseTransport, Exited, vars,
              MapMove, MapKept
<1>8. CASE EmitHeld
  BY <1>8, LeaveDrains DEF EmitHeld, MapMove, MapKept
<1>9. CASE AbortTask
  BY <1>9 DEF AbortTask, MapMove, MapDrained
<1>. QED
  BY <1>1, <1>2, <1>3, <1>4, <1>5, <1>6, <1>7, <1>8, <1>9 DEF Next, HandleCommand, HandleFrame

LEMMA MapMoveKeepsIndexes ==
  ASSUME TypeOK, IndexesAgree, MapMove PROVE IndexesAgree'
<1>. USE DEF IsClient
<1>0. /\ None \notin Minted /\ Minted \subseteq Int /\ nextId \in Int
      /\ (nextId < MaxMinted => nextId \in Minted)
  BY ConnectionAssumption DEF TypeOK, Minted
<1>1. CASE MapKept
  BY <1>1 DEF MapKept, IndexesAgree
<1>2. CASE MapDrained
  BY <1>0, <1>2 DEF MapDrained, IndexesAgree
<1>3. ASSUME NEW id \in Id, NEW c \in Call, InsertClient(id, c) PROVE IndexesAgree'
  <2>1. Client(id, c) # None /\ Client(id, c).kind = "client" /\ Client(id, c).id = id
    BY ConnectionAssumption DEF Client, Entries
  <2>. QED
    BY <1>0, <1>3, <2>1 DEF InsertClient, TypeOK, IndexesAgree
<1>4. ASSUME NEW id \in Id, InsertAndCancel(id) PROVE IndexesAgree'
  BY <1>0, <1>4 DEF InsertAndCancel, TypeOK, IndexesAgree
<1>5. ASSUME NEW k \in Caller, InsertInternal(k) PROVE IndexesAgree'
  <2>1. Internal(k).kind = "internal"
    BY DEF Internal
  <2>. QED
    BY <1>0, <1>5, <2>1 DEF InsertInternal, TypeOK, IndexesAgree
<1>6. ASSUME NEW n \in Minted, Removed(n) PROVE IndexesAgree'
  BY <1>0, <1>6 DEF Removed, TypeOK, IndexesAgree
<1>. QED
  BY <1>1, <1>2, <1>3, <1>4, <1>5, <1>6 DEF MapMove

LEMMA TypesAndIndexes == Spec => [](TypeOK /\ IndexesAgree)
<1>1. Init => IndexesAgree
  BY ConnectionAssumption DEF Init, IndexesAgree, IsClient, Minted
<1>2. TypeOK /\ IndexesAgree /\ [Next]_vars => TypeOK' /\ IndexesAgree'
  BY StepTypes, WhichMapMove, MapMoveKeepsIndexes
<1>. QED
  BY <1>1, <1>2, InitTypes, PTL DEF Spec

\* TypeOK: the actor's state keeps its types and its queues their bounds.
THEOREM TypeCorrect == Spec => []TypeOK
  BY TypesAndIndexes, PTL

\* IndexesAgree: pending and by_client stay one relation under every sequence of
\* insertions, replacements, completions, cancellations and drains.
THEOREM PendingMapIsConsistent == Spec => []IndexesAgree
  BY TypesAndIndexes, PTL

-----------------------------------------------------------------------------
(* Calls: answered or withdrawn *)

IsForward(i) == commands[i].kind = "Forward"
FreshCalls == {c \in Call : replied[c] = 0 /\ c \notin withdrawn /\ c < nextCall}

\* A call that waits in the queue or is mapped has neither been answered nor
\* withdrawn, and it is at one place only.
QueuedCalls ==
  /\ \A i \in DOMAIN commands : IsForward(i) =>
       /\ commands[i].call \in FreshCalls
       /\ \A n \in Minted : IsClient(n) => pending[n].call # commands[i].call
  /\ \A i, j \in DOMAIN commands :
       IsForward(i) /\ IsForward(j) /\ commands[i].call = commands[j].call => i = j

MappedCalls ==
  /\ \A n \in Minted : IsClient(n) => pending[n].call \in FreshCalls
  /\ \A n, m \in Minted :
       IsClient(n) /\ IsClient(m) /\ pending[n].call = pending[m].call => n = m

CallsEndOnce ==
  \A c \in Call : /\ replied[c] <= (IF c \in withdrawn THEN 0 ELSE 1)
                  /\ c >= nextCall => replied[c] = 0 /\ c \notin withdrawn

CallsInv == QueuedCalls /\ MappedCalls /\ CallsEndOnce

LEMMA TailOfQueue ==
  ASSUME TypeOK, commands # <<>>, commands' = Tail(commands)
  PROVE  /\ 1 \in DOMAIN commands /\ Head(commands) = commands[1]
         /\ \A i \in DOMAIN commands' :
              i + 1 \in DOMAIN commands /\ i + 1 # 1 /\ commands'[i] = commands[i + 1]
         /\ \A i, j \in DOMAIN commands' : i + 1 = j + 1 => i = j
BY DEF TypeOK

LEMMA EndOfQueue ==
  ASSUME TypeOK, NEW command, commands' = Append(commands, command)
  PROVE  \A i \in DOMAIN commands' :
           \/ i \in DOMAIN commands /\ commands'[i] = commands[i]
           \/ i = Len(commands) + 1 /\ commands'[i] = command
BY DEF TypeOK

\* What a step can do to calls: nothing but to forget some of them ...
ForwardsKept ==
  \/ commands' = commands
  \/ commands # <<>> /\ commands' = Tail(commands)
  \/ commands' = <<>>
  \/ \E command \in Commands : command.kind # "Forward" /\ commands' = Append(commands, command)

ClientsKept == \A n \in Minted : IsClient(n)' => IsClient(n) /\ pending'[n] = pending[n]

CallsForgotten == ForwardsKept /\ ClientsKept /\ UNCHANGED <<nextCall, replied, withdrawn>>

\* ... or to queue, map, refuse, withdraw or answer one.
CallQueued ==
  /\ nextCall \in Call /\ nextCall' = nextCall + 1
  /\ \/ commands' = commands
     \/ \E id \in Id : commands' = Append(commands, ForClient("Forward", id, nextCall))
  /\ ClientsKept /\ UNCHANGED <<replied, withdrawn>>

TakesForward == commands # <<>> /\ Head(commands).kind = "Forward" /\ commands' = Tail(commands)

CallMapped ==
  /\ TakesForward
  /\ \E m \in Minted : /\ pending'[m] = Client(Head(commands).id, Head(commands).call)
                       /\ \A n \in Minted \ {m} : IsClient(n)' => IsClient(n) /\ pending'[n] = pending[n]
  /\ UNCHANGED <<nextCall, replied, withdrawn>>

CallRefused ==
  /\ TakesForward /\ ClientsKept
  /\ replied' = [replied EXCEPT ![Head(commands).call] = @ + 1]
  /\ UNCHANGED <<nextCall, withdrawn>>

CallUnmapped(n) == IsClient(n) /\ pending'[n] = None /\ ForwardsKept /\ ClientsKept

CallWithdrawn(n) ==
  /\ CallUnmapped(n)
  /\ withdrawn' = withdrawn \cup {pending[n].call}
  /\ UNCHANGED <<nextCall, replied>>

CallAnswered(n) ==
  /\ CallUnmapped(n)
  /\ replied' = [replied EXCEPT ![pending[n].call] = @ + 1]
  /\ UNCHANGED <<nextCall, withdrawn>>

CallMove ==
  \/ CallsForgotten \/ CallQueued \/ CallMapped \/ CallRefused
  \/ \E n \in Minted : CallWithdrawn(n) \/ CallAnswered(n)

LEMMA MapMovesKeepClients ==
  ASSUME TypeOK, IndexesAgree,
         \/ MapKept \/ MapDrained
         \/ \E id \in Id : InsertAndCancel(id)
         \/ \E k \in Caller : InsertInternal(k)
         \/ \E n \in Minted : Removed(n)
  PROVE  ClientsKept
<1>. USE DEF IsClient, ClientsKept
<1>1. CASE MapKept \/ MapDrained
  BY <1>1 DEF MapKept, MapDrained
<1>2. CASE \E id \in Id : InsertAndCancel(id)
  BY <1>2 DEF InsertAndCancel
<1>3. CASE \E k \in Caller : InsertInternal(k)
  BY <1>3 DEF InsertInternal, Internal, TypeOK
<1>4. CASE \E n \in Minted : Removed(n)
  BY <1>4 DEF Removed, TypeOK
<1>. QED
  BY <1>1, <1>2, <1>3, <1>4

LEMMA LeaveForgets ==
  ASSUME TypeOK, IndexesAgree, NEW next, NEW told, Leave(next, told), nextId' = nextId, ForwardsKept
  PROVE  CallsForgotten
BY LeaveDrains, MapMovesKeepClients DEF Leave, CallsForgotten, sessionVars, history

LEMMA WhichCallMove ==
  ASSUME TypeOK, IndexesAgree, [Next]_vars PROVE CallMove
<1>. USE DEF mapVars, sessionVars, history
<1>1. CASE UNCHANGED vars \/ Exited
  BY <1>1, MapMovesKeepClients DEF vars, Exited, MapKept, CallMove, CallsForgotten, ForwardsKept
<1>2. ASSUME NEW id \in Id, ForwardCall(id) PROVE CallMove
  <2>1. nextCall \in Call
    BY <1>2, ConnectionAssumption DEF ForwardCall, TypeOK, Call
  <2>2. ClientsKept
    BY <1>2, MapMovesKeepClients DEF ForwardCall, MapKept
  <2>. QED
    BY <1>2, <2>1, <2>2 DEF ForwardCall, Put, CallMove, CallQueued
<1>3. ASSUME NEW id \in Id, CancelCall(id) PROVE CallMove
  <2>1. ForClient("Cancel", id, claimed[id]) \in Commands /\ ForClient("Cancel", id, claimed[id]).kind # "Forward"
    BY <1>3 DEF CancelCall, TypeOK, Optional, ForClient, Commands, Requests
  <2>2. ClientsKept
    BY <1>3, MapMovesKeepClients DEF CancelCall, MapKept
  <2>. QED
    BY <1>3, <2>1, <2>2 DEF CancelCall, Put, CallMove, CallsForgotten, ForwardsKept
<1>4. CASE EndSession \/ UpstreamEnds
  <2>1. [kind |-> "Shutdown"] \in Commands /\ [kind |-> "Shutdown"].kind # "Forward"
    BY DEF Commands, Requests
  <2>2. ClientsKept
    BY <1>4, MapMovesKeepClients DEF UpstreamEnds, EndSession, MapKept
  <2>. QED
    BY <1>4, <2>1, <2>2 DEF UpstreamEnds, EndSession, Put, CallMove, CallsForgotten, ForwardsKept
<1>5. ASSUME NEW k \in Caller, Ask(k) \/ Enqueue(k) \/ Timeout(k) PROVE CallMove
  <2>1. [kind |-> "Request", caller |-> k] \in Commands /\ [kind |-> "Request", caller |-> k].kind # "Forward"
    BY DEF Commands, Requests
  <2>2. ClientsKept
    BY <1>5, MapMovesKeepClients DEF Ask, Enqueue, Timeout, CallerIs, MapKept
  <2>. QED
    BY <1>5, <2>1, <2>2 DEF Ask, Enqueue, Timeout, CallerIs, Put, CallMove, CallsForgotten, ForwardsKept
<1>6. CASE SendForward
  <2>1. nextId \in Minted
    BY <1>6, ConnectionAssumption DEF SendForward, InsertClient, TypeOK, Minted
  <2>2. InsertClient(Head(commands).id, Head(commands).call)
    BY <1>6 DEF SendForward
  <2>3. pending'[nextId] = Client(Head(commands).id, Head(commands).call)
    BY <2>1, <2>2 DEF InsertClient
  <2>4. \A n \in Minted \ {nextId} : IsClient(n)' => IsClient(n) /\ pending'[n] = pending[n]
    BY <2>2 DEF InsertClient, IsClient
  <2>. QED
    BY <1>6, <2>1, <2>3, <2>4 DEF SendForward, Take, Elsewhere, CallMove, CallMapped, TakesForward
<1>7. CASE RejectForward
  <2>1. Head(commands).id \in Id
    BY <1>7, ForwardTypes DEF RejectForward, Take
  <2>2. ClientsKept
    BY <1>7, <2>1, MapMovesKeepClients DEF RejectForward
  <2>. QED
    BY <1>7, <2>2 DEF RejectForward, Take, Elsewhere, CallMove, CallRefused, TakesForward
<1>8. CASE CancelForward
  <2> DEFINE n == byClient[Head(commands).id]
  <2>1. Head(commands).id \in Id /\ ForwardsKept
    BY <1>8, ForwardTypes DEF CancelForward, Take, ForwardsKept
  <2>2. CASE n = None
    <3>1. ClientsKept
      BY <1>8, <2>2, MapMovesKeepClients DEF CancelForward, MapKept
    <3>. QED
      BY <1>8, <2>1, <2>2, <3>1 DEF CancelForward, Elsewhere, CallMove, CallsForgotten
  <2>3. CASE n # None
    <3>1. n \in Minted /\ IsClient(n)
      BY <2>1, <2>3 DEF TypeOK, IndexesAgree, Optional
    <3>2. Removed(n) /\ withdrawn' = withdrawn \cup {pending[n].call}
      BY <1>8, <2>3, CancelRemoves DEF CancelForward
    <3>3. pending'[n] = None /\ ClientsKept
      BY <3>1, <3>2, MapMovesKeepClients DEF Removed, TypeOK
    <3>. QED
      BY <1>8, <2>1, <3>1, <3>2, <3>3 DEF CancelForward, Elsewhere, CallMove, CallWithdrawn, CallUnmapped
  <2>. QED
    BY <2>2, <2>3
<1>9. CASE SendRequest
  <2>1. Head(commands).caller \in Caller
    BY <1>9, HeadTypes DEF SendRequest, Take, Commands, Requests
  <2>2. ClientsKept
    BY <1>9, <2>1, MapMovesKeepClients DEF SendRequest
  <2>. QED
    BY <1>9, <2>2 DEF SendRequest, Take, Elsewhere, CallMove, CallsForgotten, ForwardsKept
<1>10. CASE SendFails \/ Stop \/ TransportEnds \/ EmitFails
  BY <1>10, LeaveForgets DEF SendFails, Stop, Take, TransportEnds, EmitFails, CallMove, ForwardsKept
<1>11. ASSUME NEW n \in Minted, Respond(n) PROVE CallMove
  <2>1. pending'[n] = None /\ ClientsKept
    BY <1>11, RespondRemoves, MapMovesKeepClients DEF Removed, TypeOK
  <2>2. CASE pending[n].kind = "client"
    BY <1>11, <2>1, <2>2 DEF Respond, CallMove, CallAnswered, CallUnmapped, IsClient, ForwardsKept
  <2>3. CASE pending[n].kind = "internal"
    BY <1>11, <2>1, <2>3 DEF Respond, CallMove, CallsForgotten, ForwardsKept
  <2>. QED
    BY <1>11, <2>2, <2>3 DEF Respond
<1>12. CASE Serve \/ ReportProgress \/ SayListChanged \/ ReplyFails \/ ReportEnd \/ CloseTransport
  <2>1. ClientsKept
    BY <1>12, MapMovesKeepClients
    DEF Serve, ReportProgress, SayListChanged, ReplyFails, ReportEnd, CloseTransport, MapKept
  <2>. QED
    BY <1>12, <2>1 DEF Serve, ReportProgress, SayListChanged, ReplyFails, ReportEnd, CloseTransport,
                       Elsewhere, CallMove, CallsForgotten, ForwardsKept
<1>13. CASE EmitHeld
  <2>1. CASE held.event.kind = "Ended"
    BY <1>13, <2>1, LeaveForgets DEF EmitHeld, CallMove, ForwardsKept
  <2>2. CASE held.event.kind # "Ended"
    <3>1. ClientsKept
      BY <1>13, <2>2, MapMovesKeepClients DEF EmitHeld, MapKept
    <3>. QED
      BY <1>13, <2>2, <3>1 DEF EmitHeld, Elsewhere, CallMove, CallsForgotten, ForwardsKept
  <2>. QED
    BY <2>1, <2>2
<1>14. CASE AbortTask
  <2>1. ClientsKept
    BY <1>14, MapMovesKeepClients DEF AbortTask, MapDrained
  <2>. QED
    BY <1>14, <2>1 DEF AbortTask, Elsewhere, CallMove, CallsForgotten, ForwardsKept
<1>. QED
  BY <1>1, <1>2, <1>3, <1>4, <1>5, <1>6, <1>7, <1>8, <1>9, <1>10, <1>11, <1>12, <1>13, <1>14
  DEF Next, Session, HandleCommand, HandleFrame

LEMMA CallMoveKeepsCalls ==
  ASSUME TypeOK, CallsInv, CallMove PROVE CallsInv'
<1>. USE DEF IsClient
<1>0. /\ \A c \in Call : replied[c] \in Nat
      /\ nextCall \in Nat /\ Call \subseteq Nat
      /\ \A i \in DOMAIN commands : commands[i] \in Commands
      /\ \A i \in DOMAIN commands : IsForward(i) => commands[i].call \in Call
      /\ \A n \in Minted : IsClient(n) => pending[n].call \in Call
  <2>1. Call \subseteq Nat /\ nextCall \in Nat /\ \A c \in Call : replied[c] \in Nat
    <3>1. MaxCalls \in Nat
      BY ConnectionAssumption
    <3>. QED
      BY <3>1 DEF TypeOK, Call
  <2>2. \A i \in DOMAIN commands : commands[i] \in Commands
    BY DEF TypeOK
  <2>3. \A i \in DOMAIN commands : IsForward(i) => commands[i].call \in Call
    BY <2>2 DEF IsForward, Commands, Requests
  <2>4. \A n \in Minted : IsClient(n) => pending[n].call \in Call
    BY DEF TypeOK, Optional, Entries
  <2>. QED
    BY <2>1, <2>2, <2>3, <2>4
<1>1. ASSUME ForwardsKept, ClientsKept,
             \A c \in FreshCalls \ FreshCalls' :
               /\ \A i \in DOMAIN commands' : IsForward(i)' => commands'[i].call # c
               /\ \A n \in Minted : IsClient(n)' => pending'[n].call # c
      PROVE  QueuedCalls' /\ MappedCalls'
  <2>1. MappedCalls'
    BY <1>0, <1>1 DEF CallsInv, MappedCalls, ClientsKept
  <2>2. CASE commands' = commands
    BY <1>0, <1>1, <2>1, <2>2 DEF CallsInv, QueuedCalls, ClientsKept, IsForward
  <2>3. CASE commands # <<>> /\ commands' = Tail(commands)
    <3>1. /\ \A i \in DOMAIN commands' : i + 1 \in DOMAIN commands /\ commands'[i] = commands[i + 1]
          /\ \A i, j \in DOMAIN commands' : i + 1 = j + 1 => i = j
      BY <2>3, TailOfQueue
    <3>2. \A i \in DOMAIN commands' : IsForward(i)' =>
            IsForward(i + 1) /\ commands'[i].call = commands[i + 1].call
      BY <3>1 DEF IsForward
    <3>3. \A i \in DOMAIN commands' : IsForward(i)' =>
            /\ commands'[i].call \in FreshCalls'
            /\ \A n \in Minted : IsClient(n)' => pending'[n].call # commands'[i].call
      BY <1>0, <1>1, <3>1, <3>2 DEF CallsInv, QueuedCalls, ClientsKept
    <3>4. \A i, j \in DOMAIN commands' :
            IsForward(i)' /\ IsForward(j)' /\ commands'[i].call = commands'[j].call => i = j
      BY <3>1, <3>2 DEF CallsInv, QueuedCalls
    <3>. QED
      BY <2>1, <3>3, <3>4 DEF QueuedCalls
  <2>4. CASE commands' = <<>>
    BY <2>1, <2>4 DEF QueuedCalls
  <2>5. ASSUME NEW command \in Commands, command.kind # "Forward", commands' = Append(commands, command)
        PROVE  QueuedCalls'
    <3>1. \A i \in DOMAIN commands' :
            \/ i \in DOMAIN commands /\ commands'[i] = commands[i]
            \/ i = Len(commands) + 1 /\ commands'[i] = command
      BY <2>5, EndOfQueue
    <3>2. \A i \in DOMAIN commands' : IsForward(i)' => i \in DOMAIN commands /\ commands'[i] = commands[i]
      BY <2>5, <3>1 DEF IsForward
    <3>. QED
      BY <1>0, <1>1, <3>2 DEF CallsInv, QueuedCalls, ClientsKept, IsForward
  <2>. QED
    BY <1>1, <2>1, <2>2, <2>3, <2>4, <2>5 DEF ForwardsKept
<1>2. CASE CallsForgotten
  <2>1. FreshCalls' = FreshCalls
    BY <1>2 DEF CallsForgotten, FreshCalls
  <2>2. CallsEndOnce'
    BY <1>2 DEF CallsForgotten, CallsInv, CallsEndOnce
  <2>. QED
    BY <1>1, <1>2, <2>1, <2>2 DEF CallsForgotten, CallsInv
<1>3. CASE CallQueued
  <2>0. PICK c \in Call : c = nextCall
    BY <1>3 DEF CallQueued
  <2>1. FreshCalls \subseteq FreshCalls'
    <3>1. \A d \in Call : d < nextCall => d < nextCall'
      BY <1>0, <1>3 DEF CallQueued
    <3>. QED
      BY <1>3, <3>1 DEF CallQueued, FreshCalls
  <2>2. c \in FreshCalls' /\ c \notin FreshCalls
    BY <1>0, <1>3, <2>0 DEF CallQueued, FreshCalls, CallsInv, CallsEndOnce
  <2>3. MappedCalls'
    BY <1>0, <1>3, <2>1 DEF CallQueued, CallsInv, MappedCalls, ClientsKept
  <2>4. CallsEndOnce'
    BY <1>0, <1>3 DEF CallQueued, CallsInv, CallsEndOnce
  <2>5. ASSUME commands' = commands PROVE QueuedCalls'
    BY <1>0, <1>3, <2>1, <2>5 DEF CallQueued, CallsInv, QueuedCalls, ClientsKept, IsForward
  <2>6. ASSUME NEW id \in Id, commands' = Append(commands, ForClient("Forward", id, nextCall))
        PROVE  QueuedCalls'
    <3> DEFINE command == ForClient("Forward", id, nextCall)
    <3>1. \A i \in DOMAIN commands' :
            \/ i \in DOMAIN commands /\ commands'[i] = commands[i]
            \/ i = Len(commands) + 1 /\ commands'[i] = command
      BY <2>6, EndOfQueue
    <3>2. command.call = c /\ command.kind = "Forward"
      BY <2>0 DEF CallQueued, ForClient
    <3>3. \A i \in DOMAIN commands : IsForward(i) => commands[i].call # c
      BY <2>2 DEF CallsInv, QueuedCalls
    <3>4. \A n \in Minted : IsClient(n)' => pending'[n].call # c
      BY <1>3, <2>2 DEF CallQueued, ClientsKept, CallsInv, MappedCalls
    <3>5. \A i \in DOMAIN commands' : IsForward(i)' =>
            \/ i \in DOMAIN commands /\ IsForward(i) /\ commands'[i].call = commands[i].call
            \/ i = Len(commands) + 1 /\ commands'[i].call = c
      BY <3>1, <3>2 DEF IsForward
    <3>6. \A i \in DOMAIN commands' : IsForward(i)' =>
            /\ commands'[i].call \in FreshCalls'
            /\ \A n \in Minted : IsClient(n)' => pending'[n].call # commands'[i].call
      BY <1>0, <1>3, <2>1, <2>2, <3>4, <3>5, ZenonT(60) DEF CallQueued, ClientsKept, CallsInv, QueuedCalls
    <3>7. \A i, j \in DOMAIN commands' :
            IsForward(i)' /\ IsForward(j)' /\ commands'[i].call = commands'[j].call => i = j
      BY <3>3, <3>5 DEF CallsInv, QueuedCalls
    <3>. QED
      BY <3>6, <3>7 DEF QueuedCalls
  <2>. QED
    BY <1>3, <2>3, <2>4, <2>5, <2>6 DEF CallQueued, CallsInv
<1>4. ASSUME TakesForward, CallMapped \/ CallRefused PROVE CallsInv'
  <2>1. /\ 1 \in DOMAIN commands /\ Head(commands) = commands[1]
        /\ \A i \in DOMAIN commands' :
             i + 1 \in DOMAIN commands /\ i + 1 # 1 /\ commands'[i] = commands[i + 1]
        /\ \A i, j \in DOMAIN commands' : i + 1 = j + 1 => i = j
    BY <1>4, TailOfQueue DEF TakesForward
  <2>2. IsForward(1) /\ Head(commands).call \in Call /\ Head(commands).call \in FreshCalls
    BY <1>0, <1>4, <2>1 DEF TakesForward, IsForward, CallsInv, QueuedCalls
  <2>3. \A i \in DOMAIN commands' : IsForward(i)' => commands'[i].call # Head(commands).call
    BY <2>1, <2>2 DEF IsForward, CallsInv, QueuedCalls
  <2>4. \A n \in Minted : IsClient(n) => pending[n].call # Head(commands).call
    BY <2>1, <2>2 DEF CallsInv, QueuedCalls
  <2>5. CASE CallMapped
    <3>1. FreshCalls' = FreshCalls
      BY <2>5 DEF CallMapped, FreshCalls
    <3>2. CallsEndOnce'
      BY <2>5 DEF CallMapped, CallsInv, CallsEndOnce
    <3>3. PICK m \in Minted :
            /\ pending'[m] = Client(Head(commands).id, Head(commands).call)
            /\ \A n \in Minted \ {m} : IsClient(n)' => IsClient(n) /\ pending'[n] = pending[n]
      BY <2>5 DEF CallMapped
    <3>4. pending'[m].call = Head(commands).call
      BY <3>3 DEF Client
    <3>5. \A n \in Minted : IsClient(n)' =>
            \/ n = m /\ pending'[n].call = Head(commands).call
            \/ n # m /\ IsClient(n) /\ pending'[n].call = pending[n].call
      BY <3>3, <3>4
    <3>6. MappedCalls'
      BY <2>2, <2>4, <3>1, <3>5 DEF CallsInv, MappedCalls
    <3>7. QueuedCalls'
      BY <2>1, <2>3, <3>1, <3>5 DEF CallsInv, QueuedCalls, IsForward
    <3>. QED
      BY <3>2, <3>6, <3>7 DEF CallsInv
  <2>6. CASE CallRefused
    <3>1. \A c \in FreshCalls \ FreshCalls' : c = Head(commands).call
      BY <1>0, <2>2, <2>6 DEF CallRefused, FreshCalls, TypeOK
    <3>2. CallsEndOnce'
      BY <1>0, <2>2, <2>6 DEF CallRefused, CallsInv, CallsEndOnce, FreshCalls, TypeOK
    <3>3. ForwardsKept /\ ClientsKept
      BY <2>6 DEF CallRefused, TakesForward, ForwardsKept
    <3>4. \A n \in Minted : IsClient(n)' => pending'[n].call # Head(commands).call
      BY <2>4, <3>3 DEF ClientsKept
    <3>5. QueuedCalls' /\ MappedCalls'
      BY <1>1, <2>3, <3>1, <3>3, <3>4
    <3>. QED
      BY <3>2, <3>5 DEF CallsInv
  <2>. QED
    BY <1>4, <2>5, <2>6
<1>5. ASSUME NEW m \in Minted, CallWithdrawn(m) \/ CallAnswered(m) PROVE CallsInv'
  <2> DEFINE c == pending[m].call
  <2>1. IsClient(m) /\ c \in Call /\ c \in FreshCalls
    BY <1>0, <1>5 DEF CallWithdrawn, CallAnswered, CallUnmapped, CallsInv, MappedCalls
  <2>2. \A d \in FreshCalls \ FreshCalls' : d = c
    BY <1>0, <1>5, <2>1 DEF CallWithdrawn, CallAnswered, FreshCalls, TypeOK
  <2>3. CallsEndOnce'
    <3>1. c < nextCall /\ c \notin withdrawn /\ replied[c] = 0
      BY <2>1 DEF FreshCalls
    <3>2. \A d \in Call : d >= nextCall => d # c
      BY <1>0, <2>1, <3>1 DEF TypeOK, Call
    <3>3. CASE CallWithdrawn(m)
      <4>1. replied' = replied /\ withdrawn' = withdrawn \cup {c} /\ nextCall' = nextCall
        BY <3>3 DEF CallWithdrawn
      <4>. SUFFICES ASSUME NEW d \in Call
                   PROVE  /\ replied[d] <= (IF d \in withdrawn \cup {c} THEN 0 ELSE 1)
                          /\ d >= nextCall => replied[d] = 0 /\ d \notin withdrawn \cup {c}
        BY <4>1 DEF CallsEndOnce
      <4>. QED
        BY <3>1, <3>2 DEF CallsInv, CallsEndOnce
    <3>4. CASE CallAnswered(m)
      <4>1. /\ withdrawn' = withdrawn /\ nextCall' = nextCall /\ replied'[c] = 1
            /\ \A d \in Call \ {c} : replied'[d] = replied[d]
        BY <1>0, <2>1, <3>1, <3>4 DEF CallAnswered, TypeOK
      <4>. SUFFICES ASSUME NEW d \in Call
                   PROVE  /\ replied'[d] <= (IF d \in withdrawn THEN 0 ELSE 1)
                          /\ d >= nextCall => replied'[d] = 0 /\ d \notin withdrawn
        BY <4>1 DEF CallsEndOnce
      <4>. QED
        BY <3>1, <3>2, <4>1 DEF CallsInv, CallsEndOnce
    <3>. QED
      BY <1>5, <3>3, <3>4
  <2>4. ForwardsKept /\ ClientsKept /\ ~IsClient(m)'
    BY <1>5 DEF CallWithdrawn, CallAnswered, CallUnmapped
  <2>5. \A n \in Minted : IsClient(n)' => pending'[n].call # c
    BY <2>1, <2>4 DEF ClientsKept, CallsInv, MappedCalls
  <2>6. \A i \in DOMAIN commands : IsForward(i) => commands[i].call # c
    BY <2>1 DEF CallsInv, QueuedCalls
  <2>7. \A i \in DOMAIN commands' : IsForward(i)' => commands'[i].call # c
    BY <2>4, <2>6, TailOfQueue, EndOfQueue DEF ForwardsKept, IsForward
  <2>8. QueuedCalls' /\ MappedCalls'
    BY <1>1, <2>2, <2>4, <2>5, <2>7
  <2>. QED
    BY <2>3, <2>8 DEF CallsInv
<1>. QED
  BY <1>2, <1>3, <1>4, <1>5 DEF CallMove, CallMapped, CallRefused

\* AnsweredOrWithdrawn: at most one answer to a call, none after its cancellation was
\* taken, and no minted id leads to a call that has had either.
THEOREM CallsEndOnceHere == Spec => []AnsweredOrWithdrawn
<1>1. Init => CallsInv
  BY ConnectionAssumption
  DEF Init, CallsInv, QueuedCalls, MappedCalls, CallsEndOnce, IsClient, Minted, Call
<1>2. TypeOK /\ IndexesAgree /\ CallsInv /\ [Next]_vars => CallsInv'
  BY WhichCallMove, CallMoveKeepsCalls
<1>3. CallsInv => AnsweredOrWithdrawn
  BY DEF CallsInv, CallsEndOnce, MappedCalls, FreshCalls, AnsweredOrWithdrawn
<1>. QED
  BY <1>1, <1>2, <1>3, TypesAndIndexes, PTL DEF Spec

-----------------------------------------------------------------------------
(* Tokens *)

TokensInv == TokensAreCounted /\ \A n \in Minted : n >= nextId => tokenOf[n] = None

\* What a step can do to tokens.
TokensKept == UNCHANGED tokenVars /\ nextId' \in {nextId, nextId + 1}
TokenCarried ==
  nextId \in Minted /\ nextId' = nextId + 1 /\ \E token \in Optional(Token) : CarryToken(nextId, token)
TokenReleased == nextId' = nextId /\ \E n \in Minted : ReleaseToken(n)
TokenMove == TokensKept \/ TokenCarried \/ TokenReleased

LEMMA WhichTokenMove ==
  ASSUME TypeOK, IndexesAgree, [Next]_vars PROVE TokenMove
<1>. USE DEF mapVars, TokenMove
<1>1. CASE UNCHANGED vars \/ Session \/ \E k \in Caller : Ask(k) \/ Enqueue(k) \/ Timeout(k)
  BY <1>1 DEF vars, Session, ForwardCall, CancelCall, Serve, UpstreamEnds, EndSession, Ask, Enqueue,
              Timeout, CallerIs, TokensKept
<1>2. CASE SendForward
  <2>1. nextId \in Minted
    BY <1>2, ConnectionAssumption DEF SendForward, InsertClient, TypeOK, Minted
  <2>. QED
    BY <1>2, <2>1 DEF SendForward, InsertClient, TokenCarried
<1>3. CASE RejectForward \/ SendRequest
  BY <1>3 DEF RejectForward, SendRequest, InsertAndCancel, InsertInternal, TokensKept
<1>4. CASE CancelForward
  <2>1. byClient[Head(commands).id] # None => byClient[Head(commands).id] \in Minted
    BY <1>4, ForwardTypes DEF CancelForward, Take, TypeOK, Optional
  <2>. QED
    BY <1>4, <2>1, CancelRemoves DEF CancelForward, Removed, TokensKept, TokenReleased
<1>5. CASE SendFails \/ Stop \/ TransportEnds \/ EmitFails \/ EmitHeld
  BY <1>5 DEF SendFails, Stop, TransportEnds, EmitFails, EmitHeld, Leave, TokensKept
<1>6. CASE \E n \in Minted : Respond(n)
  BY <1>6, RespondRemoves DEF Respond, Removed, TokenReleased
<1>7. CASE ReportProgress \/ SayListChanged \/ ReplyFails \/ ReportEnd \/ CloseTransport \/ AbortTask \/ Exited
  BY <1>7 DEF ReportProgress, SayListChanged, ReplyFails, ReportEnd, CloseTransport, AbortTask, Exited,
              vars, TokensKept
<1>. QED
  BY <1>1, <1>2, <1>3, <1>4, <1>5, <1>6, <1>7 DEF Next, HandleCommand, HandleFrame

LEMMA CarryingIsFinite ==
  ASSUME NEW token PROVE IsFiniteSet(Carrying(token))
<1>1. IsFiniteSet(Minted)
  BY ConnectionAssumption, FS_Interval DEF Minted
<1>. QED
  BY <1>1, FS_Subset DEF Carrying

LEMMA TokenMoveKeepsCounts ==
  ASSUME TypeOK, TokensInv, TokenMove PROVE TokensInv'
<1>0. /\ nextId \in Int /\ Minted \subseteq Int /\ None \notin Token
      /\ tokenOf \in [Minted -> Optional(Token)] /\ tokenCounts \in [Token -> Int]
  BY ConnectionAssumption DEF TypeOK, Minted
<1>1. CASE TokensKept
  BY <1>0, <1>1 DEF TokensKept, tokenVars, TokensInv, TokensAreCounted, Carrying
<1>2. CASE TokenCarried
  <2>1. PICK carried \in Optional(Token) : CarryToken(nextId, carried)
    BY <1>2 DEF TokenCarried
  <2>2. nextId \in Minted /\ nextId' = nextId + 1 /\ tokenOf[nextId] = None
    BY <1>0, <1>2 DEF TokenCarried, TokensInv
  <2>3. \A n \in Minted : n >= nextId' => tokenOf'[n] = None
    BY <1>0, <2>1, <2>2 DEF CarryToken, TokensInv
  <2>4. ASSUME NEW token \in Token PROVE tokenCounts'[token] = Cardinality(Carrying(token)')
    <3>1. tokenCounts[token] = Cardinality(Carrying(token))
      BY DEF TokensInv, TokensAreCounted
    <3>2. CASE token = carried
      <4>1. Carrying(token)' = Carrying(token) \cup {nextId} /\ nextId \notin Carrying(token)
        BY <1>0, <2>1, <2>2, <3>2 DEF CarryToken, Carrying
      <4>2. Cardinality(Carrying(token)') = Cardinality(Carrying(token)) + 1
        BY <4>1, CarryingIsFinite, FS_AddElement
      <4>3. tokenCounts'[token] = tokenCounts[token] + 1
        BY <2>1, <3>2 DEF CarryToken
      <4>. QED
        BY <3>1, <4>2, <4>3
    <3>3. CASE token # carried
      <4>1. Carrying(token)' = Carrying(token)
        BY <1>0, <2>1, <2>2, <3>3 DEF CarryToken, Carrying
      <4>2. tokenCounts'[token] = tokenCounts[token]
        BY <1>0, <2>1, <3>3 DEF CarryToken
      <4>. QED
        BY <3>1, <4>1, <4>2
    <3>. QED
      BY <3>2, <3>3
  <2>. QED
    BY <2>3, <2>4 DEF TokensInv, TokensAreCounted
<1>3. CASE TokenReleased
  <2>1. PICK m \in Minted : ReleaseToken(m)
    BY <1>3 DEF TokenReleased
  <2>2. \A n \in Minted : n >= nextId' => tokenOf'[n] = None
    BY <1>0, <1>3, <2>1 DEF TokenReleased, ReleaseToken, TokensInv
  <2>3. ASSUME NEW token \in Token PROVE tokenCounts'[token] = Cardinality(Carrying(token)')
    <3>1. tokenCounts[token] = Cardinality(Carrying(token))
      BY DEF TokensInv, TokensAreCounted
    <3>2. CASE token = tokenOf[m]
      <4>1. Carrying(token)' = Carrying(token) \ {m} /\ m \in Carrying(token)
        BY <1>0, <2>1, <3>2 DEF ReleaseToken, Carrying
      <4>2. Cardinality(Carrying(token)') = Cardinality(Carrying(token)) - 1
        BY <4>1, CarryingIsFinite, FS_RemoveElement
      <4>3. tokenCounts'[token] = tokenCounts[token] - 1
        BY <2>1, <3>2 DEF ReleaseToken
      <4>. QED
        BY <3>1, <4>2, <4>3
    <3>3. CASE token # tokenOf[m]
      <4>1. Carrying(token)' = Carrying(token)
        BY <1>0, <2>1, <3>3 DEF ReleaseToken, Carrying
      <4>2. tokenCounts'[token] = tokenCounts[token]
        BY <1>0, <2>1, <3>3 DEF ReleaseToken
      <4>. QED
        BY <3>1, <4>1, <4>2
    <3>. QED
      BY <3>2, <3>3
  <2>. QED
    BY <2>2, <2>3 DEF TokensInv, TokensAreCounted
<1>. QED
  BY <1>1, <1>2, <1>3 DEF TokenMove

\* TokensAreCounted: the count of a token is the number of requests that were sent with
\* it and have not released it, however they share and release it.
THEOREM TokenCountsAreRight == Spec => []TokensAreCounted
<1>1. Init => TokensInv
  <2>. SUFFICES ASSUME Init PROVE TokensInv
    OBVIOUS
  <2>1. \A token \in Token : Carrying(token) = {}
    BY ConnectionAssumption DEF Init, Carrying
  <2>. QED
    BY <2>1, FS_EmptySet DEF Init, TokensInv, TokensAreCounted
<1>2. TypeOK /\ IndexesAgree /\ TokensInv /\ [Next]_vars => TokensInv'
  BY WhichTokenMove, TokenMoveKeepsCounts
<1>3. TokensInv => TokensAreCounted
  BY DEF TokensInv
<1>. QED
  BY <1>1, <1>2, <1>3, TypesAndIndexes, PTL DEF Spec

-----------------------------------------------------------------------------
(* Tasks that wait *)

\* A request of a caller's is in the queue.
Requested(k) == \E i \in DOMAIN commands : commands[i] = [kind |-> "Request", caller |-> k]
Awaited(k) == \E n \in Minted : pending[n] = Internal(k)

\* Besides: once the session is over nobody waits, so an aborted actor strands nobody.
CallersInv ==
  /\ \A k \in Caller : callers[k] = "waiting" => Requested(k) \/ Awaited(k)
  /\ task # "running" => \A n \in Minted : pending[n] = None
  /\ over => \A k \in Caller : callers[k] \notin {"sending", "waiting"}

LEMMA PutKeepsRequests ==
  ASSUME TypeOK, NEW command, commands' = Append(commands, command), NEW k
  PROVE  /\ Requested(k) => Requested(k)'
         /\ command = [kind |-> "Request", caller |-> k] => Requested(k)'
<1>1. /\ \A i \in DOMAIN commands : i \in DOMAIN commands' /\ commands'[i] = commands[i]
      /\ Len(commands) + 1 \in DOMAIN commands' /\ commands'[Len(commands) + 1] = command
  <2>1. commands \in Seq(Commands)
    BY DEF TypeOK
  <2>. QED
    BY <2>1
<1>. QED
  BY <1>1 DEF Requested

LEMMA TakeKeepsRequests ==
  ASSUME TypeOK, commands # <<>>, commands' = Tail(commands), NEW k,
         Head(commands) # [kind |-> "Request", caller |-> k]
  PROVE  Requested(k) => Requested(k)'
<1>. SUFFICES ASSUME NEW i \in DOMAIN commands, commands[i] = [kind |-> "Request", caller |-> k]
             PROVE  Requested(k)'
  BY DEF Requested
<1>1. i \in 1 .. Len(commands) /\ Len(commands) \in Nat /\ Head(commands) = commands[1]
  BY DEF TypeOK
<1>2. i # 1
  BY <1>1
<1>3. i - 1 \in DOMAIN Tail(commands) /\ Tail(commands)[i - 1] = commands[i]
  BY <1>1, <1>2 DEF TypeOK
<1>. QED
  BY <1>3 DEF Requested

LEMMA LeaveTellsCallers ==
  ASSUME TypeOK, CallersInv, task = "running",
         NEW next \in {"reporting", "closing"}, NEW told, Leave(next, told),
         \A k \in Caller : Requested(k) => Requested(k)' \/ k \in told
  PROVE  CallersInv'
<1>1. task' # "running" /\ (\A n \in Minted : pending'[n] = None) /\ over' = over
  BY DEF Leave, sessionVars
<1>2. ASSUME NEW k \in Caller, callers'[k] = "waiting"
      PROVE  callers[k] = "waiting" /\ ~Awaited(k) /\ k \notin told
  BY <1>2 DEF Leave, Resolve, Awaited
<1>3. \A k \in Caller : callers'[k] = "waiting" => Requested(k)'
  BY <1>2 DEF CallersInv
<1>4. over' => \A k \in Caller : callers'[k] \notin {"sending", "waiting"}
  BY <1>1 DEF Leave, Resolve, CallersInv
<1>. QED
  BY <1>1, <1>3, <1>4 DEF CallersInv

LEMMA CallersStep ==
  ASSUME TypeOK, IndexesAgree, CallersInv, held # None => task = "running", [Next]_vars
  PROVE  CallersInv'
<1>. USE DEF mapVars, sessionVars
<1>1. CASE UNCHANGED vars \/ Exited
  BY <1>1 DEF vars, Exited, CallersInv, Requested, Awaited
<1>2. ASSUME NEW id \in Id, ForwardCall(id) \/ CancelCall(id) PROVE CallersInv'
  <2>1. \A k \in Caller : Requested(k) => Requested(k)'
    BY <1>2, PutKeepsRequests DEF ForwardCall, CancelCall, Put, Requested
  <2>. QED
    BY <1>2, <2>1 DEF ForwardCall, CancelCall, CallersInv, Awaited
<1>3. CASE EndSession \/ UpstreamEnds
  BY <1>3 DEF UpstreamEnds, EndSession, CallersInv
<1>4. ASSUME NEW caller \in Caller, Ask(caller) \/ Enqueue(caller) \/ Timeout(caller) PROVE CallersInv'
  <2>1. \A k \in Caller : Requested(k) => Requested(k)'
    BY <1>4, PutKeepsRequests DEF Ask, Enqueue, Timeout, Put, Requested
  <2>2. \A k \in Caller \ {caller} : callers'[k] = callers[k]
    <3>1. \E state : callers' = [callers EXCEPT ![caller] = state]
      BY <1>4 DEF Ask, Enqueue, Timeout, CallerIs
    <3>. QED
      BY <3>1 DEF TypeOK
  <2>3. UNCHANGED <<pending, task, over>>
    BY <1>4 DEF Ask, Enqueue, Timeout, CallerIs
  <2>4. callers \in [Caller -> CallerStates]
    BY DEF TypeOK
  <2>5. callers'[caller] = "waiting" => Requested(caller)'
    <3>1. CASE Enqueue(caller)
      BY <3>1, PutKeepsRequests DEF Enqueue, Put
    <3>2. CASE Ask(caller) \/ Timeout(caller)
      BY <3>2, <2>4 DEF Ask, Timeout, CallerIs
    <3>. QED
      BY <1>4, <3>1, <3>2
  <2>6. ~over
    BY <1>4 DEF Ask, Enqueue, Timeout, CallersInv
  <2>. QED
    BY <2>1, <2>2, <2>3, <2>5, <2>6 DEF CallersInv, Awaited
<1>5. CASE SendForward \/ RejectForward \/ CancelForward
  <2>1. \A k \in Caller : Requested(k) => Requested(k)'
    <3>1. commands # <<>> /\ commands' = Tail(commands) /\ Head(commands).kind # "Request"
      BY <1>5 DEF SendForward, RejectForward, CancelForward, Take
    <3>2. \A k \in Caller : Head(commands) # [kind |-> "Request", caller |-> k]
      BY <3>1
    <3>. QED
      BY <3>1, <3>2, TakeKeepsRequests
  <2>2. \A k \in Caller : Awaited(k) => Awaited(k)'
    <3>0. Head(commands).id \in Id
      BY <1>5, ForwardTypes DEF SendForward, RejectForward, CancelForward, Take
    <3>. SUFFICES ASSUME NEW k \in Caller, NEW n \in Minted, pending[n] = Internal(k)
                  PROVE  pending'[n] = Internal(k)
      BY DEF Awaited
    <3>1. pending[n] # None /\ pending[n].kind = "internal"
      BY ConnectionAssumption DEF Internal, Entries
    <3>2. n # byClient[Head(commands).id] /\ n # nextId
      BY <3>0, <3>1 DEF IndexesAgree, IsClient, TypeOK
    <3>. QED
      BY <1>5, <3>2, CancelRemoves DEF SendForward, RejectForward, CancelForward, InsertClient, InsertAndCancel,
                                       mapVars, Removed, TypeOK
  <2>3. task = "running" /\ UNCHANGED <<callers, over, task>>
    BY <1>5 DEF SendForward, RejectForward, CancelForward, Take, Ready, Elsewhere
  <2>. QED
    BY <2>1, <2>2, <2>3 DEF CallersInv
<1>6. CASE SendRequest
  <2>0. PICK caller \in Caller : caller = Head(commands).caller
    BY <1>6, HeadTypes DEF SendRequest, Take, Commands, Requests
  <2>1. nextId \in Minted /\ pending[nextId] = None
    <3>1. nextId \in Minted
      BY <1>6, ConnectionAssumption DEF SendRequest, InsertInternal, TypeOK, Minted
    <3>. QED
      BY <3>1 DEF IndexesAgree, TypeOK, Minted
  <2>2. \A k \in Caller \ {caller} : Requested(k) => Requested(k)'
    <3>1. \A k \in Caller \ {caller} : Head(commands) # [kind |-> "Request", caller |-> k]
      BY <2>0
    <3>. QED
      BY <1>6, <3>1, TakeKeepsRequests DEF SendRequest, Take
  <2>3. pending' = [pending EXCEPT ![nextId] = Internal(caller)]
    BY <1>6, <2>0 DEF SendRequest, InsertInternal
  <2>4. Awaited(caller)' /\ \A k \in Caller : Awaited(k) => Awaited(k)'
    <3>1. \A k \in Caller : Internal(k) # None
      BY ConnectionAssumption DEF Internal, Entries
    <3>. QED
      BY <2>1, <2>3, <3>1 DEF Awaited, TypeOK
  <2>5. task = "running" /\ UNCHANGED <<callers, over, task>>
    BY <1>6 DEF SendRequest, Take, Ready, Elsewhere
  <2>. QED
    BY <2>2, <2>4, <2>5 DEF CallersInv
<1>7. CASE SendFails
  <2>1. task = "running" /\ commands # <<>> /\ commands' = Tail(commands) /\ Head(commands) \in Commands
    BY <1>7, HeadTypes DEF SendFails, Ready
  <2>2. CASE Head(commands).kind # "Request" /\ Leave("reporting", {})
    <3>1. \A k \in Caller : Requested(k) => Requested(k)'
      <4>1. \A k \in Caller : Head(commands) # [kind |-> "Request", caller |-> k]
        BY <2>2
      <4>. QED
        BY <2>1, <4>1, TakeKeepsRequests
    <3>. QED
      BY <2>1, <2>2, <3>1, LeaveTellsCallers
  <2>3. CASE Head(commands).kind = "Request" /\ Leave("reporting", {Head(commands).caller})
    <3>1. ASSUME NEW k \in Caller, k # Head(commands).caller PROVE Requested(k) => Requested(k)'
      <4>1. Head(commands) # [kind |-> "Request", caller |-> k]
        BY <3>1
      <4>. QED
        BY <2>1, <4>1, TakeKeepsRequests
    <3>. QED
      BY <2>1, <2>3, <3>1, LeaveTellsCallers
  <2>. QED
    BY <1>7, <2>2, <2>3 DEF SendFails
<1>8. CASE Stop
  <2>1. \A k \in Caller : Requested(k) => Requested(k)'
    BY <1>8, TakeKeepsRequests DEF Stop, Take, Requested
  <2>. QED
    BY <1>8, <2>1, LeaveTellsCallers DEF Stop, Take, Ready
<1>9. CASE TransportEnds \/ EmitFails \/ (EmitHeld /\ held.event.kind = "Ended")
  <2>1. \A k \in Caller : Requested(k) => Requested(k)'
    BY <1>9 DEF TransportEnds, EmitFails, EmitHeld, Requested
  <2>. QED
    BY <1>9, <2>1, LeaveTellsCallers DEF TransportEnds, EmitFails, EmitHeld, Ready
<1>10. ASSUME NEW n \in Minted, Respond(n) PROVE CallersInv'
  <2>1. \A k \in Caller : Requested(k)' = Requested(k)
    BY <1>10 DEF Respond, Requested
  <2>2. pending' = [pending EXCEPT ![n] = None] /\ task = "running" /\ task' = task /\ over' = over
    BY <1>10, RespondRemoves DEF Respond, Removed, Ready
  <2>3. \A k \in Caller : callers[k] \notin {"sending", "waiting"} => callers'[k] \notin {"sending", "waiting"}
    BY <1>10 DEF Respond, Resolve
  <2>4. CASE pending[n].kind = "client"
    <3>1. \A k \in Caller : pending[n] # Internal(k)
      BY <2>4 DEF Internal
    <3>2. \A k \in Caller : Awaited(k) => Awaited(k)'
      BY <2>2, <3>1 DEF Awaited, TypeOK
    <3>. QED
      BY <1>10, <2>1, <2>2, <2>4, <3>2 DEF Respond, CallersInv
  <2>5. CASE pending[n].kind = "internal"
    <3>1. ASSUME NEW k \in Caller, callers'[k] = "waiting" PROVE callers[k] = "waiting" /\ k # pending[n].caller
      BY <1>10, <2>5, <3>1 DEF Respond, Resolve
    <3>2. ASSUME NEW k \in Caller, k # pending[n].caller PROVE Awaited(k) => Awaited(k)'
      <4>1. pending[n] # Internal(k)
        BY <3>2 DEF Internal
      <4>. QED
        BY <2>2, <4>1 DEF Awaited, TypeOK
    <3>. QED
      BY <2>1, <2>2, <2>3, <3>1, <3>2 DEF CallersInv
  <2>. QED
    BY <1>10, <2>4, <2>5 DEF Respond
<1>11. CASE Serve \/ ReportProgress \/ SayListChanged \/ ReplyFails \/ ReportEnd
           \/ (EmitHeld /\ held.event.kind # "Ended")
  BY <1>11 DEF Serve, ReportProgress, SayListChanged, ReplyFails, ReportEnd, EmitHeld, Ready, Elsewhere,
               CallersInv, Requested, Awaited
<1>12. CASE CloseTransport
  <2>1. \A k \in Caller : ~Awaited(k)
    BY <1>12, ConnectionAssumption DEF CloseTransport, CallersInv, Awaited, Internal, Entries
  <2>2. \A k \in Caller : callers'[k] # "waiting"
    BY <1>12, <2>1 DEF CloseTransport, CallersInv, Requested
  <2>. QED
    BY <1>12, <2>2 DEF CloseTransport, CallersInv
<1>13. CASE AbortTask
  BY <1>13 DEF AbortTask, Elsewhere, CallersInv
<1>. QED
  BY <1>1, <1>2, <1>3, <1>4, <1>5, <1>6, <1>7, <1>8, <1>9, <1>10, <1>11, <1>12, <1>13
  DEF Next, Session, HandleCommand, HandleFrame

\* A handler waits only while the loop runs.
HeldWhileRunning == held # None => task = "running"

LEMMA HeldStep == TypeOK /\ HeldWhileRunning /\ [Next]_vars => HeldWhileRunning'
BY DEF HeldWhileRunning, Next, vars, Session, ForwardCall, CancelCall, Serve, UpstreamEnds, EndSession,
       Ask, Enqueue, Timeout, CallerIs, HandleCommand, SendForward, RejectForward, CancelForward,
       SendRequest, SendFails, Stop, HandleFrame, Respond, ReportProgress, SayListChanged, ReplyFails,
       TransportEnds, EmitHeld, EmitFails, ReportEnd, CloseTransport, AbortTask, Exited, Leave, Take,
       Ready

\* CallersAreKnown: a task in Handle::call waits for an answer only while its request is
\* queued or mapped, and a loop that was left has nothing mapped.
THEOREM NoCallerIsStranded == Spec => []CallersAreKnown
<1>1. Init => CallersInv /\ HeldWhileRunning
  BY DEF Init, CallersInv, HeldWhileRunning
<1>2. TypeOK /\ IndexesAgree /\ CallersInv /\ HeldWhileRunning /\ [Next]_vars
        => CallersInv' /\ HeldWhileRunning'
  BY CallersStep, HeldStep DEF HeldWhileRunning
<1>3. CallersInv => CallersAreKnown
  BY DEF CallersInv, CallersAreKnown, Requested, Awaited
<1>. QED
  BY <1>1, <1>2, <1>3, TypesAndIndexes, PTL DEF Spec

-----------------------------------------------------------------------------
(* Cancellations *)

IsForwardOf(i, id) == commands[i].kind = "Forward" /\ commands[i].id = id

\* Once the first m commands are taken, id stands for call c or for nothing: c is
\* the last of them to use id, or none does and id has this meaning already.
StandsFor(id, c, m) ==
  \/ \E i \in 1 .. m : /\ IsForwardOf(i, id) /\ commands[i].call = c
                       /\ \A j \in i + 1 .. m : ~IsForwardOf(j, id)
  \/ /\ \A i \in 1 .. m : ~IsForwardOf(i, id)
     /\ Mapped(id) \in {None, c}

CancelsInv ==
  /\ \A i \in DOMAIN commands, id \in Id, c \in Call, m \in Nat :
       commands[i] = ForClient("Cancel", id, c) /\ i = m + 1 => StandsFor(id, c, m)
  /\ \A id \in Id, c \in Call, m \in Nat :
       claimed[id] = c /\ m = Len(commands) => StandsFor(id, c, m)

\* What a step can do to the meaning of an id, without and with a command taken.
MeaningKept == \A id \in Id : Mapped(id)' \in {None, Mapped(id)}
MeaningMoved ==
  \A id \in Id : IF IsForwardOf(1, id) THEN Mapped(id)' \in {None, commands[1].call}
                                       ELSE Mapped(id)' \in {None, Mapped(id)}

LEMMA MapMovesKeepMeaning ==
  ASSUME TypeOK, IndexesAgree,
         \/ MapKept \/ MapDrained
         \/ \E id \in Id : InsertAndCancel(id)
         \/ \E k \in Caller : InsertInternal(k)
         \/ \E n \in Minted : Removed(n)
  PROVE  MeaningKept
<1>. USE DEF MeaningKept, Mapped
<1>1. CASE MapKept \/ MapDrained
  BY <1>1 DEF MapKept, MapDrained
<1>2. ASSUME NEW id \in Id, InsertAndCancel(id) PROVE MeaningKept
  <2>1. \A x \in Id : byClient[x] # None => byClient[x] \in Minted /\ pending[byClient[x]].id = x
    BY DEF IndexesAgree, TypeOK, Optional
  <2>2. \A x \in Id \ {id} : byClient[x] # None => byClient[x] # byClient[id] /\ byClient[x] \in Minted
    BY <2>1
  <2>. QED
    BY <1>2, <2>2 DEF InsertAndCancel, TypeOK
<1>3. ASSUME NEW k \in Caller, InsertInternal(k) PROVE MeaningKept
  <2>1. \A x \in Id : byClient[x] # None => byClient[x] # nextId /\ byClient[x] \in Minted
    BY ConnectionAssumption DEF IndexesAgree, IsClient, TypeOK, Optional, Minted
  <2>. QED
    BY <1>3, <2>1 DEF InsertInternal, TypeOK
<1>4. ASSUME NEW n \in Minted, Removed(n) PROVE MeaningKept
  BY <1>4 DEF Removed, TypeOK, Optional
<1>. QED
  BY <1>1, <1>2, <1>3, <1>4

LEMMA InsertMovesMeaning ==
  ASSUME TypeOK, IndexesAgree, NEW id \in Id, NEW c \in Call, InsertClient(id, c)
  PROVE  Mapped(id)' = c /\ \A x \in Id \ {id} : Mapped(x)' = Mapped(x)
<1>1. nextId \in Minted /\ None \notin Minted
  BY ConnectionAssumption DEF InsertClient, TypeOK, Minted
<1>2. \A x \in Id \ {id} : byClient[x] # None =>
        byClient[x] # nextId /\ byClient[x] # byClient[id] /\ byClient[x] \in Minted
  <2>1. \A x \in Id : byClient[x] # None => byClient[x] \in Minted /\ pending[byClient[x]].id = x
    BY DEF IndexesAgree, TypeOK, Optional
  <2>2. \A x \in Id : byClient[x] # None => byClient[x] # nextId
    BY ConnectionAssumption DEF IndexesAgree, IsClient, TypeOK, Optional, Minted
  <2>. QED
    BY <2>1, <2>2
<1>3. byClient'[id] = nextId /\ pending'[nextId].call = c
  BY <1>1 DEF InsertClient, TypeOK, Client
<1>4. \A x \in Id \ {id} : byClient'[x] = byClient[x]
  BY DEF InsertClient, TypeOK
<1>. QED
  BY <1>1, <1>2, <1>3, <1>4 DEF InsertClient, Mapped

LEMMA StandsAfterTake ==
  ASSUME TypeOK, commands # <<>>, commands' = Tail(commands), MeaningMoved,
         NEW id \in Id, NEW c \in Call, NEW m \in Nat, NEW n \in Nat, n = m + 1, n <= Len(commands),
         StandsFor(id, c, n)
  PROVE  StandsFor(id, c, m)'
<1>. DEFINE After(i) == commands'[i].kind = "Forward" /\ commands'[i].id = id
<1>0. /\ \A i \in 1 .. m : i + 1 \in 2 .. n /\ commands'[i] = commands[i + 1]
      /\ \A i \in 2 .. n : i - 1 \in 1 .. m /\ commands'[i - 1] = commands[i]
      /\ 1 \in 1 .. n
  BY DEF TypeOK
<1>1. \A i \in 1 .. m : After(i) <=> IsForwardOf(i + 1, id)
  BY <1>0 DEF IsForwardOf
<1>2. CASE \E i \in 2 .. n : /\ IsForwardOf(i, id) /\ commands[i].call = c
                                 /\ \A j \in i + 1 .. n : ~IsForwardOf(j, id)
  <2>1. PICK i \in 2 .. n : /\ IsForwardOf(i, id) /\ commands[i].call = c
                                /\ \A j \in i + 1 .. n : ~IsForwardOf(j, id)
    BY <1>2
  <2>2. i - 1 \in 1 .. m /\ After(i - 1) /\ commands'[i - 1].call = c
    BY <1>0, <2>1 DEF IsForwardOf
  <2>3. \A j \in (i - 1) + 1 .. m : ~After(j)
    <3>1. \A j \in (i - 1) + 1 .. m : j \in 1 .. m /\ j + 1 \in i + 1 .. n
      BY <2>1
    <3>. QED
      BY <1>1, <2>1, <3>1
  <2>. QED
    BY <2>2, <2>3 DEF StandsFor, IsForwardOf
<1>3. CASE IsForwardOf(1, id) /\ commands[1].call = c /\ \A j \in 1 + 1 .. n : ~IsForwardOf(j, id)
  <2>1. \A i \in 1 .. m : ~After(i)
    BY <1>0, <1>1, <1>3
  <2>2. Mapped(id)' \in {None, c}
    BY <1>3 DEF MeaningMoved
  <2>. QED
    BY <2>1, <2>2 DEF StandsFor, IsForwardOf
<1>4. CASE (\A i \in 1 .. n : ~IsForwardOf(i, id)) /\ Mapped(id) \in {None, c}
  <2>1. \A i \in 1 .. m : ~After(i)
    BY <1>0, <1>1, <1>4
  <2>2. Mapped(id)' \in {None, c}
    BY <1>0, <1>4 DEF MeaningMoved
  <2>. QED
    BY <2>1, <2>2 DEF StandsFor, IsForwardOf
<1>5. \A i \in 1 .. n : i = 1 \/ i \in 2 .. n
  OBVIOUS
<1>. QED
  BY <1>2, <1>3, <1>4, <1>5 DEF StandsFor

\* A queue that is kept up to m, or emptied.
LEMMA StandsAfterPut ==
  ASSUME TypeOK, MeaningKept, NEW id \in Id, NEW c \in Call, NEW m \in Nat, StandsFor(id, c, m),
         \A i \in 1 .. m : commands'[i] = commands[i]
  PROVE  StandsFor(id, c, m)'
<1>1. CASE \E i \in 1 .. m : /\ IsForwardOf(i, id) /\ commands[i].call = c
                             /\ \A j \in i + 1 .. m : ~IsForwardOf(j, id)
  <2>1. PICK i \in 1 .. m : /\ IsForwardOf(i, id) /\ commands[i].call = c
                            /\ \A j \in i + 1 .. m : ~IsForwardOf(j, id)
    BY <1>1
  <2>2. \A j \in i + 1 .. m : j \in 1 .. m
    BY <2>1
  <2>. QED
    BY <2>1, <2>2 DEF StandsFor, IsForwardOf
<1>2. CASE (\A i \in 1 .. m : ~IsForwardOf(i, id)) /\ Mapped(id) \in {None, c}
  BY <1>2 DEF MeaningKept, StandsFor, IsForwardOf
<1>. QED
  BY <1>1, <1>2 DEF StandsFor

\* What a step can do to commands, meanings and claims.
ClaimsKept == \A id \in Id : claimed'[id] \in {None, claimed[id]}

CommandTaken == commands # <<>> /\ commands' = Tail(commands) /\ MeaningMoved /\ ClaimsKept
QueueKept == commands' = commands /\ MeaningKept /\ ClaimsKept
QueueLost == commands' = <<>> /\ (\A id \in Id : Mapped(id)' = None) /\ ClaimsKept
OtherPut(command) ==
  /\ commands' = Append(commands, command) /\ command.kind \notin {"Forward", "Cancel"}
  /\ MeaningKept /\ ClaimsKept
CancelPut(id, c) ==
  /\ commands' = Append(commands, ForClient("Cancel", id, c)) /\ claimed[id] = c
  /\ MeaningKept /\ ClaimsKept
ForwardPut(id, c) ==
  /\ commands' = Append(commands, ForClient("Forward", id, c))
  /\ claimed' = [claimed EXCEPT ![id] = c] /\ MeaningKept

QueueMove ==
  \/ CommandTaken \/ QueueKept \/ QueueLost
  \/ \E command \in Commands : OtherPut(command)
  \/ \E id \in Id, c \in Call : CancelPut(id, c) \/ ForwardPut(id, c)

LEMMA MeaningKeptByTake ==
  ASSUME TypeOK, MeaningKept, commands # <<>>, Head(commands).kind # "Forward"
  PROVE  MeaningMoved
BY DEF MeaningKept, MeaningMoved, IsForwardOf, TypeOK

LEMMA WhichQueueMove ==
  ASSUME TypeOK, IndexesAgree, CallersInv, [Next]_vars PROVE QueueMove
<1>. USE DEF mapVars, sessionVars, QueueMove
<1>1. CASE UNCHANGED vars \/ Exited \/ Serve \/ ReportProgress \/ SayListChanged \/ ReplyFails \/ ReportEnd
  BY <1>1, MapMovesKeepMeaning
  DEF vars, Exited, Serve, ReportProgress, SayListChanged, ReplyFails, ReportEnd, Elsewhere, MapKept,
      QueueKept, ClaimsKept, TypeOK
<1>2. ASSUME NEW id \in Id, ForwardCall(id) PROVE QueueMove
  <2>1. nextCall \in Call
    BY <1>2, ConnectionAssumption DEF ForwardCall, TypeOK, Call
  <2>2. MeaningKept
    BY <1>2, MapMovesKeepMeaning DEF ForwardCall, MapKept
  <2>. QED
    BY <1>2, <2>1, <2>2 DEF ForwardCall, Put, ForwardPut, QueueKept, ClaimsKept
<1>3. ASSUME NEW id \in Id, CancelCall(id) PROVE QueueMove
  <2>1. claimed[id] \in Call /\ ClaimsKept
    BY <1>3 DEF CancelCall, ClaimsKept, TypeOK, Optional
  <2>2. MeaningKept
    BY <1>3, MapMovesKeepMeaning DEF CancelCall, MapKept
  <2>. QED
    BY <1>3, <2>1, <2>2 DEF CancelCall, Put, CancelPut, QueueKept
<1>4. CASE EndSession \/ UpstreamEnds
  <2>1. [kind |-> "Shutdown"] \in Commands /\ [kind |-> "Shutdown"].kind \notin {"Forward", "Cancel"}
    BY DEF Commands, Requests
  <2>2. MeaningKept
    BY <1>4, MapMovesKeepMeaning DEF UpstreamEnds, EndSession, MapKept
  <2>3. ClaimsKept
    BY <1>4 DEF UpstreamEnds, EndSession, ClaimsKept
  <2>. QED
    BY <1>4, <2>1, <2>2, <2>3 DEF UpstreamEnds, EndSession, Put, OtherPut, QueueKept
<1>5. ASSUME NEW k \in Caller, Ask(k) \/ Enqueue(k) \/ Timeout(k) PROVE QueueMove
  <2>1. /\ [kind |-> "Request", caller |-> k] \in Commands
        /\ [kind |-> "Request", caller |-> k].kind \notin {"Forward", "Cancel"}
    BY DEF Commands, Requests
  <2>2. MeaningKept /\ ClaimsKept
    BY <1>5, MapMovesKeepMeaning DEF Ask, Enqueue, Timeout, CallerIs, MapKept, ClaimsKept
  <2>. QED
    BY <1>5, <2>1, <2>2 DEF Ask, Enqueue, Timeout, CallerIs, Put, OtherPut, QueueKept
<1>6. CASE SendForward
  <2>1. /\ commands # <<>> /\ Head(commands).kind = "Forward" /\ commands' = Tail(commands)
        /\ Head(commands).id \in Id /\ Head(commands).call \in Call /\ Head(commands) = commands[1]
    BY <1>6, ForwardTypes, TailOfQueue DEF SendForward, Take
  <2>2. PICK id \in Id, c \in Call : id = Head(commands).id /\ c = Head(commands).call
    BY <2>1
  <2>3. InsertClient(id, c)
    BY <1>6, <2>2 DEF SendForward
  <2>4. Mapped(id)' = c /\ \A x \in Id \ {id} : Mapped(x)' = Mapped(x)
    BY <2>3, InsertMovesMeaning
  <2>5. MeaningMoved
    BY <2>1, <2>2, <2>4 DEF MeaningMoved, IsForwardOf
  <2>. QED
    BY <1>6, <2>1, <2>5 DEF SendForward, Elsewhere, CommandTaken, ClaimsKept
<1>7. CASE RejectForward
  <2>1. /\ commands # <<>> /\ Head(commands).kind = "Forward" /\ commands' = Tail(commands)
        /\ Head(commands).id \in Id /\ Head(commands) = commands[1]
    BY <1>7, ForwardTypes, TailOfQueue DEF RejectForward, Take
  <2>2. MeaningKept
    BY <1>7, <2>1, MapMovesKeepMeaning DEF RejectForward
  <2>3. \A id \in Id : IsForwardOf(1, id) => Mapped(id)' = None
    BY <1>7, <2>1 DEF RejectForward, InsertAndCancel, IsForwardOf, Mapped, TypeOK
  <2>. QED
    BY <1>7, <2>1, <2>2, <2>3
    DEF RejectForward, Elsewhere, MeaningKept, MeaningMoved, CommandTaken, ClaimsKept
<1>8. CASE CancelForward \/ SendRequest
  <2>1. commands # <<>> /\ commands' = Tail(commands) /\ Head(commands).kind # "Forward"
    BY <1>8 DEF CancelForward, SendRequest, Take
  <2>2. MeaningKept
    <3>1. CASE CancelForward
      BY <3>1, CancelRemoves, MapMovesKeepMeaning DEF CancelForward, MapKept
    <3>2. CASE SendRequest
      <4>1. Head(commands).caller \in Caller
        BY <3>2, HeadTypes DEF SendRequest, Take, Commands, Requests
      <4>. QED
        BY <3>2, <4>1, MapMovesKeepMeaning DEF SendRequest
    <3>. QED
      BY <1>8, <3>1, <3>2
  <2>. QED
    BY <1>8, <2>1, <2>2, MeaningKeptByTake DEF CancelForward, SendRequest, Elsewhere, CommandTaken, ClaimsKept
<1>9. CASE SendFails \/ Stop \/ TransportEnds \/ EmitFails \/ (EmitHeld /\ held.event.kind = "Ended")
  <2>1. (\A id \in Id : Mapped(id)' = None) /\ claimed' = claimed
    BY <1>9 DEF SendFails, Stop, TransportEnds, EmitFails, EmitHeld, Leave, Mapped
  <2>2. commands' = commands \/ (commands # <<>> /\ commands' = Tail(commands))
    BY <1>9 DEF SendFails, Stop, Take, TransportEnds, EmitFails, EmitHeld
  <2>. QED
    BY <2>1, <2>2 DEF CommandTaken, QueueKept, MeaningKept, MeaningMoved, ClaimsKept
<1>10. ASSUME NEW n \in Minted, Respond(n) PROVE QueueMove
  BY <1>10, RespondRemoves, MapMovesKeepMeaning DEF Respond, QueueKept, ClaimsKept
<1>11. CASE EmitHeld /\ held.event.kind # "Ended"
  BY <1>11, MapMovesKeepMeaning DEF EmitHeld, Elsewhere, MapKept, QueueKept, ClaimsKept
<1>12. CASE CloseTransport
  <2>1. \A id \in Id : byClient[id] = None
    BY <1>12 DEF CloseTransport, CallersInv, IndexesAgree, IsClient, TypeOK, Optional
  <2>. QED
    BY <1>12, <2>1 DEF CloseTransport, Mapped, QueueLost, ClaimsKept
<1>13. CASE AbortTask
  BY <1>13 DEF AbortTask, Elsewhere, Mapped, QueueLost, ClaimsKept
<1>. QED
  BY <1>1, <1>2, <1>3, <1>4, <1>5, <1>6, <1>7, <1>8, <1>9, <1>10, <1>11, <1>12, <1>13
  DEF Next, Session, HandleCommand, HandleFrame

LEMMA QueueMoveKeepsCancels ==
  ASSUME TypeOK, CancelsInv, QueueMove PROVE CancelsInv'
<1>0. Len(commands) \in Nat /\ DOMAIN commands = 1 .. Len(commands) /\ None \notin Call
  BY ConnectionAssumption DEF TypeOK
<1>len. PICK length \in Nat : length = Len(commands)
  <2>1. Len(commands) \in Nat
    BY <1>0
  <2>. QED
    BY <2>1
<1>1. CASE CommandTaken
  <2>0. /\ commands # <<>> /\ commands' = Tail(commands) /\ MeaningMoved
        /\ Len(commands') = Len(commands) - 1 /\ DOMAIN commands' = 1 .. Len(commands')
        /\ Len(commands) # 0
    BY <1>1 DEF CommandTaken, TypeOK
  <2>1. ASSUME NEW i \in DOMAIN commands', NEW id \in Id, NEW c \in Call, NEW m \in Nat,
               commands'[i] = ForClient("Cancel", id, c), i = m + 1
        PROVE  StandsFor(id, c, m)'
    <3>1. PICK n \in DOMAIN commands : n = i + 1 /\ commands[n] = ForClient("Cancel", id, c)
      BY <2>0, <2>1, TailOfQueue
    <3>2. i \in Nat /\ n = i + 1 /\ i <= Len(commands)
      BY <1>0, <2>1, <3>1
    <3>3. StandsFor(id, c, i)
      BY <3>1, <3>2 DEF CancelsInv
    <3>. QED
      BY <2>0, <2>1, <3>2, <3>3, StandsAfterTake
  <2>2. ASSUME NEW id \in Id, NEW c \in Call, NEW m \in Nat, claimed'[id] = c, m = Len(commands')
        PROVE  StandsFor(id, c, m)'
    <3>0. m + 1 \in Nat /\ m + 1 = Len(commands)
      BY <1>0, <2>0, <2>2
    <3>1. PICK n \in Nat : n = m + 1 /\ n = Len(commands)
      BY <3>0
    <3>2. claimed[id] = c
      BY <1>0, <1>1, <2>2 DEF CommandTaken, ClaimsKept
    <3>3. StandsFor(id, c, n) /\ n <= Len(commands)
      BY <3>1, <3>2 DEF CancelsInv
    <3>. QED
      BY <2>0, <3>1, <3>3, StandsAfterTake
  <2>. QED
    BY <2>1, <2>2 DEF CancelsInv
<1>2. ASSUME MeaningKept, NEW i \in DOMAIN commands, NEW id \in Id, NEW c \in Call, NEW m \in Nat,
             commands[i] = ForClient("Cancel", id, c), i = m + 1,
             \A j \in 1 .. Len(commands) : commands'[j] = commands[j]
      PROVE  StandsFor(id, c, m)'
  <2>1. StandsFor(id, c, m)
    BY <1>2 DEF CancelsInv
  <2>2. i <= Len(commands)
    BY <1>0, <1>2
  <2>3. \A j \in 1 .. m : j \in 1 .. Len(commands)
    BY <1>0, <1>2, <2>2
  <2>. QED
    BY <1>2, <2>1, <2>3, StandsAfterPut
<1>3. ASSUME MeaningKept, NEW id \in Id, NEW c \in Call, NEW m \in Nat,
             claimed[id] = c, m = Len(commands), \A j \in 1 .. Len(commands) : commands'[j] = commands[j]
      PROVE  StandsFor(id, c, m)'
  <2>1. StandsFor(id, c, m)
    BY <1>3 DEF CancelsInv
  <2>. QED
    BY <1>3, <2>1, StandsAfterPut
<1>4. CASE QueueKept
  <2>1. MeaningKept /\ commands' = commands
    BY <1>4 DEF QueueKept
  <2>2. \A id \in Id, c \in Call : claimed'[id] = c => claimed[id] = c
    BY <1>0, <1>4 DEF QueueKept, ClaimsKept
  <2>. QED
    BY <1>2, <1>3, <2>1, <2>2 DEF CancelsInv
<1>5. CASE QueueLost
  <2>1. commands' = <<>> /\ \A id \in Id : Mapped(id)' = None
    BY <1>5 DEF QueueLost
  <2>2. \A id \in Id, c \in Call, m \in Nat : m = 0 => StandsFor(id, c, m)'
    BY <2>1 DEF StandsFor
  <2>. QED
    BY <2>1, <2>2 DEF CancelsInv
<1>6. ASSUME NEW command, commands' = Append(commands, command)
      PROVE  /\ Len(commands') = Len(commands) + 1 /\ DOMAIN commands' = 1 .. Len(commands) + 1
             /\ commands'[Len(commands) + 1] = command
             /\ \A j \in 1 .. Len(commands) : commands'[j] = commands[j]
  BY <1>6 DEF TypeOK
<1>7. ASSUME NEW command, commands' = Append(commands, command), command.kind # "Forward", MeaningKept,
             NEW id \in Id, NEW c \in Call, claimed[id] = c, NEW n \in Nat, n = Len(commands)
      PROVE  StandsFor(id, c, n)' /\ \A m \in Nat : m = n + 1 => StandsFor(id, c, m)'
  <2>1. StandsFor(id, c, n)'
    BY <1>3, <1>6, <1>7
  <2>2. ASSUME NEW m \in Nat, m = n + 1 PROVE StandsFor(id, c, m)'
    <3>2. ~IsForwardOf(m, id)'
      BY <1>6, <1>7, <2>2 DEF IsForwardOf
    <3>3. \A i \in 1 .. m : i = m \/ i \in 1 .. n
      BY <2>2
    <3>4. \A i \in 1 .. n : i \in 1 .. m /\ \A j \in i + 1 .. m : j = m \/ j \in i + 1 .. n
      BY <2>2
    <3>. QED
      BY <2>1, <3>2, <3>3, <3>4 DEF StandsFor
  <2>. QED
    BY <2>1, <2>2
<1>8. ASSUME NEW command \in Commands, OtherPut(command) PROVE CancelsInv'
  <2>1. /\ commands' = Append(commands, command) /\ command.kind \notin {"Forward", "Cancel"} /\ MeaningKept
        /\ \A id \in Id, c \in Call : claimed'[id] = c => claimed[id] = c
    BY <1>0, <1>8 DEF OtherPut, ClaimsKept
  <2>2. \A i \in DOMAIN commands', id \in Id, c \in Call :
          commands'[i] = ForClient("Cancel", id, c) => i \in DOMAIN commands /\ commands'[i] = commands[i]
    BY <1>0, <1>6, <2>1 DEF ForClient
  <2>3. \A i \in DOMAIN commands', id \in Id, c \in Call :
          commands'[i] = ForClient("Cancel", id, c) => \A m \in Nat : i = m + 1 => StandsFor(id, c, m)'
    BY <1>2, <1>6, <2>1, <2>2
  <2>4. \A id \in Id, c \in Call, m \in Nat : claimed'[id] = c /\ m = Len(commands') => StandsFor(id, c, m)'
    <3>1. Len(commands') = length + 1
      BY <1>len, <1>6, <2>1
    <3>. QED
      BY <1>len, <1>7, <2>1, <3>1
  <2>. QED
    BY <2>3, <2>4 DEF CancelsInv
<1>9. ASSUME NEW x \in Id, NEW d \in Call, CancelPut(x, d) PROVE CancelsInv'
  <2> DEFINE command == ForClient("Cancel", x, d)
  <2>1. /\ commands' = Append(commands, command) /\ command.kind # "Forward" /\ MeaningKept /\ claimed[x] = d
        /\ \A id \in Id, c \in Call : claimed'[id] = c => claimed[id] = c
    BY <1>0, <1>9 DEF CancelPut, ClaimsKept, ForClient
  <2>2. \A i \in DOMAIN commands', id \in Id, c \in Call :
          commands'[i] = ForClient("Cancel", id, c) =>
            \/ i \in DOMAIN commands /\ commands'[i] = commands[i]
            \/ i = Len(commands) + 1 /\ id = x /\ c = d
    BY <1>0, <1>6, <2>1 DEF ForClient
  <2>3. ASSUME NEW i \in DOMAIN commands', NEW id \in Id, NEW c \in Call, NEW m \in Nat,
               commands'[i] = ForClient("Cancel", id, c), i = m + 1
        PROVE  StandsFor(id, c, m)'
    <3>1. CASE i \in DOMAIN commands /\ commands'[i] = commands[i]
      BY <1>2, <1>6, <2>1, <2>3, <3>1
    <3>2. CASE i = Len(commands) + 1 /\ id = x /\ c = d
      <4>1. m = Len(commands)
        <5>1. m + 1 = Len(commands) + 1 /\ Len(commands) \in Nat
          BY <1>0, <2>3, <3>2
        <5>. QED
          BY <5>1
      <4>. QED
        BY <1>7, <2>1, <3>2, <4>1
    <3>. QED
      BY <2>2, <2>3, <3>1, <3>2
  <2>4. \A id \in Id, c \in Call, m \in Nat : claimed'[id] = c /\ m = Len(commands') => StandsFor(id, c, m)'
    <3>1. Len(commands') = length + 1
      BY <1>len, <1>6, <2>1
    <3>. QED
      BY <1>len, <1>7, <2>1, <3>1
  <2>. QED
    BY <2>3, <2>4 DEF CancelsInv
<1>10. ASSUME NEW x \in Id, NEW d \in Call, ForwardPut(x, d) PROVE CancelsInv'
  <2> DEFINE command == ForClient("Forward", x, d)
  <2>1. /\ commands' = Append(commands, command) /\ command.kind = "Forward"
        /\ command.id = x /\ command.call = d /\ MeaningKept /\ claimed' = [claimed EXCEPT ![x] = d]
    BY <1>10 DEF ForwardPut, ForClient
  <2>2. \A i \in DOMAIN commands', id \in Id, c \in Call :
          commands'[i] = ForClient("Cancel", id, c) => i \in DOMAIN commands /\ commands'[i] = commands[i]
    BY <1>0, <1>6, <2>1 DEF ForClient
  <2>3. \A i \in DOMAIN commands', id \in Id, c \in Call :
          commands'[i] = ForClient("Cancel", id, c) => \A m \in Nat : i = m + 1 => StandsFor(id, c, m)'
    BY <1>2, <1>6, <2>1, <2>2
  <2>4. ASSUME NEW id \in Id, NEW c \in Call, NEW m \in Nat, NEW n \in Nat,
               claimed'[id] = c, n = Len(commands), m = n + 1
        PROVE  StandsFor(id, c, m)'
    <3>0. commands'[m] = command /\ m \in 1 .. m /\ \A j \in m + 1 .. m : FALSE
      BY <1>6, <2>1, <2>4
    <3>1. CASE id = x
      <4>1. c = d
        BY <2>1, <2>4, <3>1 DEF TypeOK
      <4>2. IsForwardOf(m, id)' /\ commands'[m].call = c
        BY <2>1, <3>0, <3>1, <4>1 DEF IsForwardOf
      <4>. QED
        BY <3>0, <4>2 DEF StandsFor
    <3>2. CASE id # x
      <4>1. claimed[id] = c
        BY <2>1, <2>4, <3>2 DEF TypeOK
      <4>2. StandsFor(id, c, n)'
        BY <1>3, <1>6, <2>1, <2>4, <4>1
      <4>3. ~IsForwardOf(m, id)'
        BY <2>1, <3>0, <3>2 DEF IsForwardOf
      <4>4. \A i \in 1 .. m : i = m \/ i \in 1 .. n
        BY <2>4
      <4>5. \A i \in 1 .. n : i \in 1 .. m /\ \A j \in i + 1 .. m : j = m \/ j \in i + 1 .. n
        BY <2>4
      <4>. QED
        BY <4>2, <4>3, <4>4, <4>5 DEF StandsFor
    <3>. QED
      BY <3>1, <3>2
  <2>5. \A id \in Id, c \in Call, m \in Nat : claimed'[id] = c /\ m = Len(commands') => StandsFor(id, c, m)'
    <3>1. Len(commands') = length + 1
      BY <1>len, <1>6, <2>1
    <3>. QED
      BY <1>len, <2>4, <3>1
  <2>. QED
    BY <2>3, <2>5 DEF CancelsInv
<1>. QED
  BY <1>1, <1>4, <1>5, <1>8, <1>9, <1>10 DEF QueueMove

LEMMA CancelFindsItsCall ==
  ASSUME TypeOK, IndexesAgree, CancelsInv, [Next]_vars, withdrawn' # withdrawn
  PROVE  withdrawn' = withdrawn \cup {Head(commands).call}
<1>. USE DEF history
<1>1. CancelForward
  BY DEF Next, vars, Session, ForwardCall, CancelCall, Serve, UpstreamEnds, EndSession, Ask, Enqueue,
         Timeout, CallerIs, HandleCommand, SendForward, RejectForward, SendRequest, SendFails, Stop,
         HandleFrame, Respond, ReportProgress, SayListChanged, ReplyFails, TransportEnds, EmitHeld,
         EmitFails, ReportEnd, CloseTransport, AbortTask, Exited, Leave
<1>2. PICK id \in Id, c \in Call : id = Head(commands).id /\ c = Head(commands).call
  BY <1>1, ForwardTypes DEF CancelForward, Take
<1>3. 1 \in DOMAIN commands /\ commands[1] = ForClient("Cancel", id, c)
  BY <1>1, <1>2, HeadTypes DEF CancelForward, Take, TypeOK, Commands, Requests, ForClient
<1>4. StandsFor(id, c, 0)
  BY <1>3 DEF CancelsInv
<1>5. Mapped(id) \in {None, c}
  BY <1>4 DEF StandsFor
<1>6. byClient[id] # None /\ withdrawn' = withdrawn \cup {pending[byClient[id]].call}
  BY <1>1, <1>2 DEF CancelForward
<1>7. pending[byClient[id]].call # None
  BY <1>6, ConnectionAssumption DEF TypeOK, IndexesAgree, IsClient, Optional, Entries
<1>. QED
  BY <1>2, <1>5, <1>6, <1>7 DEF Mapped

\* CancelHitsItsCall: what a cancellation withdraws is the call it was queued for, although
\* it names only a client id, which may have been re-used before it is taken.
THEOREM CancelsHitTheirCalls == Spec => CancelHitsItsCall
<1>1. Init => CallersInv /\ HeldWhileRunning
  BY DEF Init, CallersInv, HeldWhileRunning
<1>2. Init => CancelsInv
  BY ConnectionAssumption DEF Init, CancelsInv
<1>3. TypeOK /\ IndexesAgree /\ CallersInv /\ HeldWhileRunning /\ CancelsInv /\ [Next]_vars
        => CallersInv' /\ HeldWhileRunning' /\ CancelsInv'
  BY CallersStep, HeldStep, WhichQueueMove, QueueMoveKeepsCancels DEF HeldWhileRunning
<1>4. TypeOK /\ IndexesAgree /\ CancelsInv /\ [Next]_vars
        => [withdrawn' # withdrawn => withdrawn' = withdrawn \cup {Head(commands).call}]_vars
  BY CancelFindsItsCall
<1>. QED
  BY <1>1, <1>2, <1>3, <1>4, TypesAndIndexes, PTL DEF Spec, CancelHitsItsCall

-----------------------------------------------------------------------------
(* Claims *)

IsAbout(command, id) == command.kind \in {"Forward", "Cancel"} /\ command.id = id

NothingQueued(id) == \A i \in DOMAIN commands : ~IsAbout(commands[i], id)

\* c is queued under id, and nothing behind it is about id.
QueuedLast(id, c) ==
  \E i \in DOMAIN commands :
    /\ commands[i] = ForClient("Forward", id, c)
    /\ \A j \in DOMAIN commands : j > i => ~IsAbout(commands[j], id)

AnswerOnItsWay(id, c) ==
  \/ held # None /\ held.event = Response(id, c)
  \/ \E i \in DOMAIN events : events[i] = Response(id, c)

\* Older uses of the id may be queued before the call, none behind it: the id is
\* claimed for as long as the call is.
ClaimsInv ==
  task = "running" =>
    \A id \in Id, c \in Call : claimed[id] = c =>
      \/ QueuedLast(id, c)
      \/ NothingQueued(id) /\ Mapped(id) = c
      \/ AnswerOnItsWay(id, c)

LEMMA TakeMovesClaim ==
  ASSUME TypeOK, commands # <<>>, commands' = Tail(commands), NEW id \in Id, NEW c \in Call
  PROVE  /\ NothingQueued(id) => NothingQueued(id)' /\ ~IsAbout(Head(commands), id)
         /\ QueuedLast(id, c) =>
              \/ QueuedLast(id, c)'
              \/ Head(commands) = ForClient("Forward", id, c) /\ NothingQueued(id)'
<1>1. /\ 1 \in DOMAIN commands /\ Head(commands) = commands[1]
      /\ \A i \in DOMAIN commands' : i \in Nat /\ i + 1 \in DOMAIN commands /\ commands'[i] = commands[i + 1]
      /\ \A i \in DOMAIN commands : i \in Nat /\ (i # 1 => i - 1 \in DOMAIN commands' /\ commands'[i - 1] = commands[i])
  <2>1. commands \in Seq(Commands) /\ Len(commands) \in Nat /\ Len(commands) > 0
    BY DEF TypeOK
  <2>2. Len(commands') = Len(commands) - 1 /\ DOMAIN commands' = 1 .. Len(commands) - 1
    BY <2>1
  <2>3. \A i \in 1 .. Len(commands) - 1 : commands'[i] = commands[i + 1]
    BY <2>1, <2>2
  <2>. QED
    BY <2>1, <2>2, <2>3
<1>2. NothingQueued(id) => NothingQueued(id)' /\ ~IsAbout(Head(commands), id)
  BY <1>1 DEF NothingQueued
<1>3. ASSUME NEW i \in DOMAIN commands, commands[i] = ForClient("Forward", id, c),
             \A j \in DOMAIN commands : j > i => ~IsAbout(commands[j], id)
      PROVE  \/ QueuedLast(id, c)'
             \/ Head(commands) = ForClient("Forward", id, c) /\ NothingQueued(id)'
  <2>1. CASE i = 1
    <3>1. \A j \in DOMAIN commands' : j + 1 \in DOMAIN commands /\ j + 1 > i
      BY <1>1, <2>1 DEF TypeOK
    <3>. QED
      BY <1>1, <1>3, <2>1, <3>1 DEF NothingQueued
  <2>2. CASE i # 1
    <3>1. i - 1 \in DOMAIN commands' /\ commands'[i - 1] = ForClient("Forward", id, c)
      BY <1>1, <1>3, <2>2
    <3>2. \A j \in DOMAIN commands' : j > i - 1 => ~IsAbout(commands'[j], id)
      <4>1. \A j \in DOMAIN commands' : j > i - 1 => j + 1 > i
        BY <1>1
      <4>. QED
        BY <1>1, <1>3, <4>1
    <3>. QED
      BY <3>1, <3>2 DEF QueuedLast
  <2>. QED
    BY <2>1, <2>2
<1>. QED
  BY <1>2, <1>3 DEF QueuedLast

LEMMA PutKeepsClaim ==
  ASSUME TypeOK, NEW command, commands' = Append(commands, command), NEW id \in Id, NEW c \in Call
  PROVE  /\ ~IsAbout(command, id) =>
              /\ NothingQueued(id) => NothingQueued(id)'
              /\ QueuedLast(id, c) => QueuedLast(id, c)'
         /\ command = ForClient("Forward", id, c) => QueuedLast(id, c)'
<1>1. /\ \A i \in DOMAIN commands : i \in DOMAIN commands' /\ commands'[i] = commands[i]
      /\ \A i \in DOMAIN commands' : i \in DOMAIN commands \/ (i = Len(commands) + 1 /\ commands'[i] = command)
      /\ Len(commands) + 1 \in DOMAIN commands' /\ commands'[Len(commands) + 1] = command
      /\ \A i \in DOMAIN commands' : ~(i > Len(commands) + 1)
  <2>1. commands \in Seq(Commands)
    BY DEF TypeOK
  <2>. QED
    BY <2>1
<1>2. ~IsAbout(command, id) /\ NothingQueued(id) => NothingQueued(id)'
  BY <1>1 DEF NothingQueued
<1>3. ~IsAbout(command, id) /\ QueuedLast(id, c) => QueuedLast(id, c)'
  <2>. SUFFICES ASSUME ~IsAbout(command, id), NEW i \in DOMAIN commands,
                       commands[i] = ForClient("Forward", id, c),
                       \A j \in DOMAIN commands : j > i => ~IsAbout(commands[j], id)
                PROVE  QueuedLast(id, c)'
    BY DEF QueuedLast
  <2>1. i \in DOMAIN commands' /\ commands'[i] = ForClient("Forward", id, c)
    BY <1>1
  <2>2. \A j \in DOMAIN commands' : j > i => ~IsAbout(commands'[j], id)
    BY <1>1
  <2>. QED
    BY <2>1, <2>2 DEF QueuedLast
<1>4. command = ForClient("Forward", id, c) => QueuedLast(id, c)'
  BY <1>1 DEF QueuedLast
<1>. QED
  BY <1>2, <1>3, <1>4

LEMMA EventsAppended ==
  ASSUME TypeOK, NEW event, events' = Append(events, event)
  PROVE  /\ \A i \in DOMAIN events : i \in DOMAIN events' /\ events'[i] = events[i]
         /\ \E i \in DOMAIN events' : events'[i] = event
<1>1. events \in Seq(Events)
  BY DEF TypeOK
<1>2. /\ \A i \in DOMAIN events : i \in DOMAIN events' /\ events'[i] = events[i]
      /\ Len(events) + 1 \in DOMAIN events' /\ events'[Len(events) + 1] = event
  BY <1>1
<1>. QED
  BY <1>2

LEMMA EmitKeepsAnswers ==
  ASSUME TypeOK, held = None, NEW event \in Events, NEW before \in Optional(Call), NEW taken \in Seq(Commands),
         Emit(event, before, taken)
  PROVE  \A id \in Id, c \in Call :
           AnswerOnItsWay(id, c) \/ event = Response(id, c) => AnswerOnItsWay(id, c)'
<1>1. CASE EventRoom
  BY <1>1, EventsAppended DEF Emit, AnswerOnItsWay
<1>2. CASE ~EventRoom
  <2>1. held' = [event |-> event, before |-> before, taken |-> taken] /\ events' = events
    BY <1>2 DEF Emit
  <2>2. held' \in Held /\ held' # None /\ held'.event = event
    BY <2>1, ConnectionAssumption DEF Held
  <2>. QED
    BY <2>1, <2>2 DEF AnswerOnItsWay
<1>. QED
  BY <1>1, <1>2

LEMMA IdsAreMappedApart ==
  ASSUME TypeOK, IndexesAgree, NEW x \in Id
  PROVE  \A id \in Id \ {x} : byClient[id] # None => byClient[id] # byClient[x] /\ byClient[id] \in Minted
<1>1. \A id \in Id : byClient[id] # None => byClient[id] \in Minted /\ pending[byClient[id]].id = id
  BY DEF IndexesAgree, TypeOK, Optional
<1>. QED
  BY <1>1

LEMMA ClaimsStep ==
  ASSUME TypeOK, IndexesAgree, HeldWhileRunning, ClaimsInv, [Next]_vars PROVE ClaimsInv'
<1>. USE DEF mapVars, sessionVars, ClaimsInv
<1>0. None \notin Call
  BY ConnectionAssumption
<1>1. CASE UNCHANGED vars \/ Exited
  BY <1>1 DEF vars, Exited, QueuedLast, NothingQueued, Mapped, AnswerOnItsWay
<1>2. ASSUME NEW x \in Id, ForwardCall(x) PROVE ClaimsInv'
  <2>1. UNCHANGED <<task, held, byClient, pending, events>>
    BY <1>2 DEF ForwardCall
  <2>2. \A id \in Id, c \in Call : /\ Mapped(id)' = Mapped(id)
                                   /\ AnswerOnItsWay(id, c)' = AnswerOnItsWay(id, c)
    BY <2>1 DEF Mapped, AnswerOnItsWay
  <2>3. CASE ~Room
    BY <1>2, <2>1, <2>2, <2>3 DEF ForwardCall, QueuedLast, NothingQueued
  <2>4. CASE Room
    <3>1. nextCall \in Call /\ commands' = Append(commands, ForClient("Forward", x, nextCall))
          /\ claimed' = [claimed EXCEPT ![x] = nextCall]
      BY <1>2, <2>4, ConnectionAssumption DEF ForwardCall, Put, TypeOK, Call
    <3>2. ASSUME NEW id \in Id, NEW c \in Call, claimed'[id] = c, task' = "running"
          PROVE  \/ QueuedLast(id, c)'
                 \/ NothingQueued(id)' /\ Mapped(id)' = c
                 \/ AnswerOnItsWay(id, c)'
      <4>1. CASE id = x
        <5>1. c = nextCall
          BY <3>1, <3>2, <4>1 DEF TypeOK
        <5>. QED
          BY <3>1, <4>1, <5>1, PutKeepsClaim
      <4>2. CASE id # x
        <5>1. claimed[id] = c
          BY <3>1, <3>2, <4>2 DEF TypeOK
        <5>2. ~IsAbout(ForClient("Forward", x, nextCall), id)
          BY <4>2 DEF IsAbout, ForClient
        <5>. QED
          BY <2>1, <2>2, <3>1, <3>2, <5>1, <5>2, PutKeepsClaim
      <4>. QED
        BY <4>1, <4>2
    <3>. QED
      BY <3>2
  <2>. QED
    BY <2>3, <2>4
<1>3. ASSUME NEW x \in Id, CancelCall(x) PROVE ClaimsInv'
  <2>1. UNCHANGED <<task, held, byClient, pending, events>> /\ claimed' = [claimed EXCEPT ![x] = None]
    BY <1>3 DEF CancelCall
  <2>2. \A id \in Id, c \in Call : /\ Mapped(id)' = Mapped(id)
                                   /\ AnswerOnItsWay(id, c)' = AnswerOnItsWay(id, c)
    BY <2>1 DEF Mapped, AnswerOnItsWay
  <2>3. ASSUME NEW id \in Id, NEW c \in Call, claimed'[id] = c
        PROVE  /\ claimed[id] = c
               /\ NothingQueued(id) => NothingQueued(id)'
               /\ QueuedLast(id, c) => QueuedLast(id, c)'
    <3>1. id # x /\ claimed[id] = c
      BY <1>0, <2>1, <2>3 DEF TypeOK
    <3>2. CASE Room
      <4>1. ~IsAbout(ForClient("Cancel", x, claimed[x]), id)
        BY <3>1 DEF IsAbout, ForClient
      <4>2. commands' = Append(commands, ForClient("Cancel", x, claimed[x]))
        BY <1>3, <3>2 DEF CancelCall, Put
      <4>. QED
        BY <3>1, <4>1, <4>2, PutKeepsClaim
    <3>3. CASE ~Room
      BY <1>3, <3>1, <3>3 DEF CancelCall, QueuedLast, NothingQueued
    <3>. QED
      BY <3>2, <3>3
  <2>. QED
    BY <2>1, <2>2, <2>3
<1>4. CASE Serve
  <2>1. /\ UNCHANGED <<task, held, byClient, pending, commands>>
        /\ events # <<>> /\ events' = Tail(events)
    BY <1>4 DEF Serve
  <2>2. ASSUME NEW id \in Id, NEW c \in Call, claimed'[id] = c
        PROVE  claimed[id] = c /\ Head(events) # Response(id, c)
    BY <1>0, <1>4, <2>2 DEF Serve, Response
  <2>3. ASSUME NEW id \in Id, NEW c \in Call, Head(events) # Response(id, c)
        PROVE  AnswerOnItsWay(id, c) => AnswerOnItsWay(id, c)'
    <3>1. ASSUME NEW i \in DOMAIN events, events[i] = Response(id, c)
          PROVE  i - 1 \in DOMAIN events' /\ events'[i - 1] = Response(id, c)
      <4>1. i \in 1 .. Len(events) /\ Len(events) \in Nat /\ Head(events) = events[1]
        BY <2>1 DEF TypeOK
      <4>2. i # 1
        BY <2>3, <3>1, <4>1
      <4>. QED
        BY <2>1, <3>1, <4>1, <4>2 DEF TypeOK
    <3>. QED
      BY <2>1, <3>1 DEF AnswerOnItsWay
  <2>. QED
    BY <2>1, <2>2, <2>3 DEF QueuedLast, NothingQueued, Mapped
<1>5. CASE EndSession \/ UpstreamEnds
  BY <1>0, <1>5 DEF UpstreamEnds, EndSession
<1>6. ASSUME NEW k \in Caller, Ask(k) \/ Enqueue(k) \/ Timeout(k) PROVE ClaimsInv'
  <2>1. UNCHANGED <<task, held, byClient, pending, events, claimed>>
    BY <1>6 DEF Ask, Enqueue, Timeout, CallerIs
  <2>2. commands' = commands \/ commands' = Append(commands, [kind |-> "Request", caller |-> k])
    BY <1>6 DEF Ask, Enqueue, Timeout, Put
  <2>3. \A id \in Id : ~IsAbout([kind |-> "Request", caller |-> k], id)
    BY DEF IsAbout
  <2>4. \A id \in Id, c \in Call : /\ NothingQueued(id) => NothingQueued(id)'
                                   /\ QueuedLast(id, c) => QueuedLast(id, c)'
    <3>1. CASE commands' = commands
      BY <3>1 DEF NothingQueued, QueuedLast
    <3>. QED
      BY <2>2, <2>3, <3>1, PutKeepsClaim
  <2>. QED
    BY <2>1, <2>4 DEF Mapped, AnswerOnItsWay
<1>7. CASE SendForward
  <2>1. /\ UNCHANGED <<task, held, events, claimed>>
        /\ commands # <<>> /\ commands' = Tail(commands) /\ Head(commands).kind = "Forward"
    BY <1>7 DEF SendForward, Take, Elsewhere
  <2>2. PICK x \in Id, d \in Call : x = Head(commands).id /\ d = Head(commands).call
    BY <2>1, ForwardTypes
  <2>3. InsertClient(x, d)
    BY <1>7, <2>2 DEF SendForward
  <2>4. Mapped(x)' = d /\ \A id \in Id \ {x} : Mapped(id)' = Mapped(id)
    BY <2>3, InsertMovesMeaning
  <2>5. \A id \in Id, c \in Call : ~IsAbout(Head(commands), id) => id # x
    BY <2>1, <2>2 DEF IsAbout
  <2>6. \A id \in Id, c \in Call : Head(commands) = ForClient("Forward", id, c) => id = x /\ c = d
    BY <2>2 DEF ForClient
  <2>. QED
    BY <2>1, <2>4, <2>5, <2>6, TakeMovesClaim DEF AnswerOnItsWay
<1>8. CASE RejectForward
  <2>1. /\ UNCHANGED <<task, claimed>> /\ held = None
        /\ commands # <<>> /\ commands' = Tail(commands) /\ Head(commands).kind = "Forward"
    BY <1>8 DEF RejectForward, Take, Ready, Elsewhere
  <2>2. PICK x \in Id, d \in Call : x = Head(commands).id /\ d = Head(commands).call
    BY <2>1, ForwardTypes
  <2>3. InsertAndCancel(x)
    BY <1>8, <2>2 DEF RejectForward
  <2>4. \A id \in Id \ {x} : Mapped(id)' = Mapped(id)
    <3>1. \A id \in Id \ {x} : byClient[id] # None => byClient[id] # byClient[x] /\ byClient[id] \in Minted
      BY IdsAreMappedApart
    <3>2. \A id \in Id \ {x} : byClient'[id] = byClient[id]
      BY <2>3 DEF InsertAndCancel, TypeOK
    <3>. QED
      BY <2>3, <3>1, <3>2 DEF InsertAndCancel, Mapped
  <2>5. \A id \in Id, c \in Call :
          AnswerOnItsWay(id, c) \/ Response(x, d) = Response(id, c) => AnswerOnItsWay(id, c)'
    <3>1. Response(x, d) \in Events /\ Mapped(x) \in Optional(Call) /\ <<Head(commands)>> \in Seq(Commands)
      BY <2>1, HeadTypes, EventsAreTyped, MappedTypes
    <3>2. Emit(Response(x, d), Mapped(x), <<Head(commands)>>)
      BY <1>8, <2>2 DEF RejectForward
    <3>. QED
      BY <2>1, <3>1, <3>2, EmitKeepsAnswers
  <2>6. \A id \in Id, c \in Call : ~IsAbout(Head(commands), id) => id # x
    BY <2>1, <2>2 DEF IsAbout
  <2>7. \A id \in Id, c \in Call : Head(commands) = ForClient("Forward", id, c) => id = x /\ c = d
    BY <2>2 DEF ForClient
  <2>. QED
    BY <2>1, <2>4, <2>5, <2>6, <2>7, TakeMovesClaim
<1>9. CASE CancelForward
  <2>1. /\ UNCHANGED <<task, held, events, claimed>>
        /\ commands # <<>> /\ commands' = Tail(commands) /\ Head(commands).kind = "Cancel"
    BY <1>9 DEF CancelForward, Take, Elsewhere
  <2>2. PICK x \in Id : x = Head(commands).id
    BY <2>1, ForwardTypes
  <2>3. \A id \in Id \ {x} : Mapped(id)' = Mapped(id)
    <3>1. \A id \in Id \ {x} : byClient[id] # None => byClient[id] # byClient[x] /\ byClient[id] \in Minted
      BY IdsAreMappedApart
    <3>2. CASE byClient[x] = None
      BY <1>9, <2>2, <3>2 DEF CancelForward, Mapped
    <3>3. CASE byClient[x] # None
      <4>1. Removed(byClient[x])
        BY <1>9, <2>2, <3>3, CancelRemoves
      <4>2. \A id \in Id \ {x} : byClient'[id] = byClient[id]
        BY <3>1, <3>3, <4>1 DEF Removed
      <4>. QED
        BY <3>1, <4>1, <4>2 DEF Removed, Mapped, TypeOK
    <3>. QED
      BY <3>2, <3>3
  <2>4. \A id \in Id, c \in Call : ~IsAbout(Head(commands), id) => id # x
    BY <2>1, <2>2 DEF IsAbout
  <2>5. \A id \in Id, c \in Call : Head(commands) # ForClient("Forward", id, c)
    BY <2>1 DEF ForClient
  <2>. QED
    BY <2>1, <2>3, <2>4, <2>5, TakeMovesClaim DEF AnswerOnItsWay
<1>10. CASE SendRequest
  <2>1. /\ UNCHANGED <<task, held, events, claimed>>
        /\ commands # <<>> /\ commands' = Tail(commands) /\ Head(commands).kind = "Request"
        /\ InsertInternal(Head(commands).caller)
    BY <1>10 DEF SendRequest, Take, Elsewhere
  <2>2. \A id \in Id : Mapped(id)' = Mapped(id)
    <3>1. \A id \in Id : byClient[id] # None => byClient[id] # nextId /\ byClient[id] \in Minted
      BY ConnectionAssumption DEF IndexesAgree, IsClient, TypeOK, Optional, Minted
    <3>. QED
      BY <2>1, <3>1 DEF InsertInternal, Mapped, TypeOK
  <2>3. \A id \in Id, c \in Call : Head(commands) # ForClient("Forward", id, c)
    BY <2>1 DEF ForClient
  <2>. QED
    BY <2>1, <2>2, <2>3, TakeMovesClaim DEF AnswerOnItsWay
<1>11. CASE SendFails \/ Stop \/ TransportEnds \/ EmitFails \/ (EmitHeld /\ held.event.kind = "Ended")
  BY <1>11 DEF SendFails, Stop, TransportEnds, EmitFails, EmitHeld, Leave
<1>12. ASSUME NEW n \in Minted, Respond(n) PROVE ClaimsInv'
  <2>1. /\ UNCHANGED <<task, commands, claimed>> /\ held = None /\ pending[n] # None /\ pending[n] \in Entries
        /\ Removed(n)
    BY <1>12, RespondRemoves DEF Respond, Ready, TypeOK, Optional
  <2>2. \A id \in Id : byClient[id] # n => Mapped(id)' = Mapped(id)
    BY <2>1 DEF Removed, Mapped, TypeOK, Optional
  <2>3. \A id \in Id, c \in Call :
          /\ AnswerOnItsWay(id, c) => AnswerOnItsWay(id, c)'
          /\ byClient[id] = n /\ Mapped(id) = c => AnswerOnItsWay(id, c)'
    <3>1. CASE pending[n].kind = "client"
      <4>1. pending[n].id \in Id /\ pending[n].call \in Call /\ <<>> \in Seq(Commands)
        BY <2>1, <3>1 DEF Entries
      <4>2. Emit(Response(pending[n].id, pending[n].call), pending[n].call, <<>>)
        BY <1>12, <3>1 DEF Respond
      <4>3. Response(pending[n].id, pending[n].call) \in Events /\ pending[n].call \in Optional(Call)
        BY <4>1, EventsAreTyped DEF Optional
      <4>4. \A id \in Id, c \in Call :
              AnswerOnItsWay(id, c) \/ Response(pending[n].id, pending[n].call) = Response(id, c)
                => AnswerOnItsWay(id, c)'
        BY <2>1, <4>1, <4>2, <4>3, EmitKeepsAnswers
      <4>5. \A id \in Id : byClient[id] = n => pending[n].id = id /\ Mapped(id) = pending[n].call
        BY ConnectionAssumption DEF IndexesAgree, Mapped
      <4>. QED
        BY <4>4, <4>5
    <3>2. CASE pending[n].kind = "internal"
      <4>1. UNCHANGED <<held, events>> /\ \A id \in Id : byClient[id] # n
        BY <1>12, <3>2 DEF Respond, IndexesAgree, IsClient
      <4>. QED
        BY <4>1 DEF AnswerOnItsWay
    <3>. QED
      BY <1>12, <3>1, <3>2 DEF Respond
  <2>. QED
    BY <2>1, <2>2, <2>3 DEF QueuedLast, NothingQueued
<1>13. CASE ReportProgress \/ SayListChanged
  <2>1. PICK kind \in {"Notification", "ListChanged"} : Emit(Notice(kind), None, <<>>)
    BY <1>13 DEF ReportProgress, SayListChanged
  <2>2. <<>> \in Seq(Commands) /\ None \in Optional(Call) /\ held = None
        /\ UNCHANGED <<task, commands, byClient, pending, claimed>>
    BY <1>13 DEF ReportProgress, SayListChanged, Ready, Elsewhere, Optional
  <2>3. \A id \in Id, c \in Call : AnswerOnItsWay(id, c) => AnswerOnItsWay(id, c)'
    BY <2>1, <2>2, EmitKeepsAnswers, EventsAreTyped
  <2>. QED
    BY <2>2, <2>3 DEF QueuedLast, NothingQueued, Mapped
<1>14. CASE ReplyFails
  BY <1>14 DEF ReplyFails, Ready, Elsewhere, QueuedLast, NothingQueued, Mapped, AnswerOnItsWay
<1>15. CASE EmitHeld /\ held.event.kind # "Ended"
  <2>1. /\ UNCHANGED <<task, commands, byClient, pending, claimed>>
        /\ events' = Append(events, held.event)
    BY <1>15 DEF EmitHeld, Elsewhere
  <2>2. \A id \in Id, c \in Call : AnswerOnItsWay(id, c) => AnswerOnItsWay(id, c)'
    BY <2>1, EventsAppended DEF AnswerOnItsWay
  <2>. QED
    BY <2>1, <2>2 DEF QueuedLast, NothingQueued, Mapped
<1>16. CASE ReportEnd \/ CloseTransport \/ AbortTask
  BY <1>16 DEF ReportEnd, CloseTransport, AbortTask
<1>. QED
  BY <1>1, <1>2, <1>3, <1>4, <1>5, <1>6, <1>7, <1>8, <1>9, <1>10, <1>11, <1>12, <1>13, <1>14, <1>15, <1>16
  DEF Next, Session, HandleCommand, HandleFrame

\* ClaimsAreKnown: as long as the actor runs, a call whose id the session holds is still
\* queued, mapped under that id or answered: no replacement, late answer, refusal or
\* queued cancellation of an earlier use of the id loses it.
THEOREM NoClaimIsLost == Spec => []ClaimsAreKnown
<1>1. Init => ClaimsInv /\ HeldWhileRunning
  BY ConnectionAssumption DEF Init, ClaimsInv, HeldWhileRunning
<1>2. TypeOK /\ IndexesAgree /\ ClaimsInv /\ HeldWhileRunning /\ [Next]_vars
        => ClaimsInv' /\ HeldWhileRunning'
  BY ClaimsStep, HeldStep
<1>3. TypeOK /\ ClaimsInv => ClaimsAreKnown
  <2>. SUFFICES ASSUME TypeOK, ClaimsInv, task = "running", NEW id \in Id, NEW c \in Call, claimed[id] = c
                PROVE  \/ IsQueued("Forward", c)
                       \/ Mapped(id) = c
                       \/ held # None /\ AnsweredBy(held.event, c)
                       \/ \E i \in DOMAIN events : AnsweredBy(events[i], c)
    BY DEF ClaimsAreKnown, TypeOK, Optional
  <2>1. QueuedLast(id, c) => IsQueued("Forward", c)
    BY DEF QueuedLast, IsQueued, ForClient
  <2>2. AnswerOnItsWay(id, c) => \/ held # None /\ AnsweredBy(held.event, c)
                                 \/ \E i \in DOMAIN events : AnsweredBy(events[i], c)
    BY DEF AnswerOnItsWay, AnsweredBy, Response
  <2>. QED
    BY <2>1, <2>2 DEF ClaimsInv
<1>. QED
  BY <1>1, <1>2, <1>3, TypesAndIndexes, PTL DEF Spec

-----------------------------------------------------------------------------
(* The actor as the router sees it *)

\* What a handler waits with: its answer to a Forward it took or to a call that was
\* mapped, or a word of the upstream's.  Nobody answers under that id meanwhile.
WaitingInv ==
  held # None =>
    LET event == held.event IN
    \/ /\ event.id \in Id /\ event.call \in Call
       /\ event = Response(event.id, event.call) /\ byClient[event.id] = None
       /\ \/ held.taken = <<ForClient("Forward", event.id, event.call)>>
          \/ held.taken = <<>> /\ held.before = event.call
    \/ /\ \E kind \in {"Notification", "ListChanged", "Ended"} : event = Notice(kind)
       /\ held.taken = <<>>

LEMMA EmitWaits ==
  ASSUME held = None, WaitingInv, NEW event, NEW before, NEW taken, Emit(event, before, taken)
  PROVE  \/ EventRoom /\ events' = Append(events, event) /\ held' = None
         \/ /\ ~EventRoom /\ events' = events
            /\ held' = [event |-> event, before |-> before, taken |-> taken]
BY DEF Emit

LEMMA WaitingStep == TypeOK /\ IndexesAgree /\ WaitingInv /\ [Next]_vars => WaitingInv'
<1>. SUFFICES ASSUME TypeOK, IndexesAgree, WaitingInv, [Next]_vars PROVE WaitingInv'
  OBVIOUS
<1>. USE DEF mapVars, tokenVars, sessionVars, history
<1>1. CASE UNCHANGED vars \/ Session \/ \E k \in Caller : Ask(k) \/ Enqueue(k) \/ Timeout(k)
  <2>1. UNCHANGED <<held, byClient>>
    BY <1>1 DEF vars, Session, ForwardCall, CancelCall, Serve, UpstreamEnds, EndSession, Ask, Enqueue,
                Timeout, CallerIs
  <2>. QED
    BY <2>1 DEF WaitingInv
<1>2. CASE SendForward \/ CancelForward \/ SendRequest
  <2>1. held' = None
    BY <1>2 DEF SendForward, CancelForward, SendRequest, Take, Ready
  <2>. QED
    BY <2>1 DEF WaitingInv
<1>3. CASE RejectForward
  <2>. DEFINE command == Head(commands)
              id == command.id
              call == command.call
  <2>1. /\ held = None /\ InsertAndCancel(id)
        /\ Emit(Response(id, call), Mapped(id), <<command>>)
    BY <1>3 DEF RejectForward, Take, Ready
  <2>2. id \in Id /\ call \in Call /\ command = ForClient("Forward", id, call)
    BY <1>3, HeadTypes DEF RejectForward, Take, Commands, Requests, ForClient
  <2>3. byClient'[id] = None
    BY <2>1, <2>2 DEF InsertAndCancel, TypeOK
  <2>. HIDE DEF command, id, call
  <2>4. held' = None \/ held' = [event |-> Response(id, call), before |-> Mapped(id), taken |-> <<command>>]
    BY <2>1, EmitWaits
  <2>5. Response(id, call).id = id /\ Response(id, call).call = call
    BY DEF Response
  <2>6. ASSUME held' = [event |-> Response(id, call), before |-> Mapped(id), taken |-> <<command>>]
        PROVE  WaitingInv'
    <3>1. held'.event = Response(id, call) /\ held'.taken = <<command>>
      BY <2>6
    <3>. QED
      BY <2>2, <2>3, <2>5, <3>1 DEF WaitingInv
  <2>. QED
    BY <2>4, <2>6 DEF WaitingInv
<1>4. CASE SendFails \/ Stop \/ TransportEnds \/ EmitHeld \/ EmitFails \/ AbortTask
  <2>1. held' = None
    BY <1>4 DEF SendFails, Stop, TransportEnds, EmitHeld, EmitFails, AbortTask, Leave
  <2>. QED
    BY <2>1 DEF WaitingInv
<1>5. ASSUME NEW n \in Minted, Respond(n) PROVE WaitingInv'
  <2>. DEFINE id == pending[n].id
              call == pending[n].call
  <2>1. held = None /\ pending[n] # None /\ Removed(n)
    BY <1>5, RespondRemoves DEF Respond, Ready
  <2>2. CASE held' = None
    BY <2>2 DEF WaitingInv
  <2>3. CASE held' # None
    <3>1. pending[n].kind = "client" /\ Emit(Response(id, call), call, <<>>)
      BY <1>5, <2>1, <2>3 DEF Respond
    <3>2. id \in Id /\ call \in Call
      BY <2>1, <3>1 DEF TypeOK, Optional, Entries
    <3>3. byClient[id] = n /\ byClient'[id] = None
      BY <2>1, <3>1, <3>2 DEF IndexesAgree, IsClient, Removed
    <3>. HIDE DEF id, call
    <3>4. held' = [event |-> Response(id, call), before |-> call, taken |-> <<>>]
      BY <2>1, <2>3, <3>1, EmitWaits
    <3>5. Response(id, call).id = id /\ Response(id, call).call = call
      BY DEF Response
    <3>6. held'.event = Response(id, call) /\ held'.before = call /\ held'.taken = <<>>
      BY <3>4
    <3>. QED
      BY <3>2, <3>3, <3>5, <3>6 DEF WaitingInv
  <2>. QED
    BY <2>2, <2>3
<1>6. CASE ReportProgress \/ SayListChanged \/ ReplyFails
  <2>1. held = None
    BY <1>6 DEF ReportProgress, SayListChanged, ReplyFails, Ready
  <2>2. \/ held' = None
        \/ \E kind \in {"Notification", "ListChanged", "Ended"} :
             held' = [event |-> Notice(kind), before |-> None, taken |-> <<>>]
    BY <1>6, <2>1, EmitWaits DEF ReportProgress, SayListChanged, ReplyFails
  <2>. QED
    BY <2>2 DEF WaitingInv
<1>7. CASE ReportEnd \/ CloseTransport \/ Exited
  <2>1. UNCHANGED <<held, byClient>>
    BY <1>7 DEF ReportEnd, CloseTransport, Exited, vars
  <2>. QED
    BY <2>1 DEF WaitingInv
<1>. QED
  BY <1>1, <1>2, <1>3, <1>4, <1>5, <1>6, <1>7 DEF Next, HandleCommand, HandleFrame

\* Only the end of the session queues a Shutdown, and then nobody takes events.
OverInv ==
  /\ over => events = <<>>
  /\ \A i \in DOMAIN commands : commands[i].kind = "Shutdown" => over

LEMMA OverTake ==
  ASSUME TypeOK, commands # <<>>, commands' = Tail(commands),
         \A i \in DOMAIN commands : commands[i].kind # "Shutdown"
  PROVE  \A i \in DOMAIN commands' : commands'[i].kind # "Shutdown"
<1>1. /\ commands \in Seq(Commands) /\ Tail(commands) \in Seq(Commands)
      /\ Len(Tail(commands)) = Len(commands) - 1
      /\ \A i \in 1 .. Len(commands) - 1 : Tail(commands)[i] = commands[i + 1]
  BY DEF TypeOK
<1>. QED
  BY <1>1

LEMMA OverPut ==
  ASSUME TypeOK, NEW command \in Commands, Put(command), command.kind # "Shutdown",
         \A i \in DOMAIN commands : commands[i].kind # "Shutdown"
  PROVE  \A i \in DOMAIN commands' : commands'[i].kind # "Shutdown"
<1>1. /\ commands \in Seq(Commands) /\ commands' = Append(commands, command)
  BY DEF TypeOK, Put
<1>2. \A i \in DOMAIN commands' : commands'[i] = IF i \in DOMAIN commands THEN commands[i] ELSE command
  BY <1>1
<1>. QED
  BY <1>2

LEMMA OverStep == TypeOK /\ OverInv /\ [Next]_vars => OverInv'
<1>. SUFFICES ASSUME TypeOK, OverInv, [Next]_vars PROVE OverInv'
  OBVIOUS
<1>. USE DEF mapVars, tokenVars, sessionVars, history, Elsewhere
<1>0. over' \in BOOLEAN /\ over \in BOOLEAN
  <2>1. over' = over \/ over' = TRUE
    BY DEF Next, vars, Session, ForwardCall, CancelCall, Serve, UpstreamEnds, EndSession,
           Ask, Enqueue, Timeout, CallerIs, HandleCommand, SendForward, RejectForward, CancelForward,
           SendRequest, SendFails, Stop, HandleFrame, Respond, ReportProgress, SayListChanged, ReplyFails,
           TransportEnds, EmitHeld, EmitFails, ReportEnd, CloseTransport, AbortTask, Exited, Leave
  <2>. QED
    BY <2>1 DEF TypeOK
<1>1. CASE over
  <2>1. over' /\ events' = <<>>
    BY <1>1 DEF OverInv, Next, vars, Session, ForwardCall, CancelCall, Serve, UpstreamEnds, EndSession,
           Ask, Enqueue, Timeout, CallerIs, HandleCommand, SendForward, RejectForward, CancelForward,
           SendRequest, SendFails, Stop, HandleFrame, Respond, ReportProgress, SayListChanged, ReplyFails,
           TransportEnds, EmitHeld, EmitFails, ReportEnd, CloseTransport, AbortTask, Exited, Leave,
           Emit, EventRoom
  <2>. QED
    BY <2>1 DEF OverInv
<1>2. CASE over'
  <2>1. ~over => events' = <<>>
    BY <1>2 DEF Next, vars, Session, ForwardCall, CancelCall, Serve, UpstreamEnds, EndSession,
           Ask, Enqueue, Timeout, CallerIs, HandleCommand, SendForward, RejectForward, CancelForward,
           SendRequest, SendFails, Stop, HandleFrame, Respond, ReportProgress, SayListChanged, ReplyFails,
           TransportEnds, EmitHeld, EmitFails, ReportEnd, CloseTransport, AbortTask, Exited, Leave
  <2>. QED
    BY <1>1, <1>2, <2>1 DEF OverInv
<1>3. CASE ~over /\ ~over'
  <2>1. \/ commands' = commands \/ commands' = <<>>
        \/ commands # <<>> /\ commands' = Tail(commands)
        \/ \E command \in Commands : command.kind # "Shutdown" /\ Put(command)
    <3>1. ASSUME NEW id \in Id, ForwardCall(id)
          PROVE  commands' = commands \/ \E command \in Commands : command.kind # "Shutdown" /\ Put(command)
      <4>1. ForClient("Forward", id, nextCall) \in Commands /\ ForClient("Forward", id, nextCall).kind # "Shutdown"
        BY <3>1, ConnectionAssumption DEF ForwardCall, TypeOK, Call, ForClient, Commands
      <4>. QED
        BY <3>1, <4>1 DEF ForwardCall
    <3>2. ASSUME NEW id \in Id, CancelCall(id)
          PROVE  commands' = commands \/ \E command \in Commands : command.kind # "Shutdown" /\ Put(command)
      <4>1. ForClient("Cancel", id, claimed[id]) \in Commands /\ ForClient("Cancel", id, claimed[id]).kind # "Shutdown"
        BY <3>2 DEF CancelCall, TypeOK, Optional, ForClient, Commands
      <4>. QED
        BY <3>2, <4>1 DEF CancelCall
    <3>3. ASSUME NEW k \in Caller, Enqueue(k)
          PROVE  \E command \in Commands : command.kind # "Shutdown" /\ Put(command)
      <4>1. [kind |-> "Request", caller |-> k] \in Commands
        BY DEF Commands, Requests
      <4>. QED
        BY <3>3, <4>1 DEF Enqueue
    <3>4. \/ commands' = commands \/ commands' = <<>>
          \/ commands # <<>> /\ commands' = Tail(commands)
          \/ (\E id \in Id : ForwardCall(id) \/ CancelCall(id)) \/ \E k \in Caller : Enqueue(k)
      BY <1>3 DEF Next, vars, Session, Serve, UpstreamEnds, EndSession,
           Ask, Timeout, CallerIs, HandleCommand, SendForward, RejectForward, CancelForward,
           SendRequest, SendFails, Stop, HandleFrame, Respond, ReportProgress, SayListChanged, ReplyFails,
           TransportEnds, EmitHeld, EmitFails, ReportEnd, CloseTransport, AbortTask, Exited, Leave, Take
    <3>. QED
      BY <3>1, <3>2, <3>3, <3>4
  <2>2. \A i \in DOMAIN commands : commands[i].kind # "Shutdown"
    BY <1>3 DEF OverInv
  <2>3. \A i \in DOMAIN commands' : commands'[i].kind # "Shutdown"
    <3>1. CASE commands' = <<>>
      BY <3>1
    <3>. QED
      BY <2>1, <2>2, <3>1, OverTake, OverPut
  <2>. QED
    BY <1>3, <2>3 DEF OverInv
<1>. QED
  BY <1>0, <1>1, <1>2, <1>3

\* What a step does to the call an id stands for.
LEMMA MeaningForgotten ==
  ASSUME TypeOK, IndexesAgree, NEW id \in Id, InsertAndCancel(id)
  PROVE  \A x \in Id : Mapped(x)' = IF x = id THEN None ELSE Mapped(x)
<1>. SUFFICES ASSUME NEW x \in Id PROVE Mapped(x)' = IF x = id THEN None ELSE Mapped(x)
  OBVIOUS
<1>1. byClient[x] # None => byClient[x] \in Minted /\ pending[byClient[x]].id = x
  BY DEF IndexesAgree, TypeOK, Optional
<1>2. byClient[id] # None => byClient[id] \in Minted /\ pending[byClient[id]].id = id
  BY DEF IndexesAgree, TypeOK, Optional
<1>3. byClient'[x] = IF x = id THEN None ELSE byClient[x]
  BY DEF InsertAndCancel, TypeOK
<1>4. byClient[x] # None /\ x # id => pending'[byClient[x]] = pending[byClient[x]]
  BY <1>1, <1>2 DEF InsertAndCancel
<1>. QED
  BY <1>3, <1>4 DEF Mapped

LEMMA MeaningOfOwn ==
  ASSUME TypeOK, IndexesAgree, NEW k \in Caller, InsertInternal(k)
  PROVE  \A x \in Id : Mapped(x)' = Mapped(x)
<1>1. \A x \in Id : byClient[x] # None => byClient[x] # nextId /\ byClient[x] \in Minted
  BY ConnectionAssumption DEF IndexesAgree, IsClient, TypeOK, Optional, Minted
<1>. QED
  BY <1>1 DEF InsertInternal, TypeOK, Mapped

LEMMA MeaningRemoved ==
  ASSUME TypeOK, NEW n \in Minted, Removed(n)
  PROVE  \A x \in Id : Mapped(x)' = IF byClient[x] = n THEN None ELSE Mapped(x)
<1>. SUFFICES ASSUME NEW x \in Id PROVE Mapped(x)' = IF byClient[x] = n THEN None ELSE Mapped(x)
  OBVIOUS
<1>1. byClient'[x] = IF byClient[x] = n THEN None ELSE byClient[x]
  BY DEF Removed
<1>2. byClient[x] # None /\ byClient[x] # n => pending'[byClient[x]] = pending[byClient[x]]
  BY DEF Removed, TypeOK, Optional
<1>3. n # None
  BY ConnectionAssumption
<1>. QED
  BY <1>1, <1>2, <1>3 DEF Mapped

LEMMA MeaningDrained ==
  ASSUME NEW next, NEW told, Leave(next, told)
  PROVE  \A x \in Id : Mapped(x)' = None
BY DEF Leave, Mapped

\* The view while the session listens: with no handler waiting, and with one.
Outward ==
  IF task = "reporting" THEN "ending" ELSE IF task = "running" THEN "up" ELSE task

AtRest == Queued = commands /\ Standing = [id \in Id |-> Mapped(id)] /\ Stage = Outward

LEMMA ViewAtRest ==
  /\ ~over /\ held = None => AtRest
  /\ (~over /\ held = None => AtRest)'
BY DEF AtRest, Queued, Standing, Stage, Outward

\* A handler that starts to wait with its answer shows nothing of it.
Waits(event, before, taken) ==
  /\ held' = [event |-> event, before |-> before, taken |-> taken]
  /\ events' = events /\ task' = task /\ task = "running" /\ held = None /\ ~over /\ ~over'

LEMMA ViewWaits ==
  ASSUME None \notin Held, NEW event \in Events, event.kind # "Ended", NEW before \in Optional(Call),
         NEW taken \in Seq(Commands), Waits(event, before, taken), TypeOK, commands = taken \o commands',
         \A x \in Id : Mapped(x) = IF event.id = x THEN before ELSE Mapped(x)'
  PROVE  UNCHANGED View!vars
<1>1. held' \in Held /\ held' # None /\ held'.event = event /\ held'.before = before /\ held'.taken = taken
  BY DEF Waits, Held
<1>2. AtRest
  BY ViewAtRest DEF Waits
<1>3. Queued' = Queued
  BY <1>1, <1>2 DEF AtRest, Queued, Waits
<1>4. Standing' = Standing
  BY <1>1, <1>2 DEF AtRest, Standing, Waits
<1>5. Stage' = Stage
  BY <1>1, <1>2 DEF AtRest, Stage, Outward, Waits
<1>. QED
  BY <1>3, <1>4, <1>5 DEF View!vars, Waits

LEMMA ViewOver ==
  ASSUME over, over', OverInv, OverInv'
  PROVE  UNCHANGED View!vars
BY DEF OverInv, View!vars, Queued, Standing, Stage

LEMMA AppendBehind ==
  ASSUME NEW s \in Seq(Commands), NEW t \in Seq(Commands), NEW last \in Commands
  PROVE  s \o Append(t, last) = Append(s \o t, last)
<1>1. s \o Append(t, last) \in Seq(Commands) /\ Append(s \o t, last) \in Seq(Commands)
  OBVIOUS
<1>2. Len(s \o Append(t, last)) = Len(Append(s \o t, last))
  OBVIOUS
<1>3. \A i \in 1 .. Len(s \o Append(t, last)) : (s \o Append(t, last))[i] = Append(s \o t, last)[i]
  OBVIOUS
<1>. QED
  BY <1>1, <1>2, <1>3

\* What is queued for the actor is seen at once, behind what a handler took.
LEMMA ViewPut ==
  ASSUME TypeOK, WaitingInv, HeldWhileRunning, ~over, ~over',
         NEW command \in View!Commands, command \in Commands, Room, Put(command),
         UNCHANGED <<held, task, byClient, pending, events>>
  PROVE  View!Send
<1>1. Queued' = Append(Queued, command)
  <2>1. CASE held = None
    BY <2>1 DEF Queued, Put
  <2>2. CASE held # None
    <3>1. held.taken \in Seq(Commands) /\ commands \in Seq(Commands)
      <4>1. held \in Held
        BY <2>2 DEF TypeOK
      <4>. QED
        BY <4>1 DEF TypeOK, Held
    <3>2. held.taken \o Append(commands, command) = Append(held.taken \o commands, command)
      BY <3>1, AppendBehind
    <3>. QED
      BY <2>2, <3>2 DEF Queued, Put
  <2>. QED
    BY <2>1, <2>2
<1>2. Standing' = Standing /\ Stage' = Stage
  BY DEF Standing, Stage, Mapped
<1>3. Stage \in {"up", "ending", "closing"}
  BY DEF Stage, HeldWhileRunning, TypeOK, Room
<1>. QED
  BY <1>1, <1>2, <1>3 DEF View!Send

LEMMA ViewSession ==
  ASSUME TypeOK, WaitingInv, HeldWhileRunning, ~over, ~over',
         Session \/ \E k \in Caller : Ask(k) \/ Enqueue(k) \/ Timeout(k)
  PROVE  View!Send \/ View!Receive \/ UNCHANGED View!vars
<1>. USE DEF mapVars, tokenVars, sessionVars, history
<1>1. ASSUME NEW id \in Id, ForwardCall(id) PROVE View!Send \/ UNCHANGED View!vars
  <2>1. /\ ForClient("Forward", id, nextCall) \in Commands
        /\ ForClient("Forward", id, nextCall) \in View!Commands
    BY <1>1, ConnectionAssumption DEF ForwardCall, TypeOK, Call, ForClient, Commands, View!Commands
  <2>2. CASE Room
    BY <1>1, <2>1, <2>2, ViewPut DEF ForwardCall
  <2>3. CASE ~Room
    BY <1>1, <2>3 DEF ForwardCall, View!vars, Queued, Standing, Stage, Mapped
  <2>. QED
    BY <2>2, <2>3
<1>2. ASSUME NEW id \in Id, CancelCall(id) PROVE View!Send \/ UNCHANGED View!vars
  <2>1. /\ ForClient("Cancel", id, claimed[id]) \in Commands
        /\ ForClient("Cancel", id, claimed[id]) \in View!Commands
    BY <1>2 DEF CancelCall, TypeOK, Optional, ForClient, Commands, View!Commands
  <2>2. CASE Room
    BY <1>2, <2>1, <2>2, ViewPut DEF CancelCall
  <2>3. CASE ~Room
    BY <1>2, <2>3 DEF CancelCall, View!vars, Queued, Standing, Stage, Mapped
  <2>. QED
    BY <2>2, <2>3
<1>3. CASE Serve
  BY <1>3 DEF Serve, View!Receive, Queued, Standing, Stage, Mapped, TypeOK
<1>4. ASSUME NEW k \in Caller, Enqueue(k) PROVE View!Send
  <2>1. [kind |-> "Request", caller |-> k] \in Commands /\ [kind |-> "Request", caller |-> k] \in View!Commands
    BY DEF Commands, Requests, View!Commands
  <2>. QED
    BY <1>4, <2>1, ViewPut DEF Enqueue, CallerIs
<1>5. ASSUME NEW k \in Caller, Ask(k) \/ Timeout(k) PROVE UNCHANGED View!vars
  BY <1>5 DEF Ask, Timeout, CallerIs, View!vars, Queued, Standing, Stage, Mapped
<1>. QED
  BY <1>1, <1>2, <1>3, <1>4, <1>5 DEF Session, UpstreamEnds, EndSession

\* A handler that begins and ends in one step.
LEMMA ViewCommands ==
  ASSUME TypeOK, IndexesAgree, WaitingInv, OverInv, ~over, ~over',
         SendForward \/ CancelForward \/ SendRequest
  PROVE  View!SendUpstream \/ View!CancelUpstream \/ View!TakeOwn
<1>0. PICK command : command = Head(commands)
  OBVIOUS
<1>. DEFINE id == command.id
<1>1. /\ held = None /\ held' = None /\ task = "running" /\ task' = task /\ events' = events
      /\ commands # <<>> /\ commands' = Tail(commands)
  BY DEF SendForward, CancelForward, SendRequest, Take, Ready
<1>2. AtRest /\ AtRest' /\ Outward = "up" /\ Outward' = "up"
  BY <1>1, ViewAtRest DEF Outward
<1>3. CASE SendForward
  <2>1. command.kind = "Forward" /\ id \in Id /\ command.call \in Call
    BY <1>0, <1>3, ForwardTypes DEF SendForward, Take
  <2>2. InsertClient(id, command.call)
    BY <1>0, <1>3 DEF SendForward
  <2>3. Mapped(id)' = command.call /\ \A x \in Id \ {id} : Mapped(x)' = Mapped(x)
    BY <2>1, <2>2, InsertMovesMeaning
  <2>4. Standing' = [Standing EXCEPT ![id] = command.call]
    BY <1>2, <2>1, <2>3 DEF AtRest
  <2>. QED
    BY <1>0, <1>1, <1>2, <2>1, <2>4 DEF AtRest, View!SendUpstream, View!Take, View!Becomes
<1>4. CASE CancelForward
  <2>1. command.kind = "Cancel" /\ id \in Id
    BY <1>0, <1>4, ForwardTypes DEF CancelForward, Take
  <2>2. \A x \in Id : Mapped(x)' = IF x = id THEN None ELSE Mapped(x)
    <3>1. CASE byClient[id] = None
      <4>1. UNCHANGED <<pending, byClient>>
        BY <1>0, <1>4, <3>1 DEF CancelForward, mapVars
      <4>. QED
        BY <3>1, <4>1 DEF Mapped
    <3>2. CASE byClient[id] # None
      <4>1. Removed(byClient[id])
        BY <1>0, <1>4, <3>2, CancelRemoves
      <4>2. byClient[id] \in Minted
        BY <2>1, <3>2 DEF TypeOK, Optional
      <4>3. \A x \in Id : byClient[x] = byClient[id] => pending[byClient[id]].id = x
        BY <4>2 DEF IndexesAgree
      <4>4. \A x \in Id : byClient[x] = byClient[id] => x = id
        BY <2>1, <4>3
      <4>. QED
        BY <4>1, <4>2, <4>4, MeaningRemoved
    <3>. QED
      BY <3>1, <3>2
  <2>3. Standing' = [Standing EXCEPT ![id] = None]
    BY <1>2, <2>1, <2>2 DEF AtRest
  <2>. QED
    BY <1>0, <1>1, <1>2, <2>1, <2>3 DEF AtRest, View!CancelUpstream, View!Take, View!Becomes
<1>5. CASE SendRequest
  <2>1. command \in Requests /\ InsertInternal(command.caller)
    BY <1>0, <1>5, HeadTypes DEF SendRequest, Take, Commands, Requests
  <2>2. \A x \in Id : Mapped(x)' = Mapped(x)
    BY <2>1, MeaningOfOwn DEF Requests
  <2>3. Standing' = Standing
    BY <1>2, <2>2 DEF AtRest
  <2>. QED
    BY <1>0, <1>1, <1>2, <2>1, <2>3 DEF AtRest, View!TakeOwn
<1>. QED
  BY <1>3, <1>4, <1>5

\* Answers: given at once, or shown only when there is room for them.
LEMMA ViewReject ==
  ASSUME TypeOK, IndexesAgree, WaitingInv, ~over, ~over', RejectForward
  PROVE  View!RejectForward \/ UNCHANGED View!vars
<1>. USE DEF sessionVars, Elsewhere
<1>0. PICK command : command = Head(commands)
  OBVIOUS
<1>. DEFINE id == command.id
            call == command.call
<1>1. /\ held = None /\ task = "running" /\ task' = task
      /\ commands # <<>> /\ commands' = Tail(commands)
      /\ command.kind = "Forward" /\ InsertAndCancel(id)
      /\ Emit(Response(id, call), Mapped(id), <<command>>)
  BY <1>0 DEF RejectForward, Take, Ready
<1>2. id \in Id /\ call \in Call /\ command \in Commands
  BY <1>0, <1>1, HeadTypes, ForwardTypes
<1>3. \A x \in Id : Mapped(x)' = IF x = id THEN None ELSE Mapped(x)
  BY <1>1, <1>2, MeaningForgotten
<1>4. AtRest /\ Outward = "up" /\ Outward' = "up"
  BY <1>1, ViewAtRest DEF Outward
<1>5. CASE EventRoom /\ events' = Append(events, Response(id, call)) /\ held' = None
  <2>1. AtRest'
    BY <1>5, ViewAtRest
  <2>2. Standing' = [Standing EXCEPT ![id] = None]
    BY <1>2, <1>3, <1>4, <2>1 DEF AtRest
  <2>. QED
    BY <1>0, <1>1, <1>4, <1>5, <2>1, <2>2
    DEF AtRest, EventRoom, Response, View!RejectForward, View!Take, View!Becomes, View!Emit, View!Response
<1>6. CASE /\ held' = [event |-> Response(id, call), before |-> Mapped(id), taken |-> <<command>>]
           /\ events' = events
  <2>. DEFINE before == Mapped(id)
  <2>1. PICK was : was = before
    OBVIOUS
  <2>2. Response(id, call) \in Events /\ Response(id, call).kind = "Response" /\ Response(id, call).id = id
    BY <1>2 DEF Response, Events
  <2>3. was \in Optional(Call)
    BY <1>2, <2>1, MappedTypes
  <2>4. <<command>> \in Seq(Commands) /\ commands \in Seq(Commands) /\ commands = <<command>> \o commands'
    BY <1>0, <1>1, <1>2 DEF TypeOK
  <2>5. Waits(Response(id, call), was, <<command>>)
    BY <1>1, <1>6, <2>1 DEF Waits
  <2>6. \A x \in Id : Mapped(x) = IF Response(id, call).id = x THEN was ELSE Mapped(x)'
    BY <1>3, <2>1, <2>2
  <2>7. None \notin Held
    BY ConnectionAssumption
  <2>. QED
    BY <2>2, <2>3, <2>4, <2>5, <2>6, <2>7, ViewWaits
<1>. QED
  BY <1>1, <1>5, <1>6, EmitWaits

LEMMA ViewRespond ==
  ASSUME TypeOK, IndexesAgree, WaitingInv, ~over, ~over', NEW n \in Minted, Respond(n)
  PROVE  (\E id \in Id : View!Respond(id)) \/ UNCHANGED View!vars
<1>. USE DEF sessionVars, Elsewhere
<1>0. PICK entry : entry = pending[n]
  OBVIOUS
<1>. DEFINE id == entry.id
            call == entry.call
<1>1. /\ held = None /\ task = "running" /\ task' = task /\ commands' = commands
      /\ entry # None /\ Removed(n)
  BY <1>0, RespondRemoves DEF Respond, Ready
<1>2. \A x \in Id : Mapped(x)' = IF byClient[x] = n THEN None ELSE Mapped(x)
  BY <1>1, MeaningRemoved
<1>3. AtRest /\ Outward = "up" /\ Outward' = "up"
  BY <1>1, ViewAtRest DEF Outward
<1>4. CASE entry.kind = "client"
  <2>1. Emit(Response(id, call), call, <<>>)
    BY <1>0, <1>4 DEF Respond
  <2>2. id \in Id /\ call \in Call /\ call # None
    BY <1>0, <1>1, <1>4, ConnectionAssumption DEF TypeOK, Optional, Entries
  <2>3. \A x \in Id : byClient[x] = n <=> x = id
    BY <1>0, <1>1, <1>4, <2>2 DEF IndexesAgree, IsClient
  <2>4. \A x \in Id : Mapped(x)' = IF x = id THEN None ELSE Mapped(x)
    BY <1>2, <2>3
  <2>5. Mapped(id) = call
    BY <1>0, <2>2, <2>3, ConnectionAssumption DEF Mapped
  <2>6. CASE EventRoom /\ events' = Append(events, Response(id, call)) /\ held' = None
    <3>1. AtRest'
      BY <2>6, ViewAtRest
    <3>2. Standing' = [Standing EXCEPT ![id] = None] /\ Standing[id] = call
      BY <1>3, <2>2, <2>4, <2>5, <3>1 DEF AtRest
    <3>3. View!Respond(id)
      BY <1>1, <1>3, <2>2, <2>6, <3>1, <3>2
      DEF AtRest, EventRoom, Response, View!Respond, View!Becomes, View!Emit, View!Response
    <3>. QED
      BY <2>2, <3>3
  <2>7. CASE /\ held' = [event |-> Response(id, call), before |-> call, taken |-> <<>>]
             /\ events' = events
    <3>1. Response(id, call) \in Events /\ Response(id, call).kind = "Response" /\ Response(id, call).id = id
      BY <2>2 DEF Response, Events
    <3>2. call \in Optional(Call)
      BY <2>2 DEF Optional
    <3>3. <<>> \in Seq(Commands) /\ commands = <<>> \o commands'
      BY <1>1 DEF TypeOK
    <3>4. Waits(Response(id, call), call, <<>>)
      BY <1>1, <2>7 DEF Waits
    <3>5. \A x \in Id : Mapped(x) = IF Response(id, call).id = x THEN call ELSE Mapped(x)'
      BY <2>4, <2>5, <3>1
    <3>6. None \notin Held
      BY ConnectionAssumption
    <3>. QED
      BY <3>1, <3>2, <3>3, <3>4, <3>5, <3>6, ViewWaits
  <2>. QED
    BY <1>1, <2>1, <2>6, <2>7, EmitWaits
<1>5. CASE entry.kind # "client"
  <2>1. held' = None /\ events' = events
    BY <1>0, <1>1, <1>5 DEF Respond
  <2>2. \A x \in Id : byClient[x] # n
    BY <1>0, <1>5 DEF IndexesAgree, IsClient
  <2>3. AtRest'
    BY <2>1, ViewAtRest
  <2>. QED
    BY <1>1, <1>2, <1>3, <2>1, <2>2, <2>3 DEF AtRest, View!vars
<1>. QED
  BY <1>4, <1>5

LEMMA ViewNotices ==
  ASSUME TypeOK, WaitingInv, ~over, ~over', ReportProgress \/ SayListChanged
  PROVE  View!Notify \/ UNCHANGED View!vars
<1>. USE DEF sessionVars, Elsewhere, mapVars
<1>1. /\ held = None /\ task = "running" /\ UNCHANGED <<task, commands, byClient, pending>>
  BY DEF ReportProgress, SayListChanged, Ready
<1>2. PICK kind \in {"Notification", "ListChanged"} : Emit(Notice(kind), None, <<>>)
  BY DEF ReportProgress, SayListChanged
<1>3. AtRest /\ Outward = "up" /\ Outward' = "up" /\ \A x \in Id : Mapped(x)' = Mapped(x)
  BY <1>1, ViewAtRest DEF Outward, Mapped
<1>4. CASE EventRoom /\ events' = Append(events, Notice(kind)) /\ held' = None
  <2>1. AtRest'
    BY <1>4, ViewAtRest
  <2>2. Queued' = Queued /\ Standing' = Standing /\ Stage' = "up" /\ Stage = "up"
    BY <1>1, <1>3, <2>1 DEF AtRest
  <2>. QED
    BY <1>4, <2>2 DEF EventRoom, Notice, View!Notify, View!Emit, View!Notice
<1>5. CASE held' = [event |-> Notice(kind), before |-> None, taken |-> <<>>] /\ events' = events
  <2>1. Notice(kind) \in Events /\ Notice(kind).kind # "Ended" /\ Notice(kind).id = None
    BY DEF Notice, Events
  <2>2. None \in Optional(Call) /\ None \notin Id /\ None \notin Held
    BY ConnectionAssumption DEF Optional
  <2>3. <<>> \in Seq(Commands) /\ commands = <<>> \o commands'
    BY <1>1 DEF TypeOK
  <2>4. Waits(Notice(kind), None, <<>>)
    BY <1>1, <1>5 DEF Waits
  <2>5. \A x \in Id : Mapped(x) = IF Notice(kind).id = x THEN None ELSE Mapped(x)'
    BY <1>3, <2>1, <2>2
  <2>. QED
    BY <2>1, <2>2, <2>3, <2>4, <2>5, ViewWaits
<1>. QED
  BY <1>1, <1>2, <1>4, <1>5, EmitWaits

LEMMA ViewLoss ==
  ASSUME TypeOK, WaitingInv, OverInv, ~over, ~over', SendFails \/ Stop \/ TransportEnds \/ ReplyFails
  PROVE  View!LoseUpstream
<1>. USE DEF sessionVars, Elsewhere, mapVars
<1>1. held = None /\ task = "running" /\ events' = events
  BY DEF SendFails, Stop, Take, TransportEnds, ReplyFails, Ready
<1>2. AtRest /\ Outward = "up"
  BY <1>1, ViewAtRest DEF Outward
<1>3. ~Stop
  <2>1. commands # <<>> => 1 \in DOMAIN commands /\ Head(commands) = commands[1]
    BY DEF TypeOK
  <2>. QED
    BY <2>1 DEF Stop, Take, OverInv
<1>4. CASE SendFails \/ TransportEnds
  <2>1. /\ held' = None /\ task' = "reporting" /\ \A x \in Id : Mapped(x)' = None
        /\ commands' = commands \/ (commands # <<>> /\ commands' = Tail(commands))
    BY <1>4, MeaningDrained DEF SendFails, TransportEnds, Leave
  <2>2. AtRest' /\ Outward' = "ending"
    BY <2>1, ViewAtRest DEF Outward
  <2>3. Standing' = View!Nobody
    BY <2>1, <2>2 DEF AtRest, View!Nobody
  <2>. QED
    BY <1>1, <1>2, <2>1, <2>2, <2>3 DEF AtRest, View!LoseUpstream
<1>5. CASE ReplyFails
  <2>1. held' = [event |-> Notice("Ended"), before |-> None, taken |-> <<>>] /\ commands' = commands
    BY <1>5 DEF ReplyFails
  <2>2. held' # None /\ held'.event.kind = "Ended" /\ held'.taken = <<>>
    <3>1. held' \in Held
      BY <2>1 DEF Held, Events, Notice, Optional
    <3>2. None \notin Held
      BY ConnectionAssumption
    <3>. QED
      BY <2>1, <3>1, <3>2 DEF Notice
  <2>3. Queued' = commands
    BY <2>1, <2>2 DEF Queued, TypeOK
  <2>4. Standing' = View!Nobody /\ Stage' = "ending"
    BY <2>2 DEF Standing, Stage, View!Nobody
  <2>. QED
    BY <1>1, <1>2, <2>3, <2>4 DEF AtRest, View!LoseUpstream
<1>. QED
  BY <1>3, <1>4, <1>5

LEMMA ViewEmitHeld ==
  ASSUME TypeOK, WaitingInv, HeldWhileRunning, ~over, ~over', EmitHeld
  PROVE  View!RejectForward \/ (\E id \in Id : View!Respond(id)) \/ View!Notify \/ View!ReportEnd
<1>. USE DEF sessionVars, Elsewhere
<1>0. PICK event : event = held.event
  OBVIOUS
<1>1. /\ held # None /\ task = "running" /\ EventRoom /\ held' = None
      /\ events' = Append(events, event) /\ commands' = commands
  BY <1>0 DEF EmitHeld, HeldWhileRunning, Leave
<1>2. AtRest'
  BY <1>1, ViewAtRest
<1>3. CASE event.kind = "Ended"
  <2>1. event = Notice("Ended") /\ held.taken = <<>>
    BY <1>0, <1>1, <1>3 DEF WaitingInv, Notice, Response
  <2>2. task' = "closing" /\ \A x \in Id : Mapped(x)' = None
    BY <1>0, <1>3, MeaningDrained DEF EmitHeld, Leave
  <2>3. Queued' = Queued
    BY <1>1, <1>2, <2>1 DEF AtRest, Queued, TypeOK
  <2>4. Standing' = Standing
    BY <1>0, <1>1, <1>2, <1>3, <2>2 DEF AtRest, Standing
  <2>5. Stage = "ending" /\ Stage' = "closing"
    BY <1>0, <1>1, <1>2, <1>3, <2>2 DEF AtRest, Outward, Stage
  <2>. QED
    BY <1>1, <2>1, <2>3, <2>4, <2>5 DEF EventRoom, Notice, View!ReportEnd, View!Emit, View!Notice
<1>4. CASE event.kind # "Ended"
  <2>1. task' = task /\ \A x \in Id : Mapped(x)' = Mapped(x)
    BY <1>0, <1>4 DEF EmitHeld, Mapped
  <2>2. Stage = "up" /\ Stage' = "up"
    BY <1>0, <1>1, <1>2, <1>4, <2>1 DEF AtRest, Outward, Stage
  <2>3. Standing = [x \in Id |-> IF event.id = x THEN held.before ELSE Mapped(x)]
    BY <1>0, <1>1, <1>4 DEF Standing
  <2>4. Standing' = [x \in Id |-> Mapped(x)]
    BY <1>2, <2>1 DEF AtRest
  <2>5. CASE event.kind # "Response"
    <3>1. PICK kind \in {"Notification", "ListChanged"} : event = Notice(kind)
      BY <1>0, <1>1, <1>4, <2>5 DEF WaitingInv, Notice, Response
    <3>2. event.id = None /\ None \notin Id /\ held.taken = <<>>
      BY <1>0, <1>1, <2>5, <3>1, ConnectionAssumption DEF WaitingInv, Notice, Response
    <3>3. Queued' = Queued
      BY <1>1, <1>2, <3>2 DEF AtRest, Queued, TypeOK
    <3>4. Standing' = Standing
      BY <2>3, <2>4, <3>2
    <3>. QED
      BY <1>1, <2>2, <3>1, <3>3, <3>4 DEF EventRoom, Notice, View!Notify, View!Emit, View!Notice
  <2>6. CASE event.kind = "Response"
    <3>1. /\ event.id \in Id /\ event.call \in Call
          /\ event = Response(event.id, event.call) /\ byClient[event.id] = None
          /\ \/ held.taken = <<ForClient("Forward", event.id, event.call)>>
             \/ held.taken = <<>> /\ held.before = event.call
      BY <1>0, <1>1, <2>6 DEF WaitingInv, Notice
    <3>2. Mapped(event.id) = None
      BY <3>1 DEF Mapped
    <3>3. Standing' = [Standing EXCEPT ![event.id] = None]
      BY <2>3, <2>4, <3>1, <3>2
    <3>4. View!Emit(View!Response(event.id, event.call))
      BY <1>1, <3>1 DEF EventRoom, Response, View!Emit, View!Response
    <3>5. CASE held.taken = <<ForClient("Forward", event.id, event.call)>>
      <4>. DEFINE command == ForClient("Forward", event.id, event.call)
      <4>1. command \in Commands /\ command.kind = "Forward" /\ command.id = event.id /\ command.call = event.call
        BY <3>1 DEF ForClient, Commands
      <4>2. Queued = <<command>> \o commands /\ Queued' = commands
        BY <1>1, <1>2, <3>5 DEF AtRest, Queued
      <4>. HIDE DEF command
      <4>3. Queued # <<>> /\ Head(Queued) = command /\ Tail(Queued) = commands
        BY <4>1, <4>2 DEF TypeOK
      <4>. QED
        BY <2>2, <3>3, <3>4, <4>1, <4>2, <4>3 DEF View!RejectForward, View!Take, View!Becomes
    <3>6. CASE held.taken = <<>> /\ held.before = event.call
      <4>1. Queued' = Queued
        BY <1>1, <1>2, <3>6 DEF AtRest, Queued, TypeOK
      <4>2. Standing[event.id] = event.call /\ event.call # None
        BY <2>3, <3>1, <3>6, ConnectionAssumption
      <4>3. View!Respond(event.id)
        BY <2>2, <3>3, <3>4, <4>1, <4>2 DEF View!Respond, View!Becomes
      <4>. QED
        BY <3>1, <4>3
    <3>. QED
      BY <3>1, <3>5, <3>6
  <2>. QED
    BY <2>5, <2>6
<1>. QED
  BY <1>3, <1>4

LEMMA ViewEnds ==
  ASSUME TypeOK, WaitingInv, HeldWhileRunning, ~over, ~over',
         EmitFails \/ ReportEnd \/ CloseTransport \/ AbortTask \/ Exited
  PROVE  View!ReportEnd \/ View!CloseTransport
<1>. USE DEF sessionVars, Elsewhere, mapVars
<1>1. CASE ReportEnd
  <2>1. /\ held = None /\ held' = None /\ task = "reporting" /\ task' = "closing"
        /\ EventRoom /\ events' = Append(events, Notice("Ended"))
        /\ UNCHANGED <<commands, pending, byClient>>
    BY <1>1 DEF ReportEnd, HeldWhileRunning
  <2>2. AtRest /\ AtRest' /\ Outward = "ending" /\ Outward' = "closing"
    BY <2>1, ViewAtRest DEF Outward
  <2>3. \A x \in Id : Mapped(x)' = Mapped(x)
    BY <2>1 DEF Mapped
  <2>4. Queued' = Queued /\ Standing' = Standing
    BY <2>1, <2>2, <2>3 DEF AtRest
  <2>. QED
    BY <2>1, <2>2, <2>4 DEF AtRest, EventRoom, Notice, View!ReportEnd, View!Emit, View!Notice
<1>2. CASE CloseTransport
  <2>1. /\ held = None /\ held' = None /\ task = "closing" /\ task' = "gone"
        /\ commands' = <<>> /\ UNCHANGED <<events, pending, byClient>>
    BY <1>2 DEF CloseTransport, HeldWhileRunning
  <2>2. AtRest /\ AtRest' /\ Outward = "closing" /\ Outward' = "gone"
    BY <2>1, ViewAtRest DEF Outward
  <2>3. \A x \in Id : Mapped(x)' = Mapped(x)
    BY <2>1 DEF Mapped
  <2>4. Standing' = Standing
    BY <2>2, <2>3 DEF AtRest
  <2>. QED
    BY <2>1, <2>2, <2>4 DEF AtRest, View!CloseTransport
<1>3. ~EmitFails /\ ~AbortTask /\ ~Exited
  BY DEF EmitFails, AbortTask, Exited
<1>. QED
  BY <1>1, <1>2, <1>3

\* The session stops listening in the step that ends it, and never listens again.
LEMMA ViewEndSession ==
  ASSUME ~over, over', [Next]_vars
  PROVE  View!StopListening
<1>1. EndSession
  BY DEF Next, vars, sessionVars, Session, ForwardCall, CancelCall, Serve, UpstreamEnds,
         Ask, Enqueue, Timeout, CallerIs, HandleCommand, SendForward, RejectForward, CancelForward,
         SendRequest, SendFails, Stop, HandleFrame, Respond, ReportProgress, SayListChanged, ReplyFails,
         TransportEnds, EmitHeld, EmitFails, ReportEnd, CloseTransport, AbortTask, Exited, Leave, Elsewhere
<1>. QED
  BY <1>1 DEF EndSession, View!StopListening, View!Nobody, Queued, Standing, Stage

LEMMA OverForGood ==
  ASSUME over, [Next]_vars
  PROVE  over'
BY DEF Next, vars, sessionVars, Session, ForwardCall, CancelCall, Serve, UpstreamEnds, EndSession,
       Ask, Enqueue, Timeout, CallerIs, HandleCommand, SendForward, RejectForward, CancelForward,
       SendRequest, SendFails, Stop, HandleFrame, Respond, ReportProgress, SayListChanged, ReplyFails,
       TransportEnds, EmitHeld, EmitFails, ReportEnd, CloseTransport, AbortTask, Exited, Leave, Elsewhere

LEMMA ViewStep ==
  ASSUME TypeOK, IndexesAgree, WaitingInv, HeldWhileRunning, OverInv, OverInv', [Next]_vars
  PROVE  [View!Next]_(View!vars)
<1>1. CASE over
  BY <1>1, OverForGood, ViewOver
<1>2. CASE ~over /\ over'
  BY <1>2, ViewEndSession DEF View!Next, View!ActorStep
<1>3. CASE ~over /\ ~over'
  <2>1. CASE UNCHANGED vars
    BY <2>1 DEF vars, mapVars, View!vars, Queued, Standing, Stage, Mapped, sessionVars
  <2>2. CASE Session \/ \E k \in Caller : Ask(k) \/ Enqueue(k) \/ Timeout(k)
    BY <1>3, <2>2, ViewSession DEF View!Next, View!ActorStep
  <2>3. CASE SendForward \/ CancelForward \/ SendRequest
    BY <1>3, <2>3, ViewCommands DEF View!Next, View!ActorStep
  <2>4. CASE RejectForward
    BY <1>3, <2>4, ViewReject DEF View!Next, View!ActorStep
  <2>5. CASE \E n \in Minted : Respond(n)
    BY <1>3, <2>5, ViewRespond DEF View!Next, View!ActorStep
  <2>6. CASE ReportProgress \/ SayListChanged
    BY <1>3, <2>6, ViewNotices DEF View!Next, View!ActorStep
  <2>7. CASE SendFails \/ Stop \/ TransportEnds \/ ReplyFails
    BY <1>3, <2>7, ViewLoss DEF View!Next, View!ActorStep
  <2>8. CASE EmitHeld
    BY <1>3, <2>8, ViewEmitHeld DEF View!Next, View!ActorStep
  <2>9. CASE EmitFails \/ ReportEnd \/ CloseTransport \/ AbortTask \/ Exited
    BY <1>3, <2>9, ViewEnds DEF View!Next, View!ActorStep
  <2>. QED
    BY <2>1, <2>2, <2>3, <2>4, <2>5, <2>6, <2>7, <2>8, <2>9 DEF Next, HandleCommand, HandleFrame
<1>. QED
  BY <1>1, <1>2, <1>3

\* ImplementsActorView: an actor with its minted ids, its two indexes, the answers to the
\* proxy's own requests, its tokens and its waiting handlers takes the steps of a queue and
\* of one map from client ids to calls, which is all the router counts on.
THEOREM ActorIsWhatTheRouterSees == Spec => ImplementsActorView
<1>1. ASSUME Init PROVE View!Init
  <2>1. AtRest /\ Outward = "up" /\ \A x \in Id : Mapped(x) = None
    BY <1>1, ViewAtRest DEF Init, Outward, Mapped
  <2>. QED
    BY <1>1, <2>1 DEF Init, AtRest, View!Init, View!Nobody
<1>2. Init => WaitingInv /\ HeldWhileRunning /\ OverInv
  BY DEF Init, WaitingInv, HeldWhileRunning, OverInv
<1>3. TypeOK /\ IndexesAgree /\ WaitingInv /\ HeldWhileRunning /\ OverInv /\ [Next]_vars
        => WaitingInv' /\ HeldWhileRunning' /\ OverInv'
  BY WaitingStep, HeldStep, OverStep
<1>4. TypeOK /\ IndexesAgree /\ WaitingInv /\ HeldWhileRunning /\ OverInv /\ OverInv' /\ [Next]_vars
        => [View!Next]_(View!vars)
  BY ViewStep
<1>. QED
  BY <1>1, <1>2, <1>3, <1>4, TypesAndIndexes, PTL DEF Spec, ImplementsActorView, View!Spec

=============================================================================
