------------------------- MODULE RouterCallsProofs -------------------------
(***************************************************************************)
(* The life of a call, for every session of the router: its trace story,   *)
(* its claim in the table of calls in flight, its answer and its frame.    *)
(*                                                                         *)
(* Every step of the router is one of five moves on the calls (WhichMove). *)
(* CallsInv is the inductive invariant; each move preserves it, and the    *)
(* properties of Router follow from it.                                    *)
(***************************************************************************)
EXTENDS RouterProofs, SequenceTheorems

-----------------------------------------------------------------------------
(* The invariant *)

\* The trace says the call was allowed, whatever came of it.
WasAllowed(c) == trace[c] = Open \/ \E outcome \in Outcomes : trace[c] = Ended(outcome)

\* Numbers not minted yet have no past.
FutureIsBlank ==
  \A c \in Call : c >= nextCall => trace[c] = <<>> /\ forwarded[c] = None /\ answers[c] = 0

\* A claim is of a minted call nobody answered, and of no other claim's call.
ClaimsAreSound ==
  \A id \in Id : inFlight[id] # None =>
    /\ inFlight[id].call < nextCall
    /\ answers[inFlight[id].call] = 0
    /\ \A other \in Id \ {id} :
         inFlight[other] # None => inFlight[other].call # inFlight[id].call

\* Only a session that is over is closed, and nothing is open in it.
ClosedOut == closed => end # "none" /\ (end = "TraceFailed" \/ OpenIds = {})

\* What was forwarded was allowed at the time, and is traced as allowed.
ForwardedWasAllowed ==
  Enforced =>
    \A c \in Call : forwarded[c] # None =>
      Allows(Envelope, forwarded[c].request, forwarded[c].now) /\ WasAllowed(c)

CallsInv ==
  /\ FutureIsBlank /\ ClaimsAreSound /\ ClosedOut /\ ForwardedWasAllowed
  /\ OneStoryPerCall /\ OpenCallsAreInFlight /\ AnsweredAsTraced

-----------------------------------------------------------------------------
(* Stories *)

\* A second element makes a pair.
LEMMA AppendToOne ==
  ASSUME NEW S, NEW first \in S, NEW second \in S
  PROVE  Append(<<first>>, second) = <<first, second>>
<1>1. <<first>> \in Seq(S) /\ Len(<<first>>) = 1
      /\ <<first, second>> \in Seq(S) /\ Len(<<first, second>>) = 2
  OBVIOUS
<1>2. Append(<<first>>, second) \in Seq(S) /\ Len(Append(<<first>>, second)) = 2
      /\ Append(<<first>>, second)[1] = first /\ Append(<<first>>, second)[2] = second
  BY <1>1, AppendProperties
<1>3. \A i \in 1 .. 2 : Append(<<first>>, second)[i] = <<first, second>>[i]
  BY <1>2
<1>. QED
  BY <1>1, <1>2, <1>3, SeqEqual

\* One event after an Allow.
LEMMA AfterAllowed ==
  ASSUME NEW outcome \in Recorded
  PROVE  Append(Open, outcome) = Ended(outcome)
<1>1. "allowed" \in Recorded
  BY DEF Recorded
<1>. QED
  BY <1>1, AppendToOne DEF Open, Ended

\* How stories are built.
LEMMA StoriesGrow ==
  /\ Append(<<>>, "refused") = Refused
  /\ Append(<<>>, "denied") = Denied
  /\ Append(<<>>, "allowed") = Open
  /\ <<>> \o <<"allowed", "notForwarded">> = Ended("notForwarded")
<1>1. Append(<<>>, "refused") = Refused
  BY DEF Refused
<1>2. Append(<<>>, "denied") = Denied
  BY DEF Denied
<1>3. Append(<<>>, "allowed") = Open
  BY DEF Open
<1>4. <<>> \o <<"allowed", "notForwarded">> = Ended("notForwarded")
  BY DEF Ended
<1>. QED
  BY <1>1, <1>2, <1>3, <1>4

\* Stories are told apart.
LEMMA StoriesDiffer ==
  /\ Refused # <<>> /\ Denied # <<>> /\ Open # <<>>
  /\ Open # Refused /\ Open # Denied
  /\ \A outcome : Ended(outcome) \notin {<<>>, Refused, Denied, Open}
  /\ {Ended("cancelled"), Ended("abandoned")} \cap {Ended("completed"), Ended("notForwarded")} = {}
  /\ Open[1] = "allowed" /\ \A outcome : Ended(outcome)[1] = "allowed"
<1>1. Refused # <<>> /\ Denied # <<>> /\ Open # <<>> /\ Open # Refused /\ Open # Denied
  BY DEF Refused, Denied, Open
<1>2. ASSUME NEW outcome
      PROVE  Ended(outcome) \notin {<<>>, Refused, Denied, Open} /\ Ended(outcome)[1] = "allowed"
  <2>1. Len(Ended(outcome)) = 2
    BY DEF Ended
  <2>2. Len(Refused) = 1 /\ Len(Denied) = 1 /\ Len(Open) = 1
    BY DEF Refused, Denied, Open
  <2>3. Len(<<>>) = 0
    OBVIOUS
  <2>. QED
    BY <2>1, <2>2, <2>3 DEF Ended
<1>3. \A one, other : Ended(one) = Ended(other) => one = other
  BY DEF Ended
<1>. QED
  BY <1>1, <1>2, <1>3 DEF Open

-----------------------------------------------------------------------------
(* The five moves *)

\* A verdict or a story written for the call being minted.
Tells(story) ==
  trace' = IF Enforced THEN [trace EXCEPT ![nextCall] = story] ELSE trace

\* Nothing happens to any call; the session may end or be closed.
Idle ==
  /\ UNCHANGED callVars
  /\ \/ closed' = closed /\ (closed => end' = end)
     \/ closed' /\ end' = end /\ end # "none" /\ (end = "TraceFailed" \/ OpenIds = {})

\* A call is minted, traced and answered in one handler.
SettledAtOnce ==
  /\ end = "none" /\ closed' = closed /\ end' # "TraceFailed"
  /\ Mint /\ Answered(nextCall)
  /\ \E story \in {Refused, Denied, Ended("notForwarded")} : Tells(story)
  /\ UNCHANGED <<inFlight, forwarded>>

\* A call is minted, traced as allowed, claimed and forwarded.
Opened(id, request, now) ==
  LET u == RouteOf(table, request.tool) IN
  /\ end = "none" /\ closed' = closed /\ end' # "TraceFailed"
  /\ inFlight[id] = None
  /\ u \in Upstream /\ request.tool \in Tool
  /\ Enforced => Allows(Envelope, request, now)
  /\ Mint /\ Tells(Open)
  /\ inFlight' = Claim(id, u, request.tool)
  /\ forwarded' = [forwarded EXCEPT ![nextCall] =
                     [upstream |-> u, request |-> request, now |-> now]]
  /\ UNCHANGED answers

\* A call in flight is traced with its outcome and its claim released; the client
\* is answered if it completed.
Closes(id, outcome) ==
  /\ end # "TraceFailed" /\ ~closed /\ ~closed'
  /\ end' = "TraceFailed" => outcome = "cancelled"
  /\ inFlight[id] # None
  /\ inFlight' = Release(id)
  /\ trace' = IF Enforced THEN [trace EXCEPT ![inFlight[id].call] = Ended(outcome)] ELSE trace
  /\ IF outcome = "completed" THEN Answered(inFlight[id].call) ELSE UNCHANGED answers
  /\ UNCHANGED <<nextCall, forwarded>>

\* The sink refuses an event about a call: one being minted, that may have been
\* traced as allowed or claimed already, or one whose claim was released.
SinkGivesUp ==
  /\ Enforced /\ end # "TraceFailed" /\ end' = "TraceFailed" /\ ~closed /\ ~closed'
  /\ UNCHANGED <<forwarded, answers>>
  /\ \/ /\ Mint
        /\ Tells(Open) \/ UNCHANGED trace
        /\ \/ UNCHANGED inFlight
           \/ \E id \in Id, u \in Upstream, tool \in Tool :
                inFlight[id] = None /\ inFlight' = Claim(id, u, tool)
     \/ /\ UNCHANGED <<nextCall, trace>>
        /\ \E id \in Id : inFlight' = Release(id)

Move ==
  \/ Idle \/ SettledAtOnce \/ SinkGivesUp
  \/ \E id \in Id :
       \/ \E request \in Request, now \in Times : Opened(id, request, now)
       \/ \E outcome \in {"completed", "cancelled", "abandoned"} : Closes(id, outcome)

\* A session whose sink failed does not end for another reason.
LEMMA FailureIsFinal ==
  ASSUME [Next]_vars, end = "TraceFailed"
  PROVE  end' = "TraceFailed"
<1>1. ~HandleClient
  BY DEF HandleClient, AnswerAtOnce, AuditFails, Initialize, Initialized, ClientLeaves,
         RefuseMalformed, RefuseDuplicateId, RefuseUnknownTool, RefuseCall, CancelCall,
         DecisionNotRecorded, DenyCall, ForwardCall, CallNotForwarded, Routed, Serving
<1>2. ~HandleEvent
  BY DEF HandleEvent, MatchedResponse, StaleResponse, Notification, ListChanged, UpstreamEnds,
         TakeEvent, Serving
<1>3. ASSUME NEW u \in Upstream
      PROVE  ~HandleRelist(u)
  BY DEF HandleRelist, InstallTable, RefuseRebound, RefuseCollision, KeepTable, Joined, Serving
<1>4. CASE Unpark \/ ParkedFails \/ WriteFrame \/ WriterFails \/ Teardown
  BY <1>4 DEF Unpark, ParkedFails, WriteFrame, WriterFails, Teardown, CloseSession, AbandonCall,
         serveVars
<1>5. ASSUME NEW u \in Upstream, ReadTools(u) \/ ActorStep(u) \/ UpstreamStep(u) \/ ReportEnd(u)
      PROVE  end' = "TraceFailed"
  BY <1>5 DEF ReadTools, ActorStep, SendUpstream, RejectForward, CancelUpstream, TakeCommand,
         CloseTransport, UpstreamStep, Respond, ReportProgress, ChangeTools, SayListChanged,
         LoseUpstream, ReportEnd, Outside, serveVars
<1>. QED
  BY <1>1, <1>2, <1>3, <1>4, <1>5 DEF Next, Exited, vars, serveVars

\* None is not the record of a call.
LEMMA NoneIsNoRecord == None \notin InFlight
  BY RouterAssumption

\* A number about to be minted has no past.
LEMMA MintedIsBlank ==
  ASSUME TypeOK, CallsInv, Mint
  PROVE  nextCall \in Call /\ trace[nextCall] = <<>> /\ answers[nextCall] = 0
<1>1. nextCall \in Call /\ nextCall >= nextCall
  BY MintType DEF Call
<1>. QED
  BY <1>1 DEF CallsInv, FutureIsBlank

\* What is traced of a call being minted, and of a call in flight.
LEMMA TracedOfMinted ==
  ASSUME TypeOK, CallsInv, Mint, NEW event, Traced(nextCall, event)
  PROVE  /\ event = "refused" => Tells(Refused)
         /\ event = "denied" => Tells(Denied)
         /\ event = "allowed" => Tells(Open)
<1>1. Traced(nextCall, event) => Tells(Append(<<>>, event))
  BY MintedIsBlank DEF Traced, Tells, TypeOK
<1>. QED
  BY <1>1, StoriesGrow

\* A call in flight is open in the trace of a session whose sink works.
LEMMA InFlightIsOpen ==
  ASSUME TypeOK, CallsInv, NEW id \in Id, inFlight[id] # None, Enforced, end # "TraceFailed"
  PROVE  trace[inFlight[id].call] = Open
  BY InFlightType DEF CallsInv, OpenCallsAreInFlight

LEMMA TracedOfInFlight ==
  ASSUME TypeOK, CallsInv, NEW id \in Id, inFlight[id] # None, end # "TraceFailed",
         NEW outcome \in {"completed", "cancelled", "abandoned"},
         Traced(inFlight[id].call, outcome)
  PROVE  trace' = IF Enforced THEN [trace EXCEPT ![inFlight[id].call] = Ended(outcome)]
                              ELSE trace
<1> DEFINE call == inFlight[id].call
<1>1. call \in Call
  BY InFlightType
<1>2. CASE Enforced
  <2>1. Append(trace[call], outcome) = Ended(outcome)
    BY <1>2, InFlightIsOpen, AfterAllowed DEF Recorded
  <2>. QED
    BY <1>1, <1>2, <2>1 DEF Traced, TypeOK
<1>3. CASE ~Enforced
  BY <1>3 DEF Traced
<1>. QED
  BY <1>2, <1>3

\* The client's frames are moves.
LEMMA ClientMoves ==
  ASSUME TypeOK, CallsInv, HandleClient
  PROVE  Move
<1>. USE DEF callVars
<1>0. ASSUME end = "none"
      PROVE  ~closed
  BY <1>0 DEF CallsInv, ClosedOut
<1>1. CASE AnswerAtOnce \/ AuditFails \/ Initialize \/ Initialized \/ ClientLeaves
  BY <1>0, <1>1 DEF AnswerAtOnce, AuditFails, Initialize, Initialized, ClientLeaves, Deliver,
                   Carry, SinkRefuses, Finish, Serving, Move, Idle
<1>2. CASE RefuseCall
  <2>1. end = "none" /\ ~closed /\ Mint /\ UNCHANGED <<inFlight, forwarded>>
    BY <1>0, <1>2 DEF RefuseCall, Serving
  <2>2. CASE Traced(nextCall, "refused") /\ Answered(nextCall) /\ Deliver
    BY <2>1, <2>2, TracedOfMinted DEF Deliver, Move, SettledAtOnce
  <2>3. CASE SinkRefuses /\ UNCHANGED <<trace, answers>>
    BY <2>1, <2>3 DEF SinkRefuses, Finish, Move, SinkGivesUp
  <2>. QED
    BY <1>2, <2>2, <2>3 DEF RefuseCall
<1>3. ASSUME NEW id \in Id, CancelCall(id)
      PROVE  Move
  <2>1. end = "none" /\ ~closed /\ inFlight[id] # None /\ inFlight' = Release(id)
        /\ UNCHANGED <<nextCall, forwarded, answers>>
    BY <1>0, <1>3 DEF CancelCall, Serving
  <2>2. CASE Traced(inFlight[id].call, "cancelled") /\ (Carry \/ SinkRefuses)
    BY <2>1, <2>2, TracedOfInFlight DEF Carry, SinkRefuses, Finish, Move, Closes
  <2>3. CASE SinkRefuses /\ UNCHANGED trace
    BY <2>1, <2>3 DEF SinkRefuses, Finish, Move, SinkGivesUp
  <2>. QED
    BY <1>3, <2>2, <2>3 DEF CancelCall
<1>4. ASSUME NEW id \in Id, NEW request \in Request, DecisionNotRecorded(id, request)
      PROVE  Move
  <2>1. RouteOf(table, request.tool) \in Upstream /\ request.tool \in Tool
    BY <1>4, RoutedType DEF DecisionNotRecorded
  <2>. QED
    BY <1>0, <1>4, <2>1
       DEF DecisionNotRecorded, Routed, Serving, SinkRefuses, Finish, Move, SinkGivesUp
<1>5. ASSUME NEW id \in Id, NEW request \in Request, NEW now \in Times,
             DenyCall(id, request, now)
      PROVE  Move
  <2>1. Tells(Denied)
    BY <1>5, TracedOfMinted DEF DenyCall
  <2>. QED
    BY <1>5, <2>1 DEF DenyCall, Routed, Serving, Deliver, Move, SettledAtOnce
<1>6. ASSUME NEW id \in Id, NEW request \in Request, NEW now \in Times,
             ForwardCall(id, request, now)
      PROVE  Move
  <2>1. RouteOf(table, request.tool) \in Upstream /\ request.tool \in Tool
    BY <1>6, RoutedType DEF ForwardCall
  <2>2. Tells(Open)
    BY <1>6, TracedOfMinted DEF ForwardCall
  <2>3. Enforced => Allows(Envelope, request, now)
    BY <1>6 DEF ForwardCall, Verdict, Allows
  <2>4. Opened(id, request, now)
    BY <1>6, <2>1, <2>2, <2>3 DEF ForwardCall, Routed, Serving, Carry, Opened
  <2>. QED
    BY <2>4 DEF Move
<1>7. ASSUME NEW id \in Id, NEW request \in Request, NEW now \in Times,
             CallNotForwarded(id, request, now)
      PROVE  Move
  <2>1. end = "none" /\ ~closed /\ Mint /\ UNCHANGED <<inFlight, forwarded>>
    BY <1>0, <1>7 DEF CallNotForwarded, Routed, Serving
  <2>2. CASE Answered(nextCall) /\ Deliver
             /\ trace' = IF Enforced
                         THEN [trace EXCEPT ![nextCall] = @ \o <<"allowed", "notForwarded">>]
                         ELSE trace
    <3>1. Tells(Ended("notForwarded"))
      BY <2>1, <2>2, MintedIsBlank, StoriesGrow DEF Tells, TypeOK
    <3>. QED
      BY <2>1, <2>2, <3>1 DEF Deliver, Move, SettledAtOnce
  <2>3. CASE Traced(nextCall, "allowed") /\ SinkRefuses /\ UNCHANGED answers
    BY <2>1, <2>3, TracedOfMinted DEF SinkRefuses, Finish, Move, SinkGivesUp
  <2>. QED
    BY <1>7, <2>2, <2>3 DEF CallNotForwarded
<1>. QED
  BY <1>1, <1>2, <1>3, <1>4, <1>5, <1>6, <1>7
     DEF HandleClient, RefuseMalformed, RefuseDuplicateId, RefuseUnknownTool

\* So is everything else the router and its peers do.
LEMMA WhichMove ==
  ASSUME TypeOK, CallsInv, [Next]_vars
  PROVE  Move
<1>. USE DEF callVars
<1>0. ASSUME end = "none"
      PROVE  ~closed
  BY <1>0 DEF CallsInv, ClosedOut
<1>1. CASE MatchedResponse
  <2> DEFINE e == Head(events)
  <2>1. /\ end = "none" /\ ~closed /\ TakeEvent("Response")
        /\ inFlight[e.id] # None /\ inFlight[e.id].call = e.call
        /\ inFlight' = Release(e.id) /\ UNCHANGED <<nextCall, forwarded>>
    BY <1>0, <1>1 DEF MatchedResponse, Matched, TakeEvent, Serving
  <2>2. e.id \in Id
    BY <2>1, TakeEventType
  <2>3. CASE Traced(inFlight[e.id].call, "completed") /\ Answered(e.call) /\ Deliver
    BY <2>1, <2>2, <2>3, TracedOfInFlight DEF Deliver, Move, Closes
  <2>4. CASE SinkRefuses /\ UNCHANGED <<trace, answers>>
    BY <2>1, <2>2, <2>4 DEF SinkRefuses, Finish, Move, SinkGivesUp
  <2>. QED
    BY <1>1, <2>3, <2>4 DEF MatchedResponse
<1>2. CASE StaleResponse \/ Notification \/ ListChanged \/ UpstreamEnds
  BY <1>0, <1>2 DEF StaleResponse, Notification, ListChanged, UpstreamEnds, TakeEvent, Serving,
                   Deliver, Carry, SinkRefuses, Finish, Move, Idle
<1>3. ASSUME NEW u \in Upstream, HandleRelist(u) \/ ReadTools(u)
      PROVE  Move
  BY <1>0, <1>3 DEF HandleRelist, InstallTable, RefuseRebound, RefuseCollision, KeepTable,
                   Joined, Serving, ReadTools, Deliver, Carry, Finish, Move, Idle, serveVars
<1>4. CASE Unpark \/ ParkedFails \/ WriteFrame \/ WriterFails
  BY <1>0, <1>4 DEF Unpark, ParkedFails, WriteFrame, WriterFails, Move, Idle, serveVars
<1>5. ASSUME NEW id \in Id, AbandonCall(id)
      PROVE  Move
  <2>1. /\ end \notin {"none", "TraceFailed"} /\ ~closed /\ ~closed' /\ inFlight[id] # None
        /\ inFlight' = Release(id) /\ UNCHANGED <<nextCall, forwarded, answers>>
    BY <1>5 DEF AbandonCall, OpenIds, TypeOK
  <2>2. CASE Traced(inFlight[id].call, "abandoned") /\ UNCHANGED end
    BY <2>1, <2>2, TracedOfInFlight DEF Move, Closes
  <2>3. CASE Enforced /\ end' = "TraceFailed" /\ UNCHANGED trace
    BY <2>1, <2>3 DEF Move, SinkGivesUp
  <2>. QED
    BY <1>5, <2>2, <2>3 DEF AbandonCall
<1>6. CASE CloseSession
  BY <1>6 DEF CloseSession, Move, Idle
<1>7. ASSUME NEW u \in Upstream, ActorStep(u) \/ UpstreamStep(u) \/ ReportEnd(u)
      PROVE  Move
  BY <1>7 DEF ActorStep, SendUpstream, RejectForward, CancelUpstream, TakeCommand, CloseTransport,
         UpstreamStep, Respond, ReportProgress, ChangeTools, SayListChanged, LoseUpstream,
         ReportEnd, Outside,
         serveVars, Move, Idle
<1>8. CASE UNCHANGED vars
  BY <1>8 DEF vars, serveVars, Move, Idle
<1>. QED
  BY <1>1, <1>2, <1>3, <1>4, <1>5, <1>6, <1>7, <1>8, ClientMoves
     DEF Next, HandleEvent, Teardown, Exited

-----------------------------------------------------------------------------
(* Each move preserves the invariant *)

LEMMA IdleKeeps ==
  ASSUME TypeOK, CallsInv, [Next]_vars, Idle
  PROVE  CallsInv'
<1>1. UNCHANGED <<inFlight, nextCall, trace, forwarded, answers>>
  BY DEF Idle, callVars
<1>2. (end # "none" => end' # "none") /\ (end = "TraceFailed" => end' = "TraceFailed")
  BY EndIsFinal, FailureIsFinal
<1>3. FutureIsBlank' /\ ClaimsAreSound' /\ ForwardedWasAllowed' /\ AnsweredAsTraced'
  BY <1>1 DEF CallsInv, FutureIsBlank, ClaimsAreSound, ForwardedWasAllowed, WasAllowed,
              AnsweredAsTraced
<1>4. OneStoryPerCall' /\ OpenCallsAreInFlight'
  BY <1>1, <1>2 DEF CallsInv, OneStoryPerCall, OpenCallsAreInFlight
<1>5. ClosedOut'
  BY <1>1, <1>2 DEF Idle, CallsInv, ClosedOut, OpenIds
<1>. QED
  BY <1>3, <1>4, <1>5 DEF CallsInv

LEMMA SettledAtOnceKeeps ==
  ASSUME TypeOK, CallsInv, SettledAtOnce
  PROVE  CallsInv'
<1>1. PICK story \in {Refused, Denied, Ended("notForwarded")} : Tells(story)
  BY DEF SettledAtOnce
<1>2. /\ nextCall \in Call /\ trace[nextCall] = <<>> /\ answers[nextCall] = 0
      /\ nextCall' = nextCall + 1 /\ UNCHANGED <<inFlight, forwarded>>
      /\ answers' = [answers EXCEPT ![nextCall] = 1] /\ ~closed'
      /\ forwarded[nextCall] = None
  <2>1. nextCall \in Call /\ trace[nextCall] = <<>> /\ answers[nextCall] = 0
    BY MintedIsBlank DEF SettledAtOnce
  <2>2. forwarded[nextCall] = None
    BY <2>1 DEF CallsInv, FutureIsBlank, Call
  <2>3. ~closed'
    BY DEF SettledAtOnce, CallsInv, ClosedOut
  <2>. QED
    BY <2>1, <2>2, <2>3 DEF SettledAtOnce, Mint, Answered, TypeOK
<1>3. \A c \in Call : trace'[c] = IF c = nextCall /\ Enforced THEN story ELSE trace[c]
  BY <1>1, <1>2 DEF Tells, TypeOK
<1>4. \A c \in Call : answers'[c] = IF c = nextCall THEN 1 ELSE answers[c]
  BY <1>2 DEF TypeOK
<1>5. story \in {Refused, Denied, Ended("completed"), Ended("notForwarded")}
      /\ story # Open /\ story # <<>> /\ story \in Stories
  BY StoriesDiffer DEF Stories, Outcomes
<1>6. FutureIsBlank' /\ ClaimsAreSound'
  <2>1. \A c \in Call : c >= nextCall' => c # nextCall /\ c >= nextCall
    BY <1>2 DEF Call
  <2>2. FutureIsBlank'
    BY <1>2, <1>3, <1>4, <2>1 DEF CallsInv, FutureIsBlank
  <2>3. \A id \in Id : inFlight[id] # None =>
          inFlight[id].call \in Call /\ inFlight[id].call < nextCall
    BY InFlightType DEF CallsInv, ClaimsAreSound
  <2>4. ClaimsAreSound'
    BY <1>2, <1>4, <2>3 DEF CallsInv, ClaimsAreSound, Call
  <2>. QED
    BY <2>2, <2>4
<1>7. OneStoryPerCall'
  <2>1. \A c \in Call : trace'[c] \in Stories
    BY <1>3, <1>5 DEF CallsInv, OneStoryPerCall
  <2>2. ASSUME Enforced, NEW c \in 0 .. nextCall
        PROVE  trace'[c] # <<>>
    <3>1. c \in Call /\ (c = nextCall \/ c \in 0 .. nextCall - 1)
      BY <1>2, Bounds DEF Call
    <3>. QED
      BY <1>3, <1>5, <2>2, <3>1 DEF CallsInv, OneStoryPerCall, SettledAtOnce
  <2>. QED
    BY <1>2, <2>1, <2>2 DEF OneStoryPerCall, Call
<1>8. OpenCallsAreInFlight'
  <2>. SUFFICES ASSUME Enforced, NEW c \in Call
                PROVE  trace'[c] = Open <=>
                         \E id \in Id : inFlight[id] # None /\ inFlight[id].call = c
    BY <1>2 DEF OpenCallsAreInFlight
  <2>1. trace'[c] = Open <=> trace[c] = Open
    BY <1>2, <1>3, <1>5, StoriesDiffer
  <2>. QED
    BY <2>1 DEF CallsInv, OpenCallsAreInFlight, SettledAtOnce
<1>9. AnsweredAsTraced'
  BY <1>2, <1>3, <1>4, <1>5 DEF CallsInv, AnsweredAsTraced
<1>10. ForwardedWasAllowed' /\ ClosedOut'
  <2>1. \A c \in Call : forwarded[c] # None => trace'[c] = trace[c]
    BY <1>2, <1>3
  <2>. QED
    BY <1>2, <2>1 DEF CallsInv, ForwardedWasAllowed, WasAllowed, ClosedOut
<1>. QED
  BY <1>6, <1>7, <1>8, <1>9, <1>10 DEF CallsInv

LEMMA OpenedKeeps ==
  ASSUME TypeOK, CallsInv,
         NEW id \in Id, NEW request \in Request, NEW now \in Times, Opened(id, request, now)
  PROVE  CallsInv'
<1> DEFINE u == RouteOf(table, request.tool)
           record == [upstream |-> u, tool |-> request.tool, call |-> nextCall]
           judged == [upstream |-> u, request |-> request, now |-> now]
<1>1. /\ nextCall \in Call /\ trace[nextCall] = <<>> /\ answers[nextCall] = 0
      /\ nextCall' = nextCall + 1 /\ inFlight[id] = None /\ ~closed' /\ end = "none"
      /\ UNCHANGED answers /\ (Enforced => Allows(Envelope, request, now))
  <2>1. nextCall \in Call /\ trace[nextCall] = <<>> /\ answers[nextCall] = 0
    BY MintedIsBlank DEF Opened
  <2>. QED
    BY <2>1 DEF Opened, Mint, CallsInv, ClosedOut
<1>2. record \in InFlight /\ record # None /\ record.call = nextCall
  <2>1. record \in InFlight
    BY <1>1 DEF Opened, InFlight
  <2>. QED
    BY <2>1, NoneIsNoRecord
<1>3. \A other \in Id : inFlight'[other] = IF other = id THEN record ELSE inFlight[other]
  BY DEF Opened, Claim, TypeOK
<1>4. \A c \in Call : trace'[c] = IF c = nextCall /\ Enforced THEN Open ELSE trace[c]
  BY <1>1 DEF Opened, Tells, TypeOK
<1>5. \A c \in Call : forwarded'[c] = IF c = nextCall THEN judged ELSE forwarded[c]
  BY <1>1 DEF Opened, TypeOK
<1>6. \A other \in Id : inFlight[other] # None =>
        inFlight[other].call \in Call /\ inFlight[other].call < nextCall
  BY InFlightType DEF CallsInv, ClaimsAreSound
<1>7. FutureIsBlank'
  <2>1. \A c \in Call : c >= nextCall' => c # nextCall /\ c >= nextCall
    BY <1>1 DEF Call
  <2>. QED
    BY <1>1, <1>4, <1>5, <2>1 DEF CallsInv, FutureIsBlank
<1>8. ClaimsAreSound'
  <2>. SUFFICES ASSUME NEW a \in Id, inFlight'[a] # None
                PROVE  /\ inFlight'[a].call < nextCall' /\ answers[inFlight'[a].call] = 0
                       /\ \A b \in Id \ {a} :
                            inFlight'[b] # None => inFlight'[b].call # inFlight'[a].call
    BY <1>1 DEF ClaimsAreSound
  <2>1. nextCall < nextCall' /\ nextCall \in Int
    BY <1>1 DEF Call
  <2>2. CASE a = id
    BY <1>1, <1>2, <1>3, <1>6, <2>1, <2>2 DEF Call
  <2>3. CASE a # id
    BY <1>1, <1>2, <1>3, <1>6, <2>1, <2>3 DEF CallsInv, ClaimsAreSound, Call
  <2>. QED
    BY <2>2, <2>3
<1>9. OneStoryPerCall'
  <2>1. \A c \in Call : trace'[c] \in Stories
    BY <1>4 DEF CallsInv, OneStoryPerCall, Stories
  <2>2. ASSUME Enforced, NEW c \in 0 .. nextCall
        PROVE  trace'[c] # <<>>
    <3>1. c \in Call /\ (c = nextCall \/ c \in 0 .. nextCall - 1)
      BY <1>1, Bounds DEF Call
    <3>. QED
      BY <1>1, <1>4, <2>2, <3>1, StoriesDiffer DEF CallsInv, OneStoryPerCall
  <2>. QED
    BY <1>1, <2>1, <2>2 DEF OneStoryPerCall, Call
<1>10. OpenCallsAreInFlight'
  <2>. SUFFICES ASSUME Enforced, NEW c \in Call
                PROVE  trace'[c] = Open <=>
                         \E a \in Id : inFlight'[a] # None /\ inFlight'[a].call = c
    BY DEF OpenCallsAreInFlight
  <2>1. CASE c = nextCall
    BY <1>2, <1>3, <1>4, <2>1
  <2>2. CASE c # nextCall
    <3>1. trace'[c] = Open <=> \E a \in Id : inFlight[a] # None /\ inFlight[a].call = c
      BY <1>1, <1>4, <2>2 DEF CallsInv, OpenCallsAreInFlight
    <3>. QED
      BY <1>1, <1>2, <1>3, <2>2, <3>1
  <2>. QED
    BY <2>1, <2>2
<1>11. AnsweredAsTraced'
  BY <1>1, <1>4, StoriesDiffer DEF CallsInv, AnsweredAsTraced
<1>12. ForwardedWasAllowed'
  <2>. SUFFICES ASSUME Enforced, NEW c \in Call, forwarded'[c] # None
                PROVE  Allows(Envelope, forwarded'[c].request, forwarded'[c].now) /\ WasAllowed(c)'
    BY DEF ForwardedWasAllowed
  <2>1. CASE c = nextCall
    BY <1>1, <1>4, <1>5, <2>1 DEF WasAllowed
  <2>2. CASE c # nextCall
    BY <1>4, <1>5, <2>2 DEF CallsInv, ForwardedWasAllowed, WasAllowed
  <2>. QED
    BY <2>1, <2>2
<1>. QED
  BY <1>1, <1>7, <1>8, <1>9, <1>10, <1>11, <1>12 DEF CallsInv, ClosedOut

LEMMA ClosesKeeps ==
  ASSUME TypeOK, CallsInv, [Next]_vars,
         NEW id \in Id, NEW outcome \in {"completed", "cancelled", "abandoned"},
         Closes(id, outcome)
  PROVE  CallsInv'
<1> DEFINE call == inFlight[id].call
<1>1. /\ call \in Call /\ call < nextCall /\ answers[call] = 0
      /\ end # "TraceFailed" /\ ~closed' /\ inFlight[id] # None
      /\ UNCHANGED <<nextCall, forwarded>>
      /\ (Enforced => trace[call] = Open)
  BY InFlightType, InFlightIsOpen DEF Closes, CallsInv, ClaimsAreSound
<1>2. \A other \in Id : inFlight'[other] = IF other = id THEN None ELSE inFlight[other]
  BY DEF Closes, Release, TypeOK
<1>3. \A c \in Call : trace'[c] = IF c = call /\ Enforced THEN Ended(outcome) ELSE trace[c]
  BY <1>1 DEF Closes, TypeOK
<1>4. \A c \in Call :
        answers'[c] = IF c = call /\ outcome = "completed" THEN 1 ELSE answers[c]
  BY <1>1 DEF Closes, Answered, TypeOK
<1>5. \A other \in Id \ {id} :
        inFlight[other] # None => inFlight[other].call # call
  BY <1>1 DEF CallsInv, ClaimsAreSound
<1>6. FutureIsBlank'
  BY <1>1, <1>3, <1>4 DEF CallsInv, FutureIsBlank, Call, TypeOK
<1>7. ClaimsAreSound'
  <2>. SUFFICES ASSUME NEW a \in Id, inFlight'[a] # None
                PROVE  /\ inFlight'[a].call < nextCall' /\ answers'[inFlight'[a].call] = 0
                       /\ \A b \in Id \ {a} :
                            inFlight'[b] # None => inFlight'[b].call # inFlight'[a].call
    BY DEF ClaimsAreSound
  <2>1. a # id /\ inFlight'[a] = inFlight[a] /\ inFlight[a].call # call
        /\ inFlight[a].call \in Call
    BY <1>2, <1>5, InFlightType
  <2>. QED
    BY <1>1, <1>2, <1>4, <2>1 DEF CallsInv, ClaimsAreSound
<1>8. OneStoryPerCall'
  <2>1. Ended(outcome) \in Stories /\ Ended(outcome) # <<>>
    BY StoriesDiffer DEF Stories, Outcomes
  <2>2. \A c \in 0 .. nextCall - 1 : c \in Call
    BY Bounds DEF TypeOK, Call
  <2>. QED
    BY <1>1, <1>3, <2>1, <2>2 DEF CallsInv, OneStoryPerCall
<1>9. OpenCallsAreInFlight'
  <2>. SUFFICES ASSUME Enforced, NEW c \in Call
                PROVE  trace'[c] = Open <=>
                         \E a \in Id : inFlight'[a] # None /\ inFlight'[a].call = c
    BY DEF OpenCallsAreInFlight
  <2>1. trace[c] = Open <=> \E a \in Id : inFlight[a] # None /\ inFlight[a].call = c
    BY <1>1 DEF CallsInv, OpenCallsAreInFlight
  <2>2. CASE c = call
    BY <1>2, <1>3, <1>5, <2>2, StoriesDiffer
  <2>3. CASE c # call
    BY <1>2, <1>3, <2>1, <2>3
  <2>. QED
    BY <2>2, <2>3
<1>10. AnsweredAsTraced'
  <2>. SUFFICES ASSUME NEW c \in Call
                PROVE  /\ answers'[c] <= 1
                       /\ Enforced => (answers'[c] = 1 <=>
                            trace'[c] \in {Refused, Denied, Ended("completed"), Ended("notForwarded")})
    BY DEF AnsweredAsTraced
  <2>1. CASE c = call
    <3>1. CASE outcome = "completed"
      BY <1>1, <1>3, <1>4, <2>1, <3>1
    <3>2. CASE outcome \in {"cancelled", "abandoned"}
      <4>1. Ended(outcome) \notin {Refused, Denied, Ended("completed"), Ended("notForwarded")}
        BY <3>2, StoriesDiffer
      <4>2. answers'[c] = 0 /\ (Enforced => trace'[c] = Ended(outcome))
        BY <1>1, <1>3, <1>4, <2>1, <3>2
      <4>. QED
        BY <4>1, <4>2
    <3>. QED
      BY <3>1, <3>2
  <2>2. CASE c # call
    BY <1>3, <1>4, <2>2 DEF CallsInv, AnsweredAsTraced
  <2>. QED
    BY <2>1, <2>2
<1>11. ForwardedWasAllowed'
  BY <1>1, <1>3 DEF CallsInv, ForwardedWasAllowed, WasAllowed, Outcomes
<1>. QED
  BY <1>1, <1>6, <1>7, <1>8, <1>9, <1>10, <1>11 DEF CallsInv, ClosedOut

LEMMA SinkGivesUpKeeps ==
  ASSUME TypeOK, CallsInv, SinkGivesUp
  PROVE  CallsInv'
<1>1. /\ end' = "TraceFailed" /\ ~closed' /\ UNCHANGED <<forwarded, answers>>
  BY DEF SinkGivesUp
<1>2. CASE /\ Mint
           /\ Tells(Open) \/ UNCHANGED trace
           /\ \/ UNCHANGED inFlight
              \/ \E id \in Id, u \in Upstream, tool \in Tool :
                   inFlight[id] = None /\ inFlight' = Claim(id, u, tool)
  <2>1. /\ nextCall \in Call /\ trace[nextCall] = <<>> /\ answers[nextCall] = 0
        /\ nextCall' = nextCall + 1 /\ forwarded[nextCall] = None
    BY <1>2, MintedIsBlank DEF Mint, CallsInv, FutureIsBlank, Call
  <2>2. \A c \in Call : trace'[c] = trace[c] \/ (c = nextCall /\ trace'[c] = Open)
    BY <1>2 DEF Tells, TypeOK
  <2>3. \A other \in Id :
          \/ inFlight'[other] = inFlight[other]
          \/ /\ inFlight'[other].call = nextCall
             /\ \A a \in Id \ {other} : inFlight'[a] = inFlight[a]
    BY <1>2 DEF Claim, TypeOK
  <2>4. \A other \in Id : inFlight[other] # None =>
          inFlight[other].call \in Call /\ inFlight[other].call < nextCall
    BY InFlightType DEF CallsInv, ClaimsAreSound
  <2>5. FutureIsBlank'
    <3>1. \A c \in Call : c >= nextCall' => c # nextCall /\ c >= nextCall
      BY <2>1 DEF Call
    <3>. QED
      BY <1>1, <2>2, <3>1 DEF CallsInv, FutureIsBlank
  <2>6. ClaimsAreSound'
    <3>. SUFFICES ASSUME NEW a \in Id, inFlight'[a] # None
                  PROVE  /\ inFlight'[a].call < nextCall' /\ answers[inFlight'[a].call] = 0
                         /\ \A b \in Id \ {a} :
                              inFlight'[b] # None => inFlight'[b].call # inFlight'[a].call
      BY <1>1 DEF ClaimsAreSound
    <3>1. nextCall < nextCall' /\ nextCall \in Int
      BY <2>1 DEF Call
    <3>2. CASE inFlight'[a] = inFlight[a]
      BY <2>1, <2>3, <2>4, <3>1, <3>2 DEF CallsInv, ClaimsAreSound, Call
    <3>3. CASE inFlight'[a].call = nextCall /\ \A b \in Id \ {a} : inFlight'[b] = inFlight[b]
      BY <2>1, <2>4, <3>1, <3>3 DEF Call
    <3>. QED
      BY <2>3, <3>2, <3>3
  <2>7. OneStoryPerCall' /\ OpenCallsAreInFlight'
    BY <1>1, <2>2 DEF CallsInv, OneStoryPerCall, OpenCallsAreInFlight, Stories
  <2>8. AnsweredAsTraced'
    BY <1>1, <2>1, <2>2, StoriesDiffer DEF CallsInv, AnsweredAsTraced
  <2>9. ForwardedWasAllowed' /\ ClosedOut'
    BY <1>1, <2>1, <2>2 DEF CallsInv, ForwardedWasAllowed, WasAllowed, ClosedOut
  <2>. QED
    BY <2>5, <2>6, <2>7, <2>8, <2>9 DEF CallsInv
<1>3. CASE UNCHANGED <<nextCall, trace>> /\ \E id \in Id : inFlight' = Release(id)
  <2>1. \A other \in Id : inFlight'[other] # None => inFlight'[other] = inFlight[other]
    BY <1>3 DEF Release, TypeOK
  <2>2. FutureIsBlank' /\ ClaimsAreSound'
    BY <1>1, <1>3, <2>1 DEF CallsInv, FutureIsBlank, ClaimsAreSound
  <2>3. OneStoryPerCall' /\ OpenCallsAreInFlight' /\ AnsweredAsTraced'
    BY <1>1, <1>3 DEF CallsInv, OneStoryPerCall, OpenCallsAreInFlight, AnsweredAsTraced
  <2>4. ForwardedWasAllowed' /\ ClosedOut'
    BY <1>1, <1>3 DEF CallsInv, ForwardedWasAllowed, WasAllowed, ClosedOut
  <2>. QED
    BY <2>2, <2>3, <2>4 DEF CallsInv
<1>. QED
  BY <1>2, <1>3 DEF SinkGivesUp

-----------------------------------------------------------------------------
(* The theorems *)

LEMMA CallsInvHolds == Spec => [](TypeOK /\ CallsInv)
<1>1. Init => CallsInv
  <2>. SUFFICES ASSUME Init PROVE CallsInv
    OBVIOUS
  <2>1. FutureIsBlank /\ ClaimsAreSound /\ ClosedOut /\ ForwardedWasAllowed
    BY DEF Init, FutureIsBlank, ClaimsAreSound, ClosedOut, ForwardedWasAllowed
  <2>2. OneStoryPerCall
    BY DEF Init, OneStoryPerCall, Stories
  <2>3. OpenCallsAreInFlight /\ AnsweredAsTraced
    BY StoriesDiffer DEF Init, OpenCallsAreInFlight, AnsweredAsTraced
  <2>. QED
    BY <2>1, <2>2, <2>3 DEF CallsInv
<1>2. TypeOK /\ CallsInv /\ [Next]_vars => CallsInv'
  BY WhichMove, IdleKeeps, SettledAtOnceKeeps, OpenedKeeps, ClosesKeeps, SinkGivesUpKeeps
     DEF Move
<1>. QED
  BY <1>1, <1>2, InitTypes, StepTypes, PTL DEF Spec

\* OneStoryPerCall: no interleaving of calls, cancellations, late responses, re-used
\* ids and teardown writes a second verdict or a second ending for a call.
THEOREM StoriesAreConsistent == Spec => []OneStoryPerCall
  BY CallsInvHolds, PTL DEF CallsInv

\* ForwardedOnlyIfAllowed: no frame reaches an upstream without a recorded Allow.
THEOREM NothingPassesTheGate == Spec => []ForwardedOnlyIfAllowed
<1>1. CallsInv => ForwardedOnlyIfAllowed
  BY StoriesDiffer DEF CallsInv, ForwardedWasAllowed, WasAllowed, ForwardedOnlyIfAllowed
<1>. QED
  BY <1>1, CallsInvHolds, PTL

\* OpenCallsAreInFlight: the trace's open calls are the table of calls in flight.
THEOREM TraceAndTableAgree == Spec => []OpenCallsAreInFlight
  BY CallsInvHolds, PTL DEF CallsInv

\* AnsweredAsTraced: the client hears what the trace says, once.
THEOREM AnswersMatchTheTrace == Spec => []AnsweredAsTraced
  BY CallsInvHolds, PTL DEF CallsInv

\* AllowsAreAccountedFor: no Allow is left without its terminal event.
THEOREM EveryAllowIsClosed == Spec => []AllowsAreAccountedFor
<1>1. CallsInv => AllowsAreAccountedFor
  BY DEF CallsInv, ClosedOut, OpenIds, OpenCallsAreInFlight, AllowsAreAccountedFor
<1>. QED
  BY <1>1, CallsInvHolds, PTL

-----------------------------------------------------------------------------
(* No call is stranded *)

IsAbout(command, id) == command.id = id

NothingQueued(u, id) == \A i \in DOMAIN commands[u] : ~IsAbout(commands[u][i], id)

\* The call is queued for u, and nothing behind it is about its id.
QueuedLast(u, id, c) ==
  \E i \in DOMAIN commands[u] :
    /\ commands[u][i] = CommandOf("Forward", id, c)
    /\ \A j \in DOMAIN commands[u] : j > i => ~IsAbout(commands[u][j], id)

Arrived(u, id, c) == \E i \in DOMAIN events : events[i] = EventOf("Response", u, id, c)

Known(u, id, c) ==
  QueuedLast(u, id, c) \/ (NothingQueued(u, id) /\ pending[u][id] = c) \/ Arrived(u, id, c)

Claimed(u, id, c) == inFlight[id] # None /\ inFlight[id].upstream = u /\ inFlight[id].call = c

\* NoCallIsStranded does not say what is queued behind a call, nor what an id that is
\* mapped still has in the queue: earlier uses of the id may be in front of the call,
\* no later one behind it.
CallsAreKnown ==
  end = "none" =>
    \A id \in Id, u \in Upstream, c \in Call :
      Claimed(u, id, c) /\ actor[u] = "up" => Known(u, id, c)

LEMMA TakeMovesCall ==
  ASSUME TypeOK, NEW u \in Upstream, commands[u] # <<>>,
         commands' = [commands EXCEPT ![u] = Tail(@)], NEW id \in Id, NEW c \in Call
  PROVE  /\ NothingQueued(u, id) => NothingQueued(u, id)' /\ ~IsAbout(Head(commands[u]), id)
         /\ QueuedLast(u, id, c) =>
              \/ QueuedLast(u, id, c)'
              \/ Head(commands[u]) = CommandOf("Forward", id, c) /\ NothingQueued(u, id)'
<1> DEFINE queue == commands[u]
<1>1. queue \in Seq(Commands) /\ commands'[u] = Tail(queue)
  BY DEF TypeOK
<1>2. /\ 1 \in DOMAIN queue /\ Head(queue) = queue[1]
      /\ \A i \in DOMAIN Tail(queue) : i \in Nat /\ i + 1 \in DOMAIN queue /\ Tail(queue)[i] = queue[i + 1]
      /\ \A i \in DOMAIN queue : i \in Nat /\ (i # 1 => i - 1 \in DOMAIN Tail(queue) /\ Tail(queue)[i - 1] = queue[i])
  <2> HIDE DEF queue
  <2>1. Len(queue) \in Nat /\ Len(queue) > 0
    BY <1>1 DEF queue
  <2>2. Len(Tail(queue)) = Len(queue) - 1 /\ DOMAIN Tail(queue) = 1 .. Len(queue) - 1
    BY <1>1, <2>1
  <2>3. \A i \in 1 .. Len(queue) - 1 : Tail(queue)[i] = queue[i + 1]
    BY <1>1, <2>1, <2>2
  <2>. QED
    BY <1>1, <2>1, <2>2, <2>3
<1>3. NothingQueued(u, id) => NothingQueued(u, id)' /\ ~IsAbout(Head(commands[u]), id)
  BY <1>1, <1>2 DEF NothingQueued
<1>4. ASSUME NEW i \in DOMAIN queue, queue[i] = CommandOf("Forward", id, c),
             \A j \in DOMAIN queue : j > i => ~IsAbout(queue[j], id)
      PROVE  \/ QueuedLast(u, id, c)'
             \/ Head(queue) = CommandOf("Forward", id, c) /\ NothingQueued(u, id)'
  <2>1. CASE i = 1
    <3>1. \A j \in DOMAIN Tail(queue) : j + 1 \in DOMAIN queue /\ j + 1 > i
      BY <1>1, <1>2, <2>1
    <3>. QED
      BY <1>1, <1>2, <1>4, <2>1, <3>1, ZenonT(60) DEF NothingQueued
  <2>2. CASE i # 1
    <3>1. i - 1 \in DOMAIN Tail(queue) /\ Tail(queue)[i - 1] = CommandOf("Forward", id, c)
      BY <1>2, <1>4, <2>2
    <3>2. \A j \in DOMAIN Tail(queue) : j > i - 1 => ~IsAbout(Tail(queue)[j], id)
      <4>1. \A j \in DOMAIN Tail(queue) : j > i - 1 => j + 1 > i
        BY <1>2
      <4>. QED
        BY <1>2, <1>4, <4>1
    <3>. QED
      BY <1>1, <3>1, <3>2 DEF QueuedLast
  <2>. QED
    BY <2>1, <2>2
<1>. QED
  BY <1>3, <1>4 DEF QueuedLast

LEMMA SendKeepsCall ==
  ASSUME TypeOK, NEW u \in Upstream, NEW command, Send(u, command), NEW id \in Id, NEW c \in Call
  PROVE  /\ ~IsAbout(command, id) =>
              /\ NothingQueued(u, id) => NothingQueued(u, id)'
              /\ QueuedLast(u, id, c) => QueuedLast(u, id, c)'
         /\ command = CommandOf("Forward", id, c) => QueuedLast(u, id, c)'
<1> DEFINE queue == commands[u]
<1>1. queue \in Seq(Commands) /\ commands'[u] = Append(queue, command)
  BY DEF TypeOK, Send
<1>2. /\ \A i \in DOMAIN queue : i \in DOMAIN commands'[u] /\ commands'[u][i] = queue[i]
      /\ \A i \in DOMAIN commands'[u] : i \in DOMAIN queue \/ (i = Len(queue) + 1 /\ commands'[u][i] = command)
      /\ Len(queue) + 1 \in DOMAIN commands'[u] /\ commands'[u][Len(queue) + 1] = command
      /\ \A i \in DOMAIN commands'[u] : ~(i > Len(queue) + 1)
  <2> HIDE DEF queue
  <2>. QED
    BY <1>1
<1>3. ~IsAbout(command, id) /\ NothingQueued(u, id) => NothingQueued(u, id)'
  BY <1>2 DEF NothingQueued
<1>4. ~IsAbout(command, id) /\ QueuedLast(u, id, c) => QueuedLast(u, id, c)'
  <2>. SUFFICES ASSUME ~IsAbout(command, id), NEW i \in DOMAIN queue,
                       queue[i] = CommandOf("Forward", id, c),
                       \A j \in DOMAIN queue : j > i => ~IsAbout(queue[j], id)
                PROVE  QueuedLast(u, id, c)'
    BY DEF QueuedLast
  <2>1. i \in DOMAIN commands'[u] /\ commands'[u][i] = CommandOf("Forward", id, c)
    BY <1>2
  <2>2. \A j \in DOMAIN commands'[u] : j > i => ~IsAbout(commands'[u][j], id)
    BY <1>2
  <2>. QED
    BY <2>1, <2>2 DEF QueuedLast
<1>5. command = CommandOf("Forward", id, c) => QueuedLast(u, id, c)'
  BY <1>2 DEF QueuedLast
<1>. QED
  BY <1>3, <1>4, <1>5

\* The queue of another upstream is left alone.
LEMMA OtherQueues ==
  ASSUME TypeOK, NEW u \in Upstream, NEW queue, commands' = [commands EXCEPT ![u] = queue],
         NEW v \in Upstream \ {u}, NEW id \in Id, NEW c \in Call
  PROVE  NothingQueued(v, id)' = NothingQueued(v, id) /\ QueuedLast(v, id, c)' = QueuedLast(v, id, c)
<1>1. commands'[v] = commands[v]
  BY DEF TypeOK
<1>. QED
  BY <1>1 DEF NothingQueued, QueuedLast

\* What a step can do to the event queue.
EventsGrow == events' = events \/ \E event : events' = Append(events, event)

LEMMA ArrivedStays ==
  ASSUME TypeOK, NEW u \in Upstream, NEW id \in Id, NEW c \in Call
  PROVE  /\ EventsGrow /\ Arrived(u, id, c) => Arrived(u, id, c)'
         /\ events' = Append(events, EventOf("Response", u, id, c)) => Arrived(u, id, c)'
         /\ events # <<>> /\ events' = Tail(events) /\ Head(events) # EventOf("Response", u, id, c)
              => (Arrived(u, id, c) => Arrived(u, id, c)')
<1>1. events \in Seq(Events)
  BY DEF TypeOK
<1>2. ASSUME NEW event, events' = Append(events, event)
      PROVE  /\ \A i \in DOMAIN events : i \in DOMAIN events' /\ events'[i] = events[i]
             /\ Len(events) + 1 \in DOMAIN events' /\ events'[Len(events) + 1] = event
  BY <1>1, <1>2
<1>3. ASSUME events # <<>>, events' = Tail(events), NEW i \in DOMAIN events,
             events[i] = EventOf("Response", u, id, c), Head(events) # EventOf("Response", u, id, c)
      PROVE  i - 1 \in DOMAIN events' /\ events'[i - 1] = EventOf("Response", u, id, c)
  <2>1. i \in 1 .. Len(events) /\ Len(events) \in Nat /\ Head(events) = events[1]
    BY <1>1, <1>3
  <2>2. i # 1
    BY <1>3, <2>1
  <2>. QED
    BY <1>1, <1>3, <2>1, <2>2
<1>. QED
  BY <1>2, <1>3 DEF EventsGrow, Arrived

\* Steps of a session that goes on, as far as calls in flight are concerned: most
\* take claims and actors away and nothing else ...
ClaimsShrink == \A id \in Id : inFlight'[id] \in {None, inFlight[id]}

ActorsShrink ==
  \A u \in Upstream : actor'[u] = "up" =>
    actor[u] = "up" /\ commands'[u] = commands[u] /\ pending'[u] = pending[u]

\* ... an event may be taken, but not the answer to a call that stays in flight.
EventTaken ==
  /\ events # <<>> /\ events' = Tail(events)
  /\ \A id \in Id, u \in Upstream, c \in Call :
       Claimed(u, id, c)' => Head(events) # EventOf("Response", u, id, c)

QuietMove == ClaimsShrink /\ ActorsShrink /\ (EventsGrow \/ EventTaken)

LEMMA WhichCallMove ==
  ASSUME TypeOK, [Next]_vars, end' = "none"
  PROVE  \/ QuietMove
         \/ \E id \in Id : CancelCall(id)
         \/ \E id \in Id, request \in Request, now \in Times : ForwardCall(id, request, now)
         \/ \E u \in Upstream : SendUpstream(u) \/ RejectForward(u) \/ CancelUpstream(u)
         \/ \E u \in Upstream, id \in Id : Respond(u, id)
<1>. USE DEF callVars, relistVars, actorVars, clientVars, serveVars, sourceVars, QuietMove, ClaimsShrink,
             ActorsShrink, EventsGrow
<1>1. CASE \/ AnswerAtOnce \/ AuditFails \/ Initialize \/ Initialized \/ ClientLeaves \/ RefuseCall
           \/ \E id \in Id, request \in Request, now \in Times :
                DenyCall(id, request, now) \/ CallNotForwarded(id, request, now)
  BY <1>1 DEF AnswerAtOnce, AuditFails, Initialize, Initialized, ClientLeaves, RefuseCall, DenyCall,
              CallNotForwarded, Elsewhere
<1>2. ~ \E id \in Id, request \in Request : DecisionNotRecorded(id, request)
  BY DEF DecisionNotRecorded, SinkRefuses, Finish
<1>3. CASE MatchedResponse
  <2>1. /\ events # <<>> /\ events' = Tail(events) /\ Matched(Head(events))
        /\ Head(events).id \in Id /\ inFlight' = Release(Head(events).id)
    BY <1>3, TakeEventType DEF MatchedResponse, TakeEvent
  <2>2. \A id \in Id : inFlight'[id] = IF id = Head(events).id THEN None ELSE inFlight[id]
    BY <2>1 DEF Release, TypeOK
  <2>3. EventTaken
    BY <2>1, <2>2 DEF EventTaken, EventOf, Claimed
  <2>. QED
    BY <1>3, <2>2, <2>3 DEF MatchedResponse
<1>4. CASE StaleResponse
  <2>1. events # <<>> /\ events' = Tail(events) /\ ~Matched(Head(events)) /\ inFlight' = inFlight
    BY <1>4 DEF StaleResponse, TakeEvent
  <2>2. EventTaken
    BY <2>1 DEF EventTaken, EventOf, Claimed, Matched
  <2>. QED
    BY <1>4, <2>1, <2>2 DEF StaleResponse
<1>5. CASE Notification \/ ListChanged \/ UpstreamEnds
  <2>1. events # <<>> /\ events' = Tail(events) /\ Head(events).kind # "Response" /\ inFlight' = inFlight
    BY <1>5 DEF Notification, ListChanged, UpstreamEnds, TakeEvent
  <2>2. EventTaken
    BY <2>1 DEF EventTaken, EventOf
  <2>. QED
    BY <1>5, <2>1, <2>2 DEF Notification, ListChanged, UpstreamEnds
<1>6. CASE Unpark \/ ParkedFails \/ WriteFrame \/ WriterFails \/ Exited \/ UNCHANGED vars
  BY <1>6 DEF Unpark, ParkedFails, WriteFrame, WriterFails, Exited, vars, Elsewhere
<1>7. CASE Teardown
  <2>1. end # "none"
    BY <1>7 DEF Teardown, CloseSession, AbandonCall
  <2>. QED
    BY <1>7, <2>1, EndIsFinal DEF Next
<1>8. ASSUME NEW u \in Upstream, HandleRelist(u) \/ ReadTools(u) \/ ReportProgress(u) \/ ChangeTools(u)
                                 \/ SayListChanged(u)
      PROVE  QuietMove
  BY <1>8 DEF HandleRelist, InstallTable, RefuseRebound, RefuseCollision, KeepTable, Joined, ReadTools,
              ReportProgress, ChangeTools, SayListChanged, Outside, Emit
<1>9. ASSUME NEW u \in Upstream, CloseTransport(u) \/ LoseUpstream(u) \/ ReportEnd(u)
      PROVE  QuietMove
  <2>1. /\ inFlight' = inFlight /\ EventsGrow
        /\ actor'[u] # "up"
        /\ \A v \in Upstream \ {u} :
             commands'[v] = commands[v] /\ actor'[v] = actor[v] /\ pending'[v] = pending[v]
    BY <1>9 DEF CloseTransport, LoseUpstream, ReportEnd, Outside, Emit, TypeOK
  <2>. QED
    BY <2>1
<1>. QED
  BY <1>1, <1>2, <1>3, <1>4, <1>5, <1>6, <1>7, <1>8, <1>9
  DEF Next, HandleClient, RefuseMalformed, RefuseDuplicateId, RefuseUnknownTool, HandleEvent, ActorStep,
      UpstreamStep

LEMMA CallsStayKnown ==
  ASSUME TypeOK, CallsAreKnown, [Next]_vars PROVE CallsAreKnown'
<1>. SUFFICES ASSUME end' = "none", end = "none", NEW id \in Id, NEW u \in Upstream, NEW c \in Call,
                     Claimed(u, id, c)', actor'[u] = "up"
              PROVE  Known(u, id, c)'
  BY EndIsFinal DEF CallsAreKnown
<1>0. Claimed(u, id, c) /\ actor[u] = "up" => Known(u, id, c)
  BY DEF CallsAreKnown
<1>1. CASE QuietMove
  <2>1. Known(u, id, c) /\ commands'[u] = commands[u] /\ pending'[u] = pending[u]
    BY <1>0, <1>1 DEF QuietMove, ClaimsShrink, ActorsShrink, Claimed
  <2>2. Arrived(u, id, c) => Arrived(u, id, c)'
    BY <1>1, ArrivedStays DEF QuietMove, EventTaken
  <2>. QED
    BY <2>1, <2>2 DEF Known, QueuedLast, NothingQueued
<1>2. ASSUME NEW x \in Id, CancelCall(x) PROVE Known(u, id, c)'
  <2>1. inFlight' = Release(x) /\ UNCHANGED <<pending, actor, events>>
    BY <1>2 DEF CancelCall
  <2>2. id # x /\ inFlight'[id] = inFlight[id]
    BY <2>1 DEF Release, TypeOK, Claimed
  <2>3. Known(u, id, c)
    BY <1>0, <2>1, <2>2 DEF Claimed
  <2>4. CASE commands' = commands
    BY <2>1, <2>3, <2>4 DEF Known, Arrived, QueuedLast, NothingQueued
  <2>5. CASE Send(inFlight[x].upstream, CommandOf("Cancel", x, None))
    <3>1. inFlight[x].upstream \in Upstream /\ ~IsAbout(CommandOf("Cancel", x, None), id)
      BY <1>2, <2>2, InFlightType DEF CancelCall, IsAbout, CommandOf
    <3>2. /\ NothingQueued(u, id) => NothingQueued(u, id)'
          /\ QueuedLast(u, id, c) => QueuedLast(u, id, c)'
      <4>1. CASE u = inFlight[x].upstream
        BY <2>5, <3>1, <4>1, SendKeepsCall
      <4>2. CASE u # inFlight[x].upstream
        BY <2>5, <3>1, <4>2, OtherQueues DEF Send
      <4>. QED
        BY <4>1, <4>2
    <3>. QED
      BY <2>1, <2>3, <3>2 DEF Known, Arrived
  <2>. QED
    BY <1>2, <2>4, <2>5 DEF CancelCall
<1>3. ASSUME NEW x \in Id, NEW request \in Request, NEW now \in Times, ForwardCall(x, request, now)
      PROVE  Known(u, id, c)'
  <2>1. PICK v \in Upstream : v = RouteOf(table, request.tool)
    BY <1>3, RoutedType DEF ForwardCall
  <2>2. /\ inFlight' = Claim(x, v, request.tool) /\ Send(v, CommandOf("Forward", x, nextCall))
        /\ UNCHANGED <<pending, actor, events>>
    BY <1>3, <2>1 DEF ForwardCall
  <2>3. CASE id = x
    <3>1. v = u /\ nextCall = c
      BY <2>2, <2>3 DEF Claim, Claimed, TypeOK
    <3>. QED
      BY <2>2, <2>3, <3>1, SendKeepsCall DEF Known
  <2>4. CASE id # x
    <3>1. inFlight'[id] = inFlight[id]
      BY <2>2, <2>4 DEF Claim, TypeOK
    <3>2. Known(u, id, c) /\ ~IsAbout(CommandOf("Forward", x, nextCall), id)
      BY <1>0, <2>2, <2>4, <3>1 DEF Claimed, IsAbout, CommandOf
    <3>3. /\ NothingQueued(u, id) => NothingQueued(u, id)'
          /\ QueuedLast(u, id, c) => QueuedLast(u, id, c)'
      <4>1. CASE u = v
        BY <2>2, <3>2, <4>1, SendKeepsCall
      <4>2. CASE u # v
        BY <2>2, <4>2, OtherQueues DEF Send
      <4>. QED
        BY <4>1, <4>2
    <3>. QED
      BY <2>2, <3>2, <3>3 DEF Known, Arrived
  <2>. QED
    BY <2>3, <2>4
<1>4. ASSUME NEW v \in Upstream, SendUpstream(v) \/ RejectForward(v) \/ CancelUpstream(v)
      PROVE  Known(u, id, c)'
  <2>1. /\ inFlight' = inFlight /\ actor' = actor /\ commands[v] # <<>>
        /\ commands' = [commands EXCEPT ![v] = Tail(@)] /\ EventsGrow
    BY <1>4 DEF SendUpstream, RejectForward, CancelUpstream, TakeCommand, Outside, callVars, Emit, EventsGrow
  <2>2. Known(u, id, c) /\ (Arrived(u, id, c) => Arrived(u, id, c)')
    BY <1>0, <2>1, ArrivedStays DEF Claimed
  <2>3. CASE u # v
    <3>1. pending'[u] = pending[u]
      BY <1>4, <2>3 DEF SendUpstream, RejectForward, CancelUpstream, TypeOK
    <3>2. NothingQueued(u, id)' = NothingQueued(u, id) /\ QueuedLast(u, id, c)' = QueuedLast(u, id, c)
      BY <2>1, <2>3, OtherQueues
    <3>. QED
      BY <2>2, <3>1, <3>2 DEF Known
  <2>4. CASE u = v
    <3>1. Head(commands[u]).id \in Id
      BY <1>4, <2>4, TakeCommandType DEF SendUpstream, RejectForward, CancelUpstream
    <3>2. ~IsAbout(Head(commands[u]), id) => pending'[u][id] = pending[u][id]
      BY <1>4, <2>4, <3>1 DEF SendUpstream, RejectForward, CancelUpstream, IsAbout, TypeOK
    <3>3. Head(commands[u]) = CommandOf("Forward", id, c) => pending'[u][id] = c \/ Arrived(u, id, c)'
      <4>1. ASSUME Head(commands[u]) = CommandOf("Forward", id, c)
            PROVE  pending'[u][id] = c \/ Arrived(u, id, c)'
        <5>1. Head(commands[u]).kind = "Forward" /\ Head(commands[u]).id = id /\ Head(commands[u]).call = c
          BY <4>1 DEF CommandOf
        <5>2. CASE SendUpstream(v)
          BY <2>4, <5>1, <5>2 DEF SendUpstream, TypeOK
        <5>3. CASE RejectForward(v)
          BY <2>4, <5>1, <5>3, ArrivedStays DEF RejectForward, Emit
        <5>4. ~CancelUpstream(v)
          BY <2>4, <5>1 DEF CancelUpstream, TakeCommand
        <5>. QED
          BY <1>4, <5>2, <5>3, <5>4
      <4>. QED
        BY <4>1
    <3>. QED
      BY <2>1, <2>2, <2>4, <3>2, <3>3, TakeMovesCall DEF Known
  <2>. QED
    BY <2>3, <2>4
<1>5. ASSUME NEW v \in Upstream, NEW x \in Id, Respond(v, x) PROVE Known(u, id, c)'
  <2>1. /\ UNCHANGED <<inFlight, actor, commands>> /\ pending' = [pending EXCEPT ![v][x] = None]
        /\ events' = Append(events, EventOf("Response", v, x, pending[v][x]))
    BY <1>5 DEF Respond, Outside, callVars, Emit
  <2>2. Known(u, id, c) /\ EventsGrow
    BY <1>0, <2>1 DEF Claimed, EventsGrow
  <2>3. Arrived(u, id, c) => Arrived(u, id, c)'
    BY <2>2, ArrivedStays
  <2>4. pending[u][id] = c => pending'[u][id] = c \/ Arrived(u, id, c)'
    <3>1. CASE u = v /\ id = x
      BY <2>1, <3>1, ArrivedStays
    <3>2. CASE ~(u = v /\ id = x)
      BY <2>1, <3>2 DEF TypeOK
    <3>. QED
      BY <3>1, <3>2
  <2>. QED
    BY <2>1, <2>2, <2>3, <2>4 DEF Known, QueuedLast, NothingQueued
<1>. QED
  BY <1>1, <1>2, <1>3, <1>4, <1>5, WhichCallMove

\* NoCallIsStranded: while an upstream is up, each call in flight there is in its queue,
\* mapped or answered, whatever was cancelled and claimed anew under the same id.
THEOREM CallsAreNeverStranded == Spec => []NoCallIsStranded
<1>1. Init => CallsAreKnown
  BY DEF Init, CallsAreKnown, Claimed
<1>2. TypeOK /\ CallsAreKnown /\ [Next]_vars => CallsAreKnown'
  BY CallsStayKnown
<1>3. TypeOK /\ CallsAreKnown => NoCallIsStranded
  <2>. SUFFICES ASSUME TypeOK, CallsAreKnown, end = "none", NEW id \in Id, inFlight[id] # None,
                       NEW u \in Upstream, NEW c \in Call, u = inFlight[id].upstream,
                       c = inFlight[id].call, actor[u] = "up"
                PROVE  \/ CommandOf("Forward", id, c) \in {commands[u][i] : i \in DOMAIN commands[u]}
                       \/ pending[u][id] = c
                       \/ EventOf("Response", u, id, c) \in {events[i] : i \in DOMAIN events}
    BY InFlightType DEF NoCallIsStranded
  <2>1. Known(u, id, c)
    BY DEF CallsAreKnown, Claimed
  <2>. QED
    BY <2>1 DEF Known, QueuedLast, Arrived
<1>. QED
  BY <1>1, <1>2, <1>3, InitTypes, StepTypes, PTL DEF Spec

-----------------------------------------------------------------------------
(* The router implements CallLife *)

\* What each story says.
LEMMA LifeOfStories ==
  \A c, minted \in Int :
    /\ LifeIn(<<>>, c, minted) = IF c < minted THEN "lost" ELSE "unborn"
    /\ LifeIn(Refused, c, minted) = "refused"
    /\ LifeIn(Denied, c, minted) = "denied"
    /\ LifeIn(Open, c, minted) = "open"
    /\ \A outcome : LifeIn(Ended(outcome), c, minted) = outcome
<1>1. \A outcome : Ended(outcome)[Len(Ended(outcome))] = outcome
  BY DEF Ended
<1>. QED
  BY <1>1, StoriesDiffer DEF LifeIn, Refused, Denied

\* The lives of all calls.
Lives == [c \in Call |-> LifeIn(trace[c], c, nextCall)]

\* If one call's life changes, Lives changes there and nowhere else.
LEMMA OneLifeChanges ==
  ASSUME NEW c \in Call, NEW state,
         LifeIn(trace'[c], c, nextCall') = state,
         \A d \in Call \ {c} : LifeIn(trace'[d], d, nextCall') = LifeIn(trace[d], d, nextCall)
  PROVE  Lives' = [Lives EXCEPT ![c] = state]
BY DEF Lives

\* A call that is minted leaves the lives of the others alone.
LEMMA MintingIsLocal ==
  ASSUME TypeOK, Mint, NEW story, Enforced, Tells(story)
  PROVE  /\ nextCall \in Call /\ nextCall \in Int /\ nextCall' \in Int /\ nextCall < nextCall'
         /\ trace'[nextCall] = story
         /\ \A d \in Call \ {nextCall} :
              LifeIn(trace'[d], d, nextCall') = LifeIn(trace[d], d, nextCall)
<1>1. nextCall \in Nat /\ nextCall \in Call /\ nextCall' = nextCall + 1
  BY RouterAssumption DEF TypeOK, Mint, Call
<1>2. trace \in [Call -> Seq(Recorded)]
  BY DEF TypeOK
<1>3. ASSUME NEW d \in Call \ {nextCall}
      PROVE  LifeIn(trace'[d], d, nextCall') = LifeIn(trace[d], d, nextCall)
  <2>1. trace'[d] = trace[d] /\ (d < nextCall' <=> d < nextCall)
    BY <1>1, <1>2 DEF Tells, Call
  <2>. QED
    BY <2>1 DEF LifeIn
<1>. QED
  BY <1>1, <1>2, <1>3 DEF Tells

\* One step of the router is one step of CallLife, or none.
LEMMA StepImplements ==
  ASSUME TypeOK, CallsInv, Enforced, [Next]_vars
  PROVE  [Life!Next]_(Life!vars)
<1>. USE DEF Life!vars
<1>0. nextCall \in Nat /\ (nextCall < MaxCalls => nextCall \in Call)
  BY RouterAssumption DEF TypeOK, Call
<1>a. FutureIsBlank /\ ClaimsAreSound /\ ClosedOut /\ OpenCallsAreInFlight
  BY DEF CallsInv
<1>b. closed \in BOOLEAN /\ closed' \in BOOLEAN
  BY StepTypes DEF TypeOK
<1>1. CASE Idle
  <2>1. UNCHANGED <<trace, nextCall, forwarded, answers>>
    BY <1>1 DEF Idle, callVars
  <2>2. /\ Lives' = Lives /\ {c \in Call : forwarded[c] # None}' = {c \in Call : forwarded[c] # None}
    BY <2>1 DEF Lives
  <2>3. CASE closed' = closed /\ end' # "TraceFailed"
    <3>1. end # "TraceFailed"
      BY <2>3, FailureIsFinal
    <3>. QED
      BY <2>1, <2>2, <2>3, <3>1 DEF Lives
  <2>4. CASE closed' = closed /\ end' = "TraceFailed" /\ end = "TraceFailed"
    BY <2>1, <2>2, <2>4 DEF Lives
  <2>5. CASE closed' = closed /\ end' = "TraceFailed" /\ end # "TraceFailed"
    <3>1. ~closed
      BY <1>1, <2>5 DEF Idle
    <3>. QED
      BY <2>1, <2>2, <2>5, <3>1 DEF Lives, Life!Next, Life!AuditFails, Life!Recording
  <2>6. CASE closed' # closed
    <3>1. closed' = TRUE /\ closed = FALSE /\ end' = end /\ (end = "TraceFailed" \/ OpenIds = {})
      BY <1>1, <2>6 DEF Idle, TypeOK
    <3>2. ASSUME end # "TraceFailed", NEW c \in Call
          PROVE  Lives[c] # "open"
      <4>1. trace[c] # Open
        BY <1>a, <3>1, <3>2 DEF OpenIds, OpenCallsAreInFlight
      <4>2. trace[c] \in Stories /\ c \in Int /\ nextCall \in Int
        BY <1>0 DEF CallsInv, OneStoryPerCall, Call
      <4>3. LifeIn(trace[c], c, nextCall) # "open"
        BY <4>1, <4>2, LifeOfStories DEF Stories, Outcomes
      <4>. QED
        BY <4>3 DEF Lives
    <3>. QED
      BY <2>1, <2>2, <3>1, <3>2 DEF Lives, Life!Next, Life!CloseSession, Life!Call, Call
  <2>. QED
    BY <2>3, <2>4, <2>5, <2>6
<1>2. CASE SettledAtOnce
  <2>1. PICK story \in {Refused, Denied, Ended("notForwarded")} : Tells(story)
    BY <1>2 DEF SettledAtOnce
  <2>2. Mint /\ end # "TraceFailed" /\ end' # "TraceFailed" /\ closed' = closed /\ ~closed
        /\ forwarded' = forwarded /\ Answered(nextCall)
    BY <1>2, <1>a DEF SettledAtOnce, ClosedOut
  <2> DEFINE how == LifeIn(trace'[nextCall], nextCall, nextCall')
  <2>3. how \in {"refused", "denied", "notForwarded"}
    BY <2>1, <2>2, MintingIsLocal, LifeOfStories
  <2>4. Lives[nextCall] = "unborn"
    BY <1>a, <2>1, <2>2, MintingIsLocal, LifeOfStories DEF FutureIsBlank, Lives, Call
  <2>5. Lives' = [Lives EXCEPT ![nextCall] = how]
    BY <2>1, <2>2, MintingIsLocal, OneLifeChanges
  <2>. QED
    BY <2>1, <2>2, <2>3, <2>4, <2>5, MintingIsLocal
       DEF Lives, Answered, Life!Next, Life!Settle, Life!Settled, Life!Recording, Life!Becomes,
           Life!Reply, Life!Call, Call
<1>3. ASSUME NEW id \in Id, NEW request \in Request, NEW now \in Times, Opened(id, request, now)
      PROVE  Life!Next
  <2>1. Mint /\ Tells(Open) /\ end # "TraceFailed" /\ end' # "TraceFailed" /\ closed' = closed
        /\ ~closed /\ answers' = answers
    BY <1>3, <1>a DEF Opened, ClosedOut
  <2>2. Lives[nextCall] = "unborn"
    BY <1>a, <2>1, MintingIsLocal, LifeOfStories DEF FutureIsBlank, Lives, Call
  <2>3. Lives' = [Lives EXCEPT ![nextCall] = "open"]
    BY <2>1, MintingIsLocal, OneLifeChanges, LifeOfStories
  <2>4. {c \in Call : forwarded'[c] # None} = {c \in Call : forwarded[c] # None} \cup {nextCall}
    <3>1. forwarded \in [Call -> Optional(Judged)]
      BY DEF TypeOK
    <3>2. PICK record : record # None /\ forwarded' = [forwarded EXCEPT ![nextCall] = record]
      <4>1. RouteOf(table, request.tool) \in Upstream
        BY <1>3 DEF Opened
      <4>2. [upstream |-> RouteOf(table, request.tool), request |-> request, now |-> now] # None
        BY <4>1, RouterAssumption DEF Judged
      <4>. QED
        BY <1>3, <4>2 DEF Opened
    <3>. QED
      BY <2>1, <3>1, <3>2, MintingIsLocal
  <2>. QED
    BY <2>1, <2>2, <2>3, <2>4, MintingIsLocal
       DEF Lives, Life!Next, Life!Open, Life!Recording, Life!Becomes, Life!Call, Call
<1>4. ASSUME NEW id \in Id, NEW outcome \in {"completed", "cancelled", "abandoned"},
             Closes(id, outcome)
      PROVE  Life!Next
  <2> DEFINE c == inFlight[id].call
  <2>1. c \in Call /\ inFlight[id] # None
    BY <1>4, InFlightType DEF Closes
  <2>2. /\ end # "TraceFailed" /\ closed' = closed /\ ~closed
        /\ end' = "TraceFailed" => outcome = "cancelled"
        /\ nextCall' = nextCall /\ forwarded' = forwarded
        /\ trace' = [trace EXCEPT ![c] = Ended(outcome)]
        /\ IF outcome = "completed" THEN Answered(c) ELSE answers' = answers
    BY <1>4, <1>b DEF Closes
  <2>3. trace[c] = Open
    BY <1>a, <2>1, <2>2 DEF OpenCallsAreInFlight
  <2>4. Lives[c] = "open"
    BY <1>0, <2>1, <2>3, LifeOfStories DEF Lives, Call
  <2>5. Lives' = [Lives EXCEPT ![c] = outcome]
    <3>1. trace \in [Call -> Seq(Recorded)]
      BY DEF TypeOK
    <3>2. LifeIn(trace'[c], c, nextCall') = outcome
      BY <1>0, <2>1, <2>2, <3>1, LifeOfStories DEF Call
    <3>3. \A d \in Call \ {c} : LifeIn(trace'[d], d, nextCall') = LifeIn(trace[d], d, nextCall)
      BY <2>2, <3>1
    <3>. QED
      BY <2>1, <3>2, <3>3, OneLifeChanges
  <2>. QED
    BY <2>1, <2>2, <2>4, <2>5
       DEF Lives, Answered, Life!Next, Life!Close, Life!Outcomes, Life!Recording, Life!Becomes,
           Life!Reply, Life!Call, Call
<1>5. CASE SinkGivesUp
  <2>1. end # "TraceFailed" /\ end' = "TraceFailed" /\ ~closed /\ closed' = closed
        /\ forwarded' = forwarded /\ answers' = answers
    BY <1>5, <1>b DEF SinkGivesUp
  <2>2. CASE Lives' = Lives
    BY <2>1, <2>2 DEF Lives, Life!Next, Life!AuditFails, Life!Recording
  <2>3. CASE Mint /\ (Tells(Open) \/ UNCHANGED trace)
    <3>1. trace[nextCall] = <<>> /\ nextCall \in Call /\ trace \in [Call -> Seq(Recorded)]
      BY <1>0, <1>a, <2>3 DEF Mint, FutureIsBlank, TypeOK
    <3>2. PICK story \in {<<>>, Open} : Tells(story)
      BY <2>3, <3>1 DEF Tells
    <3>3. PICK state \in {"open", "lost"} : Lives' = [Lives EXCEPT ![nextCall] = state]
      BY <2>3, <3>2, MintingIsLocal, OneLifeChanges, LifeOfStories
    <3>4. Lives[nextCall] = "unborn"
      BY <1>0, <3>1, LifeOfStories DEF Lives
    <3>. QED
      BY <2>1, <3>1, <3>3, <3>4
         DEF Lives, Life!Next, Life!AuditFails, Life!Recording, Life!Becomes, Life!Call, Call
  <2>. QED
    BY <1>5, <2>2, <2>3 DEF SinkGivesUp, Lives
<1>. QED
  BY <1>1, <1>2, <1>3, <1>4, <1>5, WhichMove DEF Move

\* ImplementsCallLife: an enforced session keeps CallLife's promise about every
\* call, whatever the client, the upstreams, the queues and the sink do.
THEOREM RouterImplementsCallLife ==
  ASSUME Enforced
  PROVE  Spec => ImplementsCallLife
<1>1. ASSUME Init PROVE Life!Init
  <2>1. \A c \in Call : c \in Int /\ ~(c < 0)
    BY RouterAssumption DEF Call
  <2>2. \A c \in Call : LifeIn(trace[c], c, nextCall) = "unborn"
    BY <1>1, <2>1, LifeOfStories DEF Init
  <2>. QED
    BY <1>1, <2>2 DEF Init, Life!Init, Life!Call, Call
<1>2. TypeOK /\ CallsInv /\ [Next]_vars => [Life!Next]_(Life!vars)
  BY StepImplements
<1>. QED
  BY <1>1, <1>2, CallsInvHolds, PTL DEF Spec, ImplementsCallLife, Life!Spec

=============================================================================
