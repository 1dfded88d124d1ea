---------------------------- MODULE HttpTransport ----------------------------
(***************************************************************************)
(* One streamable-HTTP upstream below the connection actor: http.rs, and   *)
(* of connection.rs the handshake that decides in which order frames are   *)
(* posted.                                                                 *)
(*                                                                         *)
(* Every frame is a POST of its own, run by a task of its own, except      *)
(* `initialized`, which the handshake posts inline (send_ordered).  Tasks  *)
(* and the GET listener push what they read into one bounded channel the   *)
(* actor receives from.  Responses are whatever a server may send: no      *)
(* answer, any status, a body that answers or does not, a stream that ends *)
(* or breaks anywhere.                                                     *)
(***************************************************************************)
EXTENDS Integers, Sequences, FiniteSets

CONSTANTS
  Request,       \* requests the actor sends after the handshake
  Note,          \* notifications, and answers to pings
  Session,       \* values of MCP-Session-Id a server may assign
  None,
  InboundQueue,  \* INBOUND_QUEUE
  ReconnectMin,  \* RECONNECT_MIN
  ReconnectMax,  \* RECONNECT_MAX
  Hint,          \* delays of the retry hints a server may send
  MaxItems       \* bound: SSE items the server sends on all streams

Post == {"initialize", "initialized"} \cup Request \cup Note

\* Posts with SendContext::Request: an answer with their id is expected.
Asking == {"initialize"} \cup Request

ASSUME HttpAssumption ==
  /\ {InboundQueue, ReconnectMin, ReconnectMax} \subseteq Nat \ {0}
  /\ ReconnectMin <= ReconnectMax /\ MaxItems \in Nat
  /\ Hint \subseteq Nat \ {0}
  /\ None \notin Session \cup {"Answer", "Synth", "ok", "accepted", "expired", "failed", "ended"}
  /\ {"initialize", "initialized"} \cap (Request \cup Note) = {}
  /\ Request \cap Note = {}

\* Inbound: an answer to a request (real, or synthesized because its POST failed),
\* anything else (another message, or a frame the reader dropped), the end of the
\* session.
Answer(r) == [kind |-> "Answer", to |-> r]
Synth(r) == [kind |-> "Synth", to |-> r]
Other == [kind |-> "Other", to |-> None]
Fatal == [kind |-> "Fatal", to |-> None]

Items ==
  [kind: {"Answer", "Synth"}, to: Asking] \cup [kind: {"Other", "Fatal"}, to: {None}]

VARIABLES
  phase,     \* "initialize" (awaits its answer), "ordered" (posts `initialized`),
             \* "running" or "closed"
  posts,     \* per POST its task: see HttpTypeOK
  listener,  \* the GET task: see HttpTypeOK
  inbound,   \* the channel to the reader
  session,   \* Shared::session
  version,   \* Shared::protocol_version has been set
  hint,      \* Shared::retry_hint_ms, 0 for none
  budget     \* items the server may still send

\* History: what came first for each request, the session when the handshake was
\* over, and whether a Fatal was pushed.
VARIABLES first, opened, expired

httpVars == <<phase, posts, listener, inbound, session, version, hint, budget, first, opened, expired>>

\* The states of a task: not spawned, not yet run, awaiting the response, reading
\* an SSE body, and over.  out is what it still has to push before it goes on.
HttpTypeOK ==
  /\ phase \in {"initialize", "ordered", "running", "closed"}
  /\ posts \in [Post ->
       [state: {"unsent", "spawned", "sent", "streaming", "done"},
        session: Session \cup {None}, version: BOOLEAN,
        out: Seq(Items), answered: BOOLEAN,
        end: {None, "ok", "accepted", "expired", "failed"}]]
  /\ listener \in
       [state: {"off", "connecting", "streaming", "waiting", "stopped"},
        out: Seq(Items), events: BOOLEAN, delay: ReconnectMin .. ReconnectMax,
        wait: ReconnectMin .. ReconnectMax, end: {None, "ended", "failed"}]
  /\ inbound \in Seq(Items) /\ Len(inbound) <= InboundQueue
  /\ session \in Session \cup {None} /\ opened \in Session \cup {None}
  /\ version \in BOOLEAN /\ expired \in BOOLEAN
  /\ hint \in Hint \cup {0}
  /\ budget \in 0 .. MaxItems
  /\ first \in [Asking -> {None, "Answer", "Synth"}]

Unsent ==
  [state |-> "unsent", session |-> None, version |-> FALSE, out |-> <<>>,
   answered |-> FALSE, end |-> None]

NoListener ==
  [state |-> "off", out |-> <<>>, events |-> FALSE,
   delay |-> ReconnectMin, wait |-> ReconnectMin, end |-> None]

\* HttpTransport::new, and the first send of the handshake.
HttpInit ==
  /\ phase = "initialize"
  /\ posts = [p \in Post |-> IF p = "initialize" THEN [Unsent EXCEPT !.state = "spawned"] ELSE Unsent]
  /\ listener = NoListener
  /\ inbound = <<>> /\ session = None /\ version = FALSE /\ hint = 0 /\ budget = MaxItems
  /\ first = [r \in Asking |-> None] /\ opened = None /\ expired = FALSE

\* The transport has been closed, or was never there.
NoHttp ==
  /\ phase = "closed"
  /\ posts = [p \in Post |-> Unsent] /\ listener = NoListener
  /\ inbound = <<>> /\ session = None /\ version = FALSE /\ hint = 0 /\ budget = 0
  /\ first = [r \in Asking |-> None] /\ opened = None /\ expired = FALSE

Open == phase # "closed"

-----------------------------------------------------------------------------
(* The channel *)

\* push: a task waits for room, and the order of the channel is the order of the
\* pushes.
PushItem(item) ==
  /\ Len(inbound) < InboundQueue
  /\ inbound' = Append(inbound, item)
  /\ first' = IF item.kind \in {"Answer", "Synth"} /\ first[item.to] = None
              THEN [first EXCEPT ![item.to] = item.kind] ELSE first
  /\ expired' = (expired \/ item = Fatal)

PushPost(p) ==
  /\ Open /\ posts[p].out # <<>>
  /\ PushItem(Head(posts[p].out))
  /\ posts' = [posts EXCEPT ![p].out = Tail(@)]
  /\ UNCHANGED <<phase, listener, session, version, hint, budget, opened>>

PushListener ==
  /\ Open /\ listener.out # <<>>
  /\ PushItem(Head(listener.out))
  /\ listener' = [listener EXCEPT !.out = Tail(@)]
  /\ UNCHANGED <<phase, posts, session, version, hint, budget, opened>>

-----------------------------------------------------------------------------
(* One POST *)

\* The task's first step: it fixes the headers and sends.
StartPost(p) ==
  /\ Open /\ posts[p].state = "spawned"
  /\ posts' = [posts EXCEPT ![p].state = "sent", ![p].session = session, ![p].version = version]
  /\ UNCHANGED <<phase, listener, inbound, session, version, hint, budget, first, opened, expired>>

\* capture_session: only the first assignment counts.
Capture(assigned) == IF session = None THEN assigned ELSE session

\* What post_task pushes when run_post has returned: the session's end is fatal,
\* another failure of a request becomes its answer, of a notification is only
\* logged.  `initialized` is posted inline, its failure is the handshake's.
Resolution(p, end) ==
  IF p = "initialized" THEN <<>>
  ELSE IF end = "expired" THEN <<Fatal>>
  ELSE IF end = "failed" /\ p \in Asking THEN <<Synth(p)>>
  ELSE <<>>

\* Nothing is left to know of a notification's POST that is over.
Over(post, p, out, end) ==
  IF p \in Note THEN [Unsent EXCEPT !.state = "done", !.out = out]
  ELSE [post EXCEPT !.state = "done", !.out = out, !.end = end]

\* run_post returns, after it has pushed what it has read.
FinishPost(post, p, pushes, end) == Over(post, p, pushes \o Resolution(p, end), end)

\* What a server may send in a body or an event: the answer to a request it has
\* got, or anything else.  To the actor, an answer to `initialize` it no longer
\* waits for is like anything else.
Arrived == {r \in Asking : posts[r].state \in {"sent", "streaming", "done"}}
Awaited == IF phase = "initialize" THEN Arrived ELSE Arrived \ {"initialize"}
Events == {Answer(r) : r \in Awaited} \cup {Other}

\* What a POST may have come to once its response is here; now is the session
\* after capture_session.
Responded(p, now) ==
  LET post == posts[p]
  IN {FinishPost(post, p, <<>>, IF now # None THEN "expired" ELSE "failed"),    \* 404
      FinishPost(post, p, <<>>, "accepted"),                                    \* 202
      FinishPost(post, p, <<>>, "failed"),                  \* another status, or content type
      FinishPost(post, p, <<Other>>, "failed"),             \* a JSON body too long, or malformed
      [post EXCEPT !.state = "streaming"]}              \* an SSE body
     \cup {FinishPost([post EXCEPT !.answered = (item = Answer(p))], p, <<item>>,      \* JSON
                     IF p \in Asking /\ item # Answer(p) THEN "failed" ELSE "ok") :
             item \in Events}

Respond(p) ==
  /\ Open /\ posts[p].state = "sent"
  /\ \E assigned \in Session \cup {None} :
       /\ session' = Capture(assigned)
       /\ \E post \in Responded(p, session') : posts' = [posts EXCEPT ![p] = post]
  /\ UNCHANGED <<phase, listener, inbound, version, hint, budget, first, opened, expired>>

\* No response at all: the connection failed, or broke under the body.
PostFails(p) ==
  /\ Open /\ posts[p].state = "sent"
  /\ posts' = [posts EXCEPT ![p] = FinishPost(@, p, <<>>, "failed")]
  /\ UNCHANGED <<phase, listener, inbound, session, version, hint, budget, first, opened, expired>>

Spend == budget > 0 /\ budget' = budget - 1

\* handle_sse_item on the body of a POST.
PostEvent(p) ==
  /\ Open /\ posts[p].state = "streaming" /\ posts[p].out = <<>> /\ Spend
  /\ \E item \in Events :
       posts' = [posts EXCEPT ![p].out = <<item>>, ![p].answered = @ \/ item = Answer(p)]
  /\ UNCHANGED <<phase, listener, inbound, session, version, hint, first, opened, expired>>

PostRetry(p) ==
  /\ Open /\ posts[p].state = "streaming" /\ posts[p].out = <<>> /\ Spend
  /\ hint' \in Hint
  /\ UNCHANGED <<phase, posts, listener, inbound, session, version, first, opened, expired>>

\* Mutant: a stream that ends in order is taken for an answered one.
PostEndsQuietly(p) ==
  /\ Open /\ posts[p].state = "streaming" /\ posts[p].out = <<>>
  /\ \E end \in {"ok", "failed"} : posts' = [posts EXCEPT ![p] = FinishPost(@, p, <<>>, end)]
  /\ UNCHANGED <<phase, listener, inbound, session, version, hint, budget, first, opened, expired>>

\* The stream ends, or breaks - which fails the POST even if it was answered.
PostEnds(p) ==
  /\ Open /\ posts[p].state = "streaming" /\ posts[p].out = <<>>
  /\ \/ posts' = [posts EXCEPT ![p] =
          FinishPost(@, p, <<>>, IF p \in Asking /\ ~@.answered THEN "failed" ELSE "ok")]
     \/ posts' = [posts EXCEPT ![p] = FinishPost(@, p, <<>>, "failed")]
  /\ UNCHANGED <<phase, listener, inbound, session, version, hint, budget, first, opened, expired>>

-----------------------------------------------------------------------------
(* The GET listener *)

Min2(a, b) == IF a <= b THEN a ELSE b
Max2(a, b) == IF a <= b THEN b ELSE a

\* Mutant: the hint is taken as it comes.
TryAgainAsTold(end, delay) ==
  /\ listener' = [listener EXCEPT
       !.state = "waiting", !.end = end, !.events = FALSE, !.delay = delay,
       !.wait = IF hint > 0 THEN hint ELSE delay]
  /\ hint' = 0

\* One attempt is over and another will be made: the wait is the server's hint,
\* clamped, or the back-off delay.
TryAgain(end, delay) ==
  /\ listener' = [listener EXCEPT
       !.state = "waiting", !.end = end, !.events = FALSE, !.delay = delay,
       !.wait = IF hint > 0 THEN Max2(ReconnectMin, Min2(hint, ReconnectMax)) ELSE delay]
  /\ hint' = 0

Stop(pushes) == listener' = [listener EXCEPT !.state = "stopped", !.out = pushes] /\ UNCHANGED hint

\* 404 under a session: it is over.  405, 404 without a session or another content
\* type: no stream is offered.  Anything else that is not a stream: try again.
GetRespond ==
  /\ Open /\ listener.state = "connecting"
  /\ \/ session # None /\ Stop(<<Fatal>>)
     \/ Stop(<<>>)
     \/ TryAgain("failed", listener.delay)
     \/ listener' = [listener EXCEPT !.state = "streaming"] /\ UNCHANGED hint
  /\ UNCHANGED <<phase, posts, inbound, session, version, budget, first, opened, expired>>

GetEvent ==
  /\ Open /\ listener.state = "streaming" /\ listener.out = <<>> /\ Spend
  /\ \/ /\ \E item \in Events : listener' = [listener EXCEPT !.out = <<item>>, !.events = TRUE]
        /\ UNCHANGED hint
     \/ hint' \in Hint /\ listener' = [listener EXCEPT !.events = TRUE]
  /\ UNCHANGED <<phase, posts, inbound, session, version, first, opened, expired>>

\* The stream ends - the delay starts over if it carried anything - or breaks.
GetEnds ==
  /\ Open /\ listener.state = "streaming" /\ listener.out = <<>>
  /\ \/ TryAgain("ended", IF listener.events THEN ReconnectMin ELSE listener.delay)
     \/ TryAgain("failed", listener.delay)
  /\ UNCHANGED <<phase, posts, inbound, session, version, budget, first, opened, expired>>

Reconnect ==
  /\ Open /\ listener.state = "waiting"
  /\ listener' = [listener EXCEPT !.state = "connecting", !.end = None,
                 !.wait = ReconnectMin, !.delay = Min2(2 * @, ReconnectMax)]
  /\ UNCHANGED <<phase, posts, inbound, session, version, hint, budget, first, opened, expired>>

-----------------------------------------------------------------------------
(* The handshake and the actor *)

\* close: the tasks are aborted, the session is terminated by a DELETE, and the
\* transport is gone, with its channel.
Close ==
  /\ phase' = "closed"
  /\ posts' = [p \in Post |-> Unsent] /\ listener' = NoListener
  /\ inbound' = <<>> /\ session' = None /\ version' = FALSE /\ hint' = 0 /\ budget' = 0
  /\ first' = [r \in Asking |-> None] /\ opened' = None /\ expired' = FALSE

Spawn(p) == posts' = [posts EXCEPT ![p].state = "spawned"]

\* A frame may be a ping, answered by a POST of its own.
Pong == \E n \in Note : posts[n].state = "unsent" /\ Spawn(n)

Stay == UNCHANGED <<phase, listener, session, version, hint, budget, first, opened, expired>>
Take == inbound' = Tail(inbound) /\ Stay

\* initialize: the answer leads on, or ends the connection (refused, unparseable,
\* another protocol version).
AwaitInitialize ==
  /\ phase = "initialize" /\ inbound # <<>>
  /\ LET item == Head(inbound)
     IN \/ /\ item = Answer("initialize") /\ inbound' = Tail(inbound)
           /\ phase' = "ordered" /\ version' = TRUE /\ Spawn("initialized")
           /\ UNCHANGED <<listener, session, hint, budget, first, opened, expired>>
        \/ item \in {Answer("initialize"), Synth("initialize"), Fatal} /\ Close
        \/ item = Other /\ Pong /\ Take
        \/ item = Other /\ UNCHANGED posts /\ Take

\* Mutant: the listener and the requests do not wait for `initialized`.
OrderedAtOnce ==
  /\ phase = "ordered"
  /\ phase' = "running" /\ opened' = session
  /\ listener' = [listener EXCEPT !.state = "connecting"]
  /\ UNCHANGED <<posts, session, version, hint, budget, first, expired, inbound>>

\* send_ordered has returned: the stream is opened, or the connection has failed.
Ordered ==
  /\ phase = "ordered" /\ posts["initialized"].state = "done" /\ posts["initialized"].out = <<>>
  /\ IF posts["initialized"].end \in {"ok", "accepted"}
       THEN /\ phase' = "running" /\ opened' = session
            /\ listener' = [listener EXCEPT !.state = "connecting"]
            /\ UNCHANGED <<posts, inbound, session, version, hint, budget, first, expired>>
       ELSE Close

\* The handshake's deadline (connect).
InitTimeout == phase \in {"initialize", "ordered"} /\ Close

Receive ==
  /\ phase = "running" /\ inbound # <<>>
  /\ IF Head(inbound) = Fatal THEN Close
     ELSE /\ Take
          /\ \/ Head(inbound) = Other /\ Pong
             \/ UNCHANGED posts

HttpCommand ==
  /\ phase = "running"
  /\ \E p \in Request \cup Note : posts[p].state = "unsent" /\ Spawn(p)
  /\ Stay /\ UNCHANGED inbound

HttpShutdown == phase = "running" /\ Close

-----------------------------------------------------------------------------

PostStep(p) == StartPost(p) \/ Respond(p) \/ PostFails(p) \/ PostEvent(p) \/ PostRetry(p) \/ PostEnds(p)
ListenerStep == GetRespond \/ GetEvent \/ GetEnds \/ Reconnect
Handshake == AwaitInitialize \/ Ordered \/ InitTimeout
HttpActor == Receive \/ HttpCommand \/ HttpShutdown

HttpNext ==
  \/ Handshake \/ HttpActor \/ ListenerStep \/ PushListener
  \/ \E p \in Post : PostStep(p) \/ PushPost(p)

HttpSpec == HttpInit /\ [][HttpNext]_httpVars

\* The actor, the listener and the tasks of the POSTs run, deadlines and timers
\* pass.  A server need not answer.
HttpFairness ==
  /\ WF_httpVars(Handshake \/ Receive)
  /\ WF_httpVars(Reconnect \/ PushListener)
  /\ WF_httpVars(\E p \in Post : StartPost(p) \/ PushPost(p))

FairHttpSpec == HttpSpec /\ HttpFairness

-----------------------------------------------------------------------------
(* Properties *)

\* A request whose POST is over has been answered, by the server or by an error
\* made here, unless the server said 202 and answers elsewhere or the session
\* ended.  An answer its own body carried comes before the error made because the
\* stream broke afterwards.
FinishedPostsAnswer ==
  \A r \in Asking :
    /\ posts[r].state = "done" /\ posts[r].out = <<>> =>
         \/ first[r] # None
         \/ posts[r].end = "accepted"
         \/ posts[r].end = "expired" /\ expired
    /\ posts[r].answered /\ posts[r].out = <<>> => first[r] = "Answer"

Delivered(p) == posts[p].state \notin {"unsent", "spawned"}

\* No request and no GET overtakes `initialized`, which the server has accepted by
\* then, and all of them carry the negotiated version and the session the
\* handshake ended with, whatever later responses assign: a request what its task has
\* fixed, a GET, which reads them at each attempt, what there is while the listener runs.
LifecycleInOrder ==
  /\ \A r \in Request : Delivered(r) =>
       /\ posts["initialized"].end \in {"ok", "accepted"}
       /\ posts[r].version
       /\ posts[r].session \in {opened, session}
       /\ opened # None => posts[r].session = opened
  /\ listener.state # "off" =>
       /\ posts["initialized"].end \in {"ok", "accepted"}
       /\ version
       /\ opened # None => session = opened

\* The handshake ends even if its inline POST waits for room in the channel nobody
\* reads; what a task has read gets through; and a GET stream that ended or failed
\* is tried again.
HttpNeverHangs ==
  /\ phase \in {"initialize", "ordered"} ~> phase \in {"running", "closed"}
  /\ (\E p \in Post : posts[p].out # <<>>) ~> \A p \in Post : posts[p].out = <<>>
  /\ listener.end # None ~> listener.state = "connecting" \/ phase = "closed"

=============================================================================
