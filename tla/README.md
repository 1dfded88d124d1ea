# Flavium: models, checks and proofs

Flavium is a proxy between an AI agent (an MCP client) and the MCP servers whose
tools it uses (the upstreams). It forwards a tool call only if a grant the operator
wrote allows it, and records every decision. This directory models the parts of the
code that decide, route and record, checks the models with TLC and proves their
central properties with TLAPS.

Paths of sources below are relative to `src/crates/`, those of documents to `src/`. `PROJECT.json` maps every definition
to the lines it stands for, lists the hazards of the code at their lines, and names
for each property a plausible bug (`mutant`) that the property catches.

## 1. The system

| Component | State | Operations | What makes it correct |
|---|---|---|---|
| Grant model (`flavium-core`: grant, constraint, authorize) | none, pure functions | `admits`, `includes`, `tool_status`, `decide`, `granted_tools` | inclusion is sound; list, status and decision agree (L1, L2, INV-2, INV-3) |
| Attenuation (`flavium-core`: attenuate) | none | `covers`, `attenuates` | a sound preorder: the root bounds the agent tree (INV-1, 1b, 5, 6) |
| Trace vocabulary (`flavium-core`: trace) | the events written so far | `TraceSink::record` | each call has one story; after a failed write nothing goes on (W3) |
| Session router (`flavium-proxy-mcp`: router) | handshake phase, tool table, bindings of granted tools, calls in flight, re-list flags | handlers of client frames, upstream events and re-list results; teardown | only allowed calls are forwarded (I13); every Allow is closed; granted tools do not move; an upstream's end ends the session (I10) |
| Tool table (toolset), client ids (idmap::ClientTable) | maps inside the session | `build`, `route`; `insert`, `remove`, `contains`, `drain` | no ambiguous route (I6); one call per id |
| Connection actor (connection), upstream ids (idmap::PendingMap) | command queue, pending requests, progress tokens | handlers of commands and upstream frames; teardown | id containment (I3), cancellation removes the mapping (I4) |
| Transports (transport/stdio, http, sse, framing) | child process and writer task; POST and GET tasks, session id; parser buffers | `send`, `recv`, `close` | no deadlock through pipes (I8), order of `initialized`, a request whose POST is over has been answered, short lines survive long ones |
| Startup (router's `startup`, connection's `connect`, `config::validate`, cli's `main`) | connections and tool lists in the making, the event channel | resolve, validate, build, connect, list, merge, announce | all or nothing: nothing is served by halves, nothing refused leaves a process or a connection behind |
| Argument parsing (args) | none | `parse_call_params` | the upstream cannot read another call from the same bytes |
| Path normalization (normalize) | none | `normalize`, `normalize_prefix` | normalization never widens a grant (I18) |
| Cedar engine (`flavium-policy`) | compiled policies | `compile`, `request_context`, `authorize` | answers what `decide` answers (P1), every failure denies (P3) |
| CLI (`flavium-cli`: grants, trace, main) | trace file with a sequence number | grant file loader, JSONL sink | constraints mean what the file says; the sink fails for good |

**Tasks and queues.** The serve loop is one tokio task. Each upstream has an actor
task with a bounded command queue; the loop puts commands there with `try_send` and
never waits. All actors put events into one bounded queue the loop drains; they do
wait for room. Frames for the client go through a bounded queue to a writer task;
the loop waits for room there, in `Session::deliver`. A re-list is a task the loop
joins when it has finished. The trace sink is called from the loop and may refuse.

**What is hard.** Handlers are atomic with respect to each other, but between two of
them every queue may fill or drain, an actor may die, the client may cancel, reuse
an id or stop reading, an upstream may change its list, and any trace write may be
the one that fails. A response can be queued while its call is cancelled and its id
reused. A list can change while it is being read. A tool can move between upstreams
in steps none of which looks wrong. Startup runs all upstreams at once while nobody drains the event channel. A
child may stop reading, writing or both, and a reader that is polled in a `select!` is
dropped in the middle of what it does whenever another branch is ready first. POSTs are
tasks that overtake each other; a request can be answered on its own POST, on the GET
stream, twice, or not at all. The gate decides on one reading of a call, and the
upstream acts on its own reading of the same bytes.

## 2. Modules

| Module | Models | Built on |
|---|---|---|
| `Grants` | `flavium-core`: constraints, grants, `decide`, `granted_tools`, `covers`, `attenuates`, as operators on values | |
| `Delegation` | chains of delegations accepted by `attenuates`: the root's grants and those of one descendant | `Grants` |
| `Router` | one session: serve loop, gate, table of calls in flight, re-lists, teardown, and the queues shared with actors and writer | `Grants`, `ActorView` |
| `CallLife` | what a session promises about each call: one life, at most one answer, nothing after the audit fails; implemented by `Router` | |
| `Connection` | one connection actor in full: its loop, `PendingMap`, internal requests, progress tokens, waiting handlers, its end; the session and the calling tasks as its environment | |
| `ActorView` | an actor as `Router` sees it, a map from client ids to calls; implemented by `Connection`, and by each actor inside `Router` | |
| `StdioTransport` | a stdio upstream below its actor: `send` and the writer task, the frame reader and its buffer, `close`, the child | |
| `HttpTransport` | an HTTP upstream below its actor: POST tasks, session, the ordered `initialized`, SSE bodies, the GET listener, `close`; and `initialize` | |
| `Sse` | the SSE parser, chunk by chunk, and the grammar it is checked against | |
| `Transports` | `enum Transport`: one of the three above, run together as one specification | `StdioTransport`, `HttpTransport`, `Sse` |
| `TraceFile` | the JSONL sink and the file that several runs append to | |
| `Startup` | one process from its command line to its exit, with its upstreams and its trace file, and the next process after it | `TraceFile` |
| `Paths` | `normalize`, `normalize_prefix`; and, as a reference, how a file system resolves a path | |
| `GrantFile` | the grant file: what is refused, and the constraints, flavors and instants it becomes | `Grants`, `Paths` |
| `CallParams` | `parse_call_params` on members in the order they came | |
| `Engine` | the Cedar engine: compiled conditions, request context, the reading of Cedar's answer | `Grants` |
| `TraceLine` | the encoding of `session_started`, `call_refused`, `call_decided`, with the cap on values; and how they read back | `Grants` |
| `Gate` | from the file and the bytes of a call to what is forwarded and recorded | `GrantFile`, `CallParams`, `Engine`, `TraceLine` |
| `Authority` | a gate and a chain of delegations side by side, as one specification | `Delegation`, `Gate` |
| `MCAuthority`, `MCRouter`, `MCTransports`, `MCStdio`, `MCStartup`, `MCGate` | constants for TLC | |
| `GrantsProofs`, `DelegationProofs`, `RouterProofs`, `RouterCallsProofs`, `ConnectionProofs`, `GateProofs`, `TransportsProofs`, `StartupProofs` | theorems | |

### Grants and Delegation

An `Option` is the value or `None`; a `BTreeMap` keyed by argument names is a
function that is `None` where it has no entry; a string is a sequence of bytes; a
`Vec<Grant>` a sequence. `ToolStatus`, `Decide`, `Covers`, `Attenuates` are the
functions of the same names. Indices start at 1 instead of 0. `Other` stands for
every argument value the grammar does not model. Which axis a refused delegation
names (`CoverageError`) is left out.

The spawning of agents is not in the code yet; `attenuates` is, and
`flavium-core/src/lib.rs` states its invariants for whole trees. A tree is a set of
chains from the root, so `Delegation` has two variables, `root` and `held` (the
grants at the end of a chain), and one action that extends the chain, `Delegate`.
`Authority` puts a chain beside a `Gate`. The two share the grant model and no state, as
in the code; the step of one leaves the other alone.

### CallLife and Router

`CallLife` is the trace read as a specification: a call is unborn, then settled at once
(refused, denied, not forwarded) or open, and an open call is closed with one outcome.
`Router` implements it under the mapping `Life`: a call's life is read off `trace`
(`LifeIn`), its replies off `answers`, and it was sent if `forwarded` has a record of it.
The promise is only made by an enforced session, since no other writes a trace.

A handler is one action: the loop takes nothing else until it has returned. Its last
step may be `deliver`, which is where the loop can wait; then the action leaves
`parked` set and only `Unpark` or `ParkedFails` can continue. Guards are the
handler's conditions in the order the code has them: parameters, reused id, route,
verdict, room in the actor's queue. The clock reading a verdict uses is chosen with
the call.

| Variable | In the code |
|---|---|
| `phase`, `table`, `grantedRoutes`, `listChangePending`, `inFlight`, `nextCall` | fields of `Session` |
| `relistRunning`, `relistDirty`, `relistResult` | `relist_running`, `relist_dirty`, the finished task in the `JoinSet` |
| `end`, `closed`, `parked` | what `serve` returned, that `run` has written `SessionEnded`, that `serve` is inside `deliver` |
| `commands`, `pending`, `actor` | an actor's command queue, its `PendingMap`, where its task is |
| `events`, `clientQueue`, `writer` | the two other channels and the writer task |
| `offered`, `unsaid`, `changes`, `notices` | the upstreams' tool lists and counters that bound the model |
| `trace`, `forwarded`, `answers`, `untold`, `relistFailed`, `contested` | history, read by properties only |

`trace[c]` holds what the sink has been told of call `c`, in order. `forwarded[c]`
holds where a call that reached an actor went, and on which request and clock
reading it was judged. An unenforced session writes no trace.

Abstractions, all towards more behaviour unless noted:

- Frames are their meaning. Replies are counted, not built; ids are members of `Id`.
- `RefuseMalformed`, `RefuseDuplicateId` and `RefuseUnknownTool` have the same effect,
  `refuse_call`, and differ in their guards. Whatever is answered at once without
  touching a call is `AnswerAtOnce`; this includes `tools/list`.
- The sink may refuse any event (`SinkRefuses`); the real one refuses for good after
  its first error, which cannot be seen here because the session stops at the first.
- The pages of `drain_tools` are read in one step, and its requests use no slot of the
  command queue (the slots are modelled by their number only).
- An actor that waits inside a handler for room in the event queue is an actor whose
  step is not enabled; it may meanwhile take a later command.
- `Ended` and `Fatal` are one event. `SessionEnd::Internal` needs every task to die
  without a word and is left out.
- Progress of an upstream can be reported although no call is pending there: `Connection`
  shows that a token may outlive its request.
- After the serve loop has returned, the steps of actors and upstreams are not
  observed, and are left out.
- The teardown's joins with a grace period are left out: `CloseSession` is the point
  where `run` has recorded `SessionEnded`.

### ActorView and Connection

`Connection` is the actor behind one of `Router`'s queues. A handler is an action again,
but a handler that emits an event may find the queue full: it has then changed the map
and waits, `held` is what it waits with, and only `EmitHeld` or `EmitFails` continue.

| Variable | In the code |
|---|---|
| `commands`, `events` | the command queue, the event queue |
| `task`, `held` | where `Actor::run` is: in its loop, in `events.send` after it, in `transport.close`, returned; or in `emit` |
| `nextId`, `pending`, `byClient` | `PendingMap` |
| `tokenOf`, `tokenCounts` | `progress_tokens`, `token_counts` |
| `claimed`, `nextCall`, `over` | the session: its `ClientTable`, the calls it forwarded, whether `serve` has returned |
| `callers` | tasks in `Handle::call`: waiting for room, for the answer, or how it ended |
| `replied`, `withdrawn`, the fields `before` and `taken` of `held` | history |

- The handshake is over and has minted id 0.
- A frame's progress token is chosen when the frame is taken. A frame resists the
  rewriting of its id in `RejectForward`, an internal request is answered with a result
  or an error (one outcome), a response of a call that resists rewriting is a response.
- `transport.send` succeeds at once or fails (`SendFails`, `ReplyFails`). It may wait in
  the code; nothing the actor shares with others changes meanwhile.
- `Ended` and `Fatal` are one event. The queue holds this actor's events only; the
  bound stands for what others leave free.
- `EndSession` is the return of `serve` and the sending of `Shutdown` in one step.
- The deadline of `Handle::call` starts once the request is in the queue, as in the
  code: a task that waits for room has none of its own (`CallersReturn` then rests on
  the actor making progress or ending).

`ActorView` is the joint between the two: `Router`'s `commands[u]`, `pending[u]`,
`actor[u]` and `events`, the steps an actor may take, and any session around them. The
proxy's own requests stand in the same queue, and all that shows of them is that they
are taken (`TakeOwn`). An actor that ends may take a last command with it: its `select!`
has picked the command, and the send that follows fails (`LoseUpstream`). Events of other
upstreams are in the same queue, without a content (`Other`, put there by `OthersEmit`).

- `Connection` implements it under the mapping `View`: a client id stands for the call of
  the entry its index leads to; while a handler waits the view is still that from before it
  began, so the handler's step shows at the moment its event is queued. This is what
  justifies `Router`'s reading of a waiting actor as a step that is not enabled yet.
- Each actor of `Router` implements it under the mapping `Actor(u)`: `Queued`, `Standing`,
  `Stage` and `Heard` are what `u` has of the session's state. When the session ends it
  stops listening (`StopListening`), since `Router` follows no actor after that. The property is
  `ActorsAreViews`: so the session around a `Connection` is one that `Router` knows how to be.
- The other direction, that `Router` allows its actors all that `ActorView` allows, is
  theorem `ActorsDoWhatTheViewAllows`. Its exceptions: notices are bounded in `Router`, a
  change of tools is only said after there was one, and the proxy's own requests take no
  room in `Router`'s command queues.

### StdioTransport

| Variable | In the code |
|---|---|
| `actor`, `sent` | where the actor's task is: at its `select!`, awaiting room in `send`, in `close` with the writer, with the child; frames `send` has accepted |
| `outbound`, `writerUp`, `writing`, `writeDead` | the queue to the writer task, the task, the part it writes next, `write_dead` |
| `stdin`, `childGot` | the pipe to the child and what it has read from it |
| `reading`, `buf` | the call of `read_frame` in progress, if any, and `FrameReader::buf`, which outlives it |
| `spoken`, `heard`, `received` | how far the child has written and the reader read; what `recv` returned |
| `child` | runs or has exited |

A frame to the child is its number, written in two parts, text and newline, since a
write can be given up between them. What the child says is `Output`, a byte being the
number of the line it belongs to, so a frame shows which line it was cut from; besides,
`received` notes with each thing how far the reader was then (`upTo`; `Passed` is how far
it is now, without what waits in `buf`). A
command that is ready while `recv` waits drops the call: `reading` becomes idle and
`buf` stays. The wire error of an over-long line is one item. The child is any program:
it reads, writes and exits as it likes, and an unfinished line at its end is a frame, as
in the code. `WRITE_STALL_TIMEOUT` and `CHILD_EXIT_GRACE` are steps that can happen at
any time while they run.

### HttpTransport and Sse

| Variable | In the code |
|---|---|
| `phase` | where the handshake and then the actor are |
| `posts[p]` | the task of a POST: spawned, sent with the session and version of its headers, reading an SSE body, over; `out` is what it still has to `push` |
| `listener` | `listen_task` and `run_get`: attempt, stream, wait, back-off delay |
| `inbound`, `session`, `version`, `hint` | the channel, `Shared::session`, `Shared::protocol_version`, `Shared::retry_hint_ms` |
| `first`, `opened`, `expired` | history |

A server may answer anything: no response, any status, another content type, a body of
one message or of many, that ends or breaks anywhere. Items of a body are their meaning:
the answer to a request that was sent, another message, or a hint. A 404 without a
session fails like any status. Delays are numbers whose clamping and doubling is kept;
no time passes. `initialize` is the part of `connection.rs` that decides in which order
frames are posted. Closing forgets everything, the DELETE included.

`Sse` is the parser: `Step` is its byte, `parser` its fields, with the items it has
returned. Field names with their colon, digits, a byte-order mark and an invalid byte are
single symbols; the number in a hint is left out. `ItemsOf` is the reference. It has no
state: it says of each position of the whole text whether a line ends there, what the line
contributes, which lines stand since the last blank one (`Block`), and so what the parser
owes for this position (`ItemAt`). A line is cut off at `MaxEvent` (`Kept`) before a
byte-order mark is taken from it, as in the code, so the two agree even where the mark
alone fills the limit.

### TraceFile and Startup

A piece of the file is what one event left there: a whole line, or the beginning of one.
`JsonlSink::create` only opens for appending, so the next run's first line goes on where
a cut-off one stopped (see *Noted without a run*).

| Variable | In the code |
|---|---|
| `args`, `config` | the command line clap lets through; the configuration file: whether it has grants, and its upstreams |
| `stage`, `gate`, `outcome` | how far `main` and router's `startup` are; enforced or not; how it ended |
| `conn[u]` | the connection: its transport built, handshake, actor running, waiting in `events.send`, reporting its end, closed or aborted |
| `drain[u]` | `drain_tools`: tools, cursor and pages so far |
| `events`, `table` | how full the event channel is, or that its receiver is gone; the `ToolSet` served |
| `file`, `run`, `sink`, `seq`, `accepted` | the file, the process, the sink's state and `seq`; history: what `record` reported as written |

- An upstream may fail its handshake, never answer, fail a page, list without end, repeat
  a cursor, list one tool twice, or say `list_changed` until the event channel is full;
  its actor then waits in `emit` and answers nothing until the deadline of the call.
- Which message a refusal carries, and TOML, are left out: a file cannot be read, or it is
  a record.
- The session between `announce` and `shutdown` is `Router`'s; here it takes events and
  records.
- `Killed` is the end of the process at any moment; `Restart` the next one with the same
  trace file.

### Paths, GrantFile, CallParams, Engine, TraceLine and Gate

`Gate` is one deterministic function, file and call to verdict, spread over the modules
of its stages; its run enumerates files and calls. `Evaluated`, `Parse`, `Normalize`,
`NormalizePrefix`, `Accepted`, `ConstraintOf`, `ToTimestamp`, `Compile`,
`RequestContext`, `ClassifyResponse`, `CedarAuthorize`, `Capped` are the functions of
those names or the ones the map gives.

- Texts are sequences of characters of a small alphabet, with both separators, dots, a
  colon, two cases and NUL. Segments that are compared are made of letters.
- JSON is a sequence of members with a key and a value, repeated keys included. The
  code's JSON parser is external; that it numbers members and reads an integer as one is
  `GateAssumption`.
- The objects the trace writes have a member for each name a map holds and no other, so
  an absent argument is told from one whose value is not modelled (`Other`).
- Cedar is external: `&&` stops at the first conjunct that is not true, reading a missing
  attribute is an error, a policy in error is skipped and reported, determining policies
  come in no order. The conjuncts of a condition are a set: `Evaluate` lets an error count
  wherever it stands, so the result holds for every order the compiler may emit.
- What a file *means* is defined apart from the code (`Granted`, `Meets`, `Leads`,
  `NotYet`): an expiry by counting days and leap years, a path prefix by where a path
  leads when a file system resolves it (`Resolve`) from any of several directories, a
  repeated key by whichever member a reader takes, a NUL by whether a reader stops there.
- A path is `Under` a prefix if it leads to the prefix's location, into it, or to a
  name that goes on from its last one; a prefix that names a directory (by a separator, `.` or `..` at its
  end) means that directory alone. `UnderAsTaken` makes three exceptions, which are what the
  code does: only a separator at the end keeps namesakes out; a path that drops
  segments before a drive (`./C:/x`) is one on that drive; and on Windows a prefix that is
  the beginning of a drive (`c`, `c:`) admits what is on the drive.
- Three leading separators or more are a root of two, in `Resolve` as in the code.

## 3. Runs

| Run | Instance | Shows |
|---|---|---|
| `Authority` | `MCAuthority.cfg`: 140 grant sets, strings up to 2 bytes, bounds and expiries 1 and 2; 21 files, 17 of them unusable, and thousands of calls | the invariants of `flavium-core` along every chain; the gate decides on what file and call mean, and its trace says so |
| `RouterCalls` | `RouterCalls.cfg`: one upstream, 3 calls, 2 ids, 4 kinds of request, clock 1 and 2, queues of 1 and 2 | one consistent story of every call |
| `RouterRelist` | `RouterRelist.cfg`: two upstreams, 2 list changes, 2 calls | granted tools stay, no change is lost, the client is told, each actor is the one `Connection` is checked to be |
| `RouterLive` | `RouterLive.cfg`: one upstream, 2 calls, 2 list changes, fairness, a client that stays | the session ends, calls end, the table catches up |
| `RouterStalledClient` | `RouterStalledClient.cfg`: the client may stop reading | a counterexample to I10, see findings |
| `RouterCollision` | `RouterCollision.cfg`: one name that moves between two upstreams | a counterexample to the glossary's definition of a collision, see findings |
| `Connection` | `Connection.cfg`: 2 ids, 2 calls, one calling task, one token, queues of 1, 3 ids to mint | answers and cancellations reach the right call, nobody is stranded, the actor is what `Router` takes it for |
| `ConnectionTokens` | `ConnectionTokens.cfg`: one id | a counterexample to the comment on `token_counts`, see findings |
| `Transports` | `MCTransports.cfg`: 2 frames to a child, which says a short, an over-long and a short line; one request, one notification, one item, queues of 1; bodies of 3 chunks out of 12 | what a child reads, what the reader returns, what a POST that is over has led to, in which order frames are posted, what the SSE parser finds, and that nothing hangs |
| `StdioResync` | `StdioResync.cfg`: the same child | a counterexample to the comment on `Oversized`, see findings |
| `Startup` | `MCStartup.cfg`: 8 command lines and files, up to 2 upstreams, 3 runs into one trace file of up to 4 events each, lists of up to 3 pages | startup is all or nothing and comes to an end, the trace file stays whole |
| `GateWidens` | `MCGateWidens.cfg`: the same files and calls | a counterexample to "normalization must never widen", see findings |

**Properties.** `OneStoryPerCall`: the trace says of a call nothing, *refused*,
*denied*, or *allowed* and then at most one outcome. `ForwardedOnlyIfAllowed`: what an
actor gets was allowed by the grants at the clock reading used, and the trace says so
first. `OpenCallsAreInFlight`: the in-memory table and the trace agree on what is
open. `AnsweredAsTraced`: the client is answered exactly once for the calls whose
story ends in an answer, and never for the others. `AllowsAreAccountedFor`: a closed
session has no open Allow. `NoCallIsStranded`: a call in flight is in its actor's
queue, pending, or answered and on its way. `GrantedToolsNeverMove`, `NoChangeIsLost`,
`ClientIsTold`: routing across re-lists. `ActorsAreViews`: whatever shares the event queue,
each actor and the session around it take the steps of `ActorView`. `ImplementsCallLife`: every step does to the calls one thing
`CallLife` allows, or nothing. `AttenuatesRoot`, `RootBoundsAuthority`,
`RootBoundsVisibility`, `ListAgreesWithDecision`, `TimeOnlyNarrows`: the grant model.

Of `Connection`: `IndexesAgree`: the two maps of `PendingMap` are one relation.
`AnsweredOrWithdrawn`: a call is answered at most once, and never after its cancellation
was taken. `CancelHitsItsCall`: a cancellation names a client id, and yet withdraws the
call it was meant for or none. `ClaimsAreKnown`: while the actor runs, a claimed call is
queued, mapped, or answered and on its way. `CallersAreKnown`, `CallersReturn`: a task
that waits is known to the actor, and every internal request ends. `TokensAreCounted`:
a count is the number of requests that hold the token. `ImplementsActorView`. (The types,
which bound its queues, are left to theorem `TypeCorrect`.)

Of the transports: `StdinIsWhatWasSent`: what a child can read is the beginning of the
frames `send` accepted, with no gap and nothing after a write that was given up.
`ShortLinesArrive`: every line the reader has passed gave exactly one thing, in order: a
line within the limit itself, a longer one the error or, after an interruption, its end;
nothing else is received but the unfinished last line of a child that ended. `FinishedPostsAnswer`: a
request whose POST is over has an answer or an error made for it, unless the server said
202 or the session ended; and a real answer comes before a made one. `LifecycleInOrder`:
no request and no GET overtakes `initialized`, and all of them carry the same session and
version. `SseItemsAreTheText`: in whatever chunks a body comes, the parser returns what the
grammar finds in the whole text. `NeverHangs`: no send, close or handshake waits for a peer
for ever, what a task has read gets through, and a GET stream is tried again.

Of startup: `AllOrNothing`: what is served is every upstream with its full list and no
name twice, unenforced only on request, and a trace begins with the policy; what is not
served leaves no connection and no line. `TraceFileIsWhole`: a run's lines stand together
and are numbered without a gap, only the last can be cut off, and what `record` reported
as written is there. `StartupReturns`.

Of the gate: `AdmitsWhatTheFileGrants`: a call is forwarded only if an entry, as written,
grants what the upstream makes of its bytes (paths by `UnderAsTaken`), and always if an entry
grants it (paths by `Under`) and its paths are spelled plainly.
`TraceReplays`: the reference decision on what the trace says of grants, call and time is
the recorded one, unless a value was cut off; what was asked for can be read off too.

**Bounds.** Two ids and three calls are the least with which an id is cancelled,
reused and answered late while another call is open. A command queue of one is full
after one command, an event queue of two holds a response and something behind it, a
client queue of one parks the loop on the second frame. In `Connection` two ids share the one token, a command queue of one drops the
cancellation of the first call, and the second call then reuses its id. Two clock
readings are before and at the expiry of a grant. Two upstreams and two changes let a tool leave one and
appear at the other; a third upstream would add another place to move to and no other
kind of move. `MaxCalls`, `MaxChanges`, `MaxNotices` bound the length of a session and
`SinkMayFail`, `ClientMayLeave` switch failures off where a run is about something
else. The proofs of section 4 have no such bounds: they hold for every value of the
constants.

In `Transports` a limit of 2 bytes, chunks of 2 and a line of 5 make the reader discard
over two reads and find the newline together with bytes of the next line; a pipe of one
part stops a write between text and newline; a queue of 1 makes the second `send` wait.
One request, one notification and the two frames of the handshake are the posts that can
overtake each other; the channel of 1 makes every task wait for the reader. The hint of 9
lies above `ReconnectMax`, the delays 2 and 3 below it make doubling clamp. `MaxItems`
bounds what a server says on streams; a POST's own response is not counted. Chunks hold
half an event, its end, a CR whose LF is in the next chunk, an event that is too long or
damaged and the one after it; an event limit of 3 is passed by one line and by two. In
`Startup` an event queue of 2 can be full with one upstream and with two, 3 pages are the
limit and one below it, `MaxTools` and `MaxBytes` are passed by a page and by two, and
three runs let a torn line stand before a run, between runs and at the end. In
`Authority` a chain and a gate take each other's room: one of them has nothing to do (no
grants at the root, or a file without any), for their interleavings show nothing that one
alone does not. The prefixes of the files name directories by a separator, by `.`
and by `..` at their end, relative, absolute, on a share, on a drive and behind segments
that are dropped (`./C:/a`), and drives with a root and without (`c:/.`, `c:`, `c`); paths
have up to seven segments behind every kind of root; strings are shorter and
longer than `ValueCap`, and as long; calls stand one second before, at and after each expiry.

**Fairness.** `tokio::select!` polls its branches in random order, so a branch of the
serve loop that is ready again and again is taken: strong fairness for `HandleEvent`
and `HandleRelist`. A bounded tokio channel serves the waiting senders in turn: strong
fairness for an actor that waits to report. Tasks that can run do: weak fairness. That
the client reads (`ClientReads`) and that upstreams answer (`UpstreamsAnswer`) are
assumptions about peers; `StalledClientSpec` drops both. In `Connection` a command
that waits is taken although the upstream keeps talking (strong fairness for
`HandleCommand`), tasks that wait for room get it in turn (`Enqueue`), the serve loop
drains events, deadlines elapse, and closing a transport is bounded; no frame of the
upstream is assumed to arrive. In `StdioTransport` the writer task, a `send` and a close
run and their deadlines pass; in `HttpTransport` the actor takes what is in the channel,
the listener's timer passes, and tasks send and push; in `Startup` the process goes on
and a connect or a page either comes or meets its deadline. Children, servers and
upstreams need never do anything. Nothing else is assumed fair:
no client has to send, no list to change, nothing to fail.

**Deadlock** is checked in the runs of `Router` and `Connection`; the state
after `SessionEnded` has the step `Exited`, so a stop anywhere else is reported. It is not
checked in `Transports`, `StdioResync`, `Startup`, `Authority` and `GateWidens`, which do
stop: a closed transport, a body that has ended, the last run that is over, a file that was
refused. That they stop nowhere else is `NeverHangs` and `StartupReturns`; a gate and a
chain have no loop to hang in.

### Findings

1. `RouterStalledClient`. `docs/architecture/proxy-mcp.md` says that the serve loop
   never blocks on the client's stdout and that any upstream ending ends the session.
   `deliver` waits for room in the writer's queue on the serve loop. With a client that
   stops reading, the loop stays there and never takes an upstream's `Ended`.
2. `RouterCollision`. The glossary defines a collision as one name offered twice.
   `on_relist` merges a new list with the *last read* lists of the others, so a tool
   that has left one upstream and then appeared at another ends the session as a
   collision when the new owner's re-list is joined first. The outcome is safe (the
   session ends); what is said of the upstreams is not what happened.
3. `ConnectionTokens`. The comment on `token_counts` says it counts the requests in
   flight with a token, and `idmap.rs` that `insert_client` never finds a stale mapping.
   It finds one when a cancellation was dropped because the actor's queue was full and
   the client then reuses the id. The old entry is replaced without `release_token`: its
   token stays counted, and progress under it passes, until the connection ends. Calls
   are not affected (`AnsweredOrWithdrawn`, `CancelHitsItsCall`).
4. `StdioResync`. `framing.rs` says of `Oversized` that the reader has already discarded
   the rest of the line and the next call is valid. That it is inside an over-long line is
   known to the call of `read_frame` only. The actor's `select!` (and the client reader's
   in `router.rs`) drops the call when another branch is ready first; the next call takes
   the rest of the line for a frame, and no `Oversized` is reported. `ShortLinesArrive`
   holds all the same: whole lines are not lost or mixed up.
5. `GateWidens`. The comment on `normalize_prefix` (`normalize.rs:295`) says that
   normalization must never widen what an operator wrote, I18 of
   `docs/architecture/proxy-mcp.md` that a prefix comes out no broader than its author wrote
   it. The function keeps a separator only if it is the last character written. `/a/.` and
   `/a/b/..` name the directory `/a/`, but become the byte prefix `/a`, and a call on `/ab`
   is forwarded. `AdmitsWhatTheFileGrants` holds with this exception stated
   (`UnderAsTaken`): such a prefix lets in nothing but namesakes of its directory.

**Noted without a run.** Divergences met while modelling that no run shows:

- On Windows a path that becomes drive-rooted only by dropping segments (`./C:/x`) reads
  like one that is, and the prefix of a relative path `c` or `c:` admits `c:/x`, which is
  elsewhere. `UnderAsTaken` states these exceptions too.
- A line that was cut off and the first line of the next run are one line of text, while
  `docs/cli.md` promises one JSON object per line. `TraceFileIsWhole` says that no other
  lines can meet that way.
- A comment in `http.rs` (near 608) says that only a 405 or 404 gives up the GET stream; a
  200 with another content type does so too (`GetRespond`).
- An SSE body that breaks after it carried the answer also leads to an error for the same
  request; the actor drops it, because the id is no longer mapped.
- `send` on stdio waits for room in the writer's queue, and the actor reads nothing from
  the child meanwhile. `NeverHangs` shows that the stall deadline ends this.

## 4. Proofs

TLAPS 1.4.5 checks every obligation with Z3, Zenon and LS4.

- **`GrantsProofs`** proves L1, L2, INV-1, INV-1b, INV-2, INV-3, INV-5 and INV-6 of
  `flavium-core/src/lib.rs` for all grants, calls and times. L1 goes by the kinds of the
  two constraints, L2 by the arguments; transitivity of `Includes` needs transitivity of
  being a prefix and of being a suffix. `AllowsIffAdmitted` turns `Decide` into "some
  live grant admits", which the rest uses.
  INV-2 is stated for every grant set: a call is `NotGranted` exactly when no grant names
  its tool, and then it is neither allowed nor listed; the empty set is the case in which
  this holds of all tools.
- **`DelegationProofs`** lifts them to chains of any length. `AttenuatesRoot` is
  inductive by INV-5; the bounds on authority and visibility follow from INV-1 and
  INV-1b.
- **`RouterProofs`** proves type correctness, one lemma for each group of actions
  (client, events, re-lists, session, outside), and:
  - `GrantedToolsStay`, with the invariant `RoutesAgree`: the table and every forwarded
    call agree with the bindings first seen, and a binding is never changed.
  - `EveryChangeIsKept`, with `ChangesAreKnown`: whenever the table differs from what an
    upstream offers, the change is unsaid, queued, or being read by a re-list that is
    either late enough or marked to run again, or the last re-list failed.
  - `ClientIsAlwaysTold`.
  - `RouterKeepsToTheView`: every step is, for every upstream, a step of `ActorView` under
    `Actor(u)` or nothing (`ViewStep`): its own actor's, the loop's that sends it a command
    or takes an event, another upstream's that emits, or the end of the session. And
    `ActorsDoWhatTheViewAllows`, for a session that is served: what `ActorView` lets an
    actor do, `Router` lets it do.
- **`RouterCallsProofs`** proves six properties of calls and the refinement. All actions are first
  reduced to five moves (`WhichMove`): nothing happens to calls; a call is minted and
  settled at once; a call is minted, claimed and forwarded; an open call is closed; the
  sink gives up. `CallsInv` is inductive over these moves: besides the properties it
  says that numbers not yet minted have no past, that no two ids claim one call and no
  claimed call has been answered, that a closed session has nothing open, and that what
  was forwarded has an *allowed* in its story. The same moves are the steps of
  `CallLife`, which gives `RouterImplementsCallLife`: each is a step of `CallLife` or
  leaves it alone.

  `NoCallIsStranded` is not inductive: it does not say what a call's actor will find in
  its queue before it. `CallsAreKnown` does: a claimed call is in the queue with nothing
  about its id behind it (`QueuedLast`; a cancelled predecessor may stand before it), or
  pending with nothing about its id queued, or answered and on its way. The proof follows
  the id through the queue as its head is taken (`TakeMovesCall`).

- **`ConnectionProofs`** proves seven of the actor's properties, each time by reducing all
  actions to the few moves that matter for it, and the refinement:
  - `TypeOK` and `IndexesAgree`, by what an action does to `PendingMap` (`WhichMapMove`:
    nothing, insert a client, insert and cancel, insert an internal request, remove,
    drain; `complete` and `cancel_client` find the second map's entry in different ways and
    remove the same, `RespondRemoves`, `CancelRemoves`); each keeps the two maps one relation (`MapMoveKeepsIndexes`). The two are
    one invariant, because the types of what is emitted are those of what is mapped.
  - `AnsweredOrWithdrawn`, with `CallsInv`: a call that waits in the queue or is mapped
    is at one place only, and has been neither answered nor withdrawn (`CallMove`).
  - `TokensAreCounted`, with `TokensInv`: a minted id that is still to come carries no
    token, so a request that takes one is counted anew.
  - `CallersAreKnown`, with `CallersInv`: besides, nobody waits once the session is over,
    so the task that is aborted then leaves nobody waiting.
  - `CancelHitsItsCall`, with `CancelsInv`: `StandsFor(id, c, m)` says that once the first
    m commands are taken the id stands for call c or for nothing. It holds of every
    queued cancellation at its own place and of every claim at the end of the queue.

  - `ClaimsAreKnown`, with `ClaimsInv`, the counterpart of `CallsAreKnown` in the actor;
    here an answer may also be in the hand of a handler that waits.
  - `ImplementsActorView`: every action is a step of `ActorView` under `View` or leaves it
    alone, one lemma for each kind of action. It needs `WaitingInv`, what a handler can be
    waiting with (its answer to a Forward it took or to a call that was mapped, and nobody
    else answers under that id meanwhile; or a word of the upstream's), and `OverInv`, that
    only the end of the session queues a Shutdown, after which nobody takes events. A step
    of a handler that waits shows when its event is queued, or never, if the session is
    over by then.

- **`GateProofs`** proves P1 of `flavium-policy`: Cedar's answer on the compiled grants,
  read by `ClassifyResponse`, is `Decide`'s, determining grant included. The core is
  `ConjunctIsConstraint`: the condition a constraint becomes is never an error, because a
  reading stands behind its `has`, and is true exactly when the constraint admits. So
  `errors` is empty, `reason` is the set of admitting grants, and the least of them is the
  one the reference names. It also proves `TraceReplays`, with `GateInv`: a gate that
  serves decides on the file it was given, with the policies compiled from it, and has
  said so; and a line that tells a decision is `CallDecided` of the call in hand. What is
  left is that reading undoes writing unless a value was cut off (`GrantsReadBack`,
  `ArgsReadBack`), and P1. What texts are does not matter to it, so neither
  does what the normalization of paths computes. `AuthorityIsKept` carries this and the
  theorems about chains over to `Authority`, the specification the run checks, each
  part of which keeps its own (`EachKeepsItsSpec`).
- **`TransportsProofs`** has one part for each transport, and `TransportsKeepTheirWord`
  and `TransportTypes` for the composition that the run checks. Of stdio:
  - `ChildReadsWhatWasSent`, with `StdinInv`: what was written, the part in hand, the queue
    and `sent` follow each other without a gap while the writer task lives, and once it has
    ended nothing can be written. Five moves: idle, queue, take, write, quit.
  - `EveryLineArrives`, with `ReaderInv`: what waits in `buf` is the text after what the
    reader has passed, without a newline once it was searched; a read that discards keeps
    nothing; and behind the last thing received lies part of one line only (`InLine`),
    which is passed over because it is too long. Five moves of the
    reader again (`WhichReaderMove`): it rests, waits for more, drops what it cannot keep,
    finds a newline, stops at the end. A line that is found ends at the first newline after
    `Passed`, so it is the next line, and nothing stands between two things received.

  Of HTTP, the types and on top of them:
  - `HandshakeComesFirst`, with `HandshakeInv`: by the phase of the handshake, which tasks and
    streams can exist at all, that `running` is reached with `initialized` accepted, and
    that no step of a task changes the headers it was sent with (`PostStepKeeps`).
  - `EveryPostAnswers`, with `AnswersInv`: what each task still owes its request, by its
    state and the items it has yet to push (`PostOwes`): an error is made up only by the
    POST of a request that is over, for itself, and after what its body carried.

  Of event streams, `ItemsAreTheText`: the parser, byte by byte and in chunks, returns what
  the grammar finds in the whole text, for every limit on events. The invariant (`Reads`)
  says what each field of the parser is in terms of the text read so far: the line since the
  last ending, cut as the code cuts it (`Agrees`); the data and the type of the block since the last
  blank line, and whether they are over the limit or damaged (`Reports`); whether a LF would belong to a CR
  (`Swallows`). A byte can be one that ends a line, one that does not, or the LF of a CR. What
  the grammar says of earlier positions stays as the text grows (the lemmas named
  `...Stays`), so only the last position is new (`StepAgrees`); `FedReads` carries this over
  the bytes of a chunk.
- **`StartupProofs`** proves `TraceFileIsWhole`, with `TraceInv`: an open sink has written
  nothing yet, or its last line stands whole at the end of the file; a run that has not
  opened the file has nothing in it, and no piece is of a later run. The moves are: the
  file stays, is opened, is written, the process dies, the next begins. It also proves
  `AllOrNothing`, with `StartInv`: by the stage of startup, what a connection can be
  (`ConnInv`), that the table is what was listed with no name twice (`ListInv`), and that
  the file holds nothing of a run before its first event (`FileInv`), which comes after
  everything that can refuse a session.

The proofs assume `NoneAssumption` (`None` is no integer), `DelegationAssumption`,
`RouterAssumption`, `ConnectionAssumption`, `GateAssumption`, `CapAssumption`,
`StdioAssumption`, `HttpAssumption`, `SseAssumption`, `TraceAssumption` and `StartupAssumption`: constants
have their types, queues hold at least one element, `None` is none of the values it stands
beside, bounds of a range are integers or left out, and no tool is in the first lists of
two upstreams (startup refuses such lists: `AllOrNothingHolds`). TLC evaluates the
assumptions in every run.

**Induction.** The library's induction theorems take an operator as a parameter, which the
provers cannot instantiate. Where a proof is about a recursive function or a fold
(`FlattenSeq`, the bytes of a chunk) it works with sets instead: a set of counterexamples
has a least element because `<` is well founded on `Nat` (`LeastOf`, `Induct` in
`TransportsProofs`), and the function that a recursive definition chooses exists because
its finite beginnings do and agree (`FlatExists`, `FlatAgree`).

**Only model-checked.**

- `AdmitsWhatTheFileGrants`. It compares `Normalize` with a file system's resolution, both
  folds over segments of any number, and dates with a count of days.
- The liveness properties (`UpstreamEndEndsSession`, `ForwardedCallsEnd`, `TableCatchesUp`,
  `CallersReturn`, `NeverHangs`, `StartupReturns`), because fairness and `ENABLED` are out
  of the prover's reach.

Every other property of a passing run is stated by a theorem.

## 5. Not modelled, and the plan

Left out:

- The parsing and printing of JSON (`envelope`, `splice`, `builder`, `protocol`) and
  the bytes of a merged `tools/list` (`merged_result`). They convert bytes to values and
  back in one step and have no behaviour over time; the models take the values.
- The syntax of TOML, warnings, wording of refusals, redaction of URLs and headers, logging,
  and the encodings of the trace events other than the three of `TraceLine`.
- Which names `name.rs` refuses: they are the constant `Unnameable`.
- The test harness and the example upstream, which are test code.

What remains to be done, in this order: an unenforced instance of `Router`; the two ends
joined, `Connection` over `StdioTransport`, with the frames of one as the parts of the
other.
