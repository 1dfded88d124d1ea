------------------------------- MODULE Startup -------------------------------
(***************************************************************************)
(* A process of `flavium proxy` from its command line to its end: main.rs, *)
(* config.rs and stdio.rs, the startup of router.rs with connect of        *)
(* connection.rs and the tool lists of toolset.rs, and the ways out of     *)
(* each.  The session it then serves is Router's; here it only has         *)
(* upstreams that may end, events that are recorded, and an end.           *)
(*                                                                         *)
(* Several upstreams connect, and then list their tools, all together.     *)
(* While they do, nobody takes events from the channel their actors share: *)
(* an actor that finds it full waits, and answers nothing meanwhile.       *)
(***************************************************************************)
EXTENDS TraceFile, SequencesExt

CONSTANTS
  Invocations,   \* per process, the command lines and config files it may be given
  Tool,          \* names of tools
  Page,          \* the tools an upstream may list on a page
  Size,          \* bytes of a tool's object
  Cursor,        \* values of nextCursor
  None,
  EventQueue,    \* CLIENT_QUEUE_FRAMES, the capacity of the event channel
  MaxPages,      \* MAX_LIST_PAGES
  MaxTools,      \* MAX_TOOLS_PER_UPSTREAM
  MaxBytes       \* max_frame_bytes

\* What clap lets through: config and command exclude each other, as do unenforced and
\* trace.  A config file has grants or not, and upstreams with a name and a transport
\* that can be used or not.
Line == {l \in [config: BOOLEAN, command: BOOLEAN, unenforced: BOOLEAN, trace: BOOLEAN] :
           ~(l.config /\ l.command) /\ ~(l.unenforced /\ l.trace)}
Config == [grants: BOOLEAN, specs: Seq([name: STRING, usable: BOOLEAN])]

ASSUME StartupAssumption ==
  /\ \A r \in 1 .. MaxRuns : Invocations[r] \subseteq Line \X Config
  /\ Page \subseteq Seq(Tool)
  /\ Size \in [Tool -> Nat]
  /\ {EventQueue, MaxPages, MaxTools, MaxBytes} \subseteq Nat \ {0}
  /\ None \notin Cursor \cup {"on", "off", "refused", "unrecorded", "ended", "killed"}

VARIABLES
  args,      \* the command line
  config,    \* the config file
  stage,     \* how far the process is
  gate,      \* "on", or "off" for the transparent proxy
  outcome    \* None, "refused" (an error is returned), "unrecorded" (the first event was
             \* refused), "ended" or "killed"

VARIABLES
  conn,      \* per upstream its connection
  drain,     \* per upstream its drain_tools
  events,    \* events in the channel; None when its receiver is gone
  table      \* ToolSet: what is served, None before

processVars == <<args, config, stage, gate, outcome>>
upstreamVars == <<conn, drain, events, table>>
startupVars == <<processVars, upstreamVars, traceVars>>

Specs == config.specs
Upstreams == DOMAIN Specs

\* A connection is not there, "built" (a transport), "connecting", "closing" (its
\* handshake failed), run by an actor that is "up", "stuck" (waits for room in the
\* event channel), "reporting" its end or "ending", and "closed" or "aborted".
Actor == {"up", "stuck", "reporting", "ending"}

\* A drain is "idle", "declared" or "undeclared" (the tools capability), "asked", "done" or
\* "failed", with the tools, the cursor and the number of pages so far.
Idle == [state |-> "idle", tools |-> <<>>, cursor |-> None, pages |-> 0]
Failed == [Idle EXCEPT !.state = "failed"]
Done(tools) == [Idle EXCEPT !.state = "done", !.tools = tools]

StartupInit ==
  /\ \E i \in Invocations[1] : args = i[1] /\ config = i[2]
  /\ stage = "resolve" /\ gate = None /\ outcome = None
  /\ conn = [u \in Upstreams |-> "none"]
  /\ drain = [u \in Upstreams |-> Idle]
  /\ events = 0 /\ table = None
  /\ TraceInit

At(s) == stage = s
Go(s) == stage' = s /\ UNCHANGED <<args, config, gate, outcome>>
Refuse == stage' = "over" /\ outcome' = "refused" /\ UNCHANGED <<args, config, gate>>
Forget == drain' = [u \in Upstreams |-> Idle] /\ table' = None

\* Startup has failed after actors were started: shutdown_all, then the error.  The
\* channel stays open, and nobody reads from it.
Fail ==
  /\ stage' = "shutdown" /\ outcome' = "refused" /\ Forget
  /\ UNCHANGED <<args, config, gate, events>>

-----------------------------------------------------------------------------
(* The command line and the transports *)

\* resolve: the gate is off only when --unenforced says so and there are no grants.
Resolve ==
  /\ At("resolve")
  /\ \/ args.config /\ config.grants /\ ~args.unenforced /\ Go("compile")
     \/ /\ args.unenforced /\ (args.config # args.command) /\ ~(args.config /\ config.grants)
        /\ stage' = "validate" /\ gate' = "off" /\ UNCHANGED <<args, config, outcome>>
     \/ /\ ~args.config /\ (~args.command \/ ~args.unenforced) /\ Refuse
     \/ /\ args.config /\ (args.unenforced = config.grants) /\ Refuse
     \/ args.config /\ Refuse        \* the file cannot be read or parsed
  /\ UNCHANGED <<upstreamVars, traceVars>>

\* enforcement: the grants are compiled, and the trace file is opened.
Compile ==
  /\ At("compile")
  /\ \/ Refuse /\ UNCHANGED traceVars
     \/ /\ stage' = "validate" /\ gate' = "on" /\ UNCHANGED <<args, config, outcome>>
        /\ IF args.trace THEN Create ELSE UNCHANGED traceVars
  /\ UNCHANGED upstreamVars

\* config::validate, on specs given as a name and whether the rest can be used.
Valid(specs) ==
  /\ specs # <<>>
  /\ \A i \in DOMAIN specs : specs[i].name # "" /\ specs[i].usable
  /\ \A i, j \in DOMAIN specs : i # j => specs[i].name # specs[j].name

Validate ==
  /\ At("validate")
  /\ IF Valid(Specs) THEN Go("build") ELSE Refuse
  /\ UNCHANGED <<upstreamVars, traceVars>>

\* serve builds the transports in order; one that cannot be built ends it.
Build ==
  /\ At("build")
  /\ LET left == {u \in Upstreams : conn[u] = "none"}
     IN IF left = {}
          THEN /\ conn' = [u \in Upstreams |-> "connecting"]
               /\ Go("connect")
          ELSE \/ /\ conn' = [conn EXCEPT ![Min(left)] = "built"]
                  /\ UNCHANGED processVars
               \/ Go("unbuild") /\ UNCHANGED conn
  /\ UNCHANGED <<drain, events, table, traceVars>>

\* close_all, one after the other.
Unbuild ==
  /\ At("unbuild")
  /\ LET left == {u \in Upstreams : conn[u] = "built"}
     IN IF left = {} THEN Refuse /\ UNCHANGED conn
        ELSE conn' = [conn EXCEPT ![Min(left)] = "closed"] /\ UNCHANGED processVars
  /\ UNCHANGED <<drain, events, table, traceVars>>

-----------------------------------------------------------------------------
(* Connecting *)

\* connect returns a Handle: the actor runs from here on.
Connected(u) ==
  /\ At("connect") /\ conn[u] = "connecting"
  /\ conn' = [conn EXCEPT ![u] = "up"]
  /\ \E declared \in {"declared", "undeclared"} : drain' = [drain EXCEPT ![u].state = declared]
  /\ UNCHANGED <<processVars, events, table, traceVars>>

\* The handshake fails in one of its ways, or its deadline is over.
ConnectFails(u) ==
  /\ At("connect") /\ conn[u] = "connecting"
  /\ conn' = [conn EXCEPT ![u] = "closing"]
  /\ UNCHANGED <<processVars, drain, events, table, traceVars>>

ConnectClosed(u) ==
  /\ conn[u] = "closing"
  /\ conn' = [conn EXCEPT ![u] = "closed"]
  /\ UNCHANGED <<processVars, drain, events, table, traceVars>>

\* A handshake that failed leaves no Handle behind.
Refused(u) == conn[u] = "closed" /\ drain[u] = Idle

\* Mutant: the first failure is enough to stop waiting.
ConnectsJoinedEarly ==
  /\ At("connect")
  /\ \/ (\E u \in Upstreams : Refused(u)) /\ Fail
     \/ /\ \A u \in Upstreams : conn[u] \notin {"connecting", "closing"} /\ ~Refused(u)
        /\ drain' = [u \in Upstreams |->
             [drain[u] EXCEPT !.state = IF @ = "undeclared" THEN "done" ELSE "asked"]]
        /\ Go("list") /\ UNCHANGED <<events, table>>
  /\ UNCHANGED <<conn, traceVars>>

\* join_all waits for every connect.  An upstream without the tools capability is
\* not asked for its list.
ConnectsJoined ==
  /\ At("connect")
  /\ \A u \in Upstreams : conn[u] \notin {"connecting", "closing"}
  /\ IF \E u \in Upstreams : Refused(u) THEN Fail
     ELSE /\ drain' = [u \in Upstreams |->
               [drain[u] EXCEPT !.state = IF @ = "undeclared" THEN "done" ELSE "asked"]]
          /\ Go("list") /\ UNCHANGED <<events, table>>
  /\ UNCHANGED <<conn, traceVars>>

-----------------------------------------------------------------------------
(* The actors *)

\* An event is sent when there is room, or refused when its receiver is gone.
Sent == events # EventQueue /\ events' = IF events = None THEN None ELSE events + 1

\* list_changed, or another notification of the upstream's.  With the receiver gone
\* the actor stops.
Speaks(u) ==
  /\ conn[u] = "up" /\ stage \in {"connect", "list", "serving", "shutdown"}
  /\ \/ /\ Sent
        /\ conn' = [conn EXCEPT ![u] = IF events = None THEN "ending" ELSE "up"]
     \/ /\ events = EventQueue
        /\ conn' = [conn EXCEPT ![u] = "stuck"] /\ UNCHANGED events
  /\ UNCHANGED <<processVars, drain, table, traceVars>>

Unstuck(u) ==
  /\ conn[u] = "stuck" /\ Sent
  /\ conn' = [conn EXCEPT ![u] = IF events = None THEN "ending" ELSE "up"]
  /\ UNCHANGED <<processVars, drain, table, traceVars>>

\* The upstream ends or fails: who waits for a page is told.
Ends(u) ==
  /\ conn[u] = "up" /\ stage # "over"
  /\ conn' = [conn EXCEPT ![u] = "reporting"]
  /\ drain' = [drain EXCEPT ![u] = IF @.state = "asked" THEN Failed ELSE @]
  /\ UNCHANGED <<processVars, events, table, traceVars>>

Reports(u) ==
  /\ conn[u] = "reporting" /\ Sent
  /\ conn' = [conn EXCEPT ![u] = "ending"]
  /\ UNCHANGED <<processVars, drain, table, traceVars>>

Closes(u) ==
  /\ conn[u] = "ending"
  /\ conn' = [conn EXCEPT ![u] = "closed"]
  /\ UNCHANGED <<processVars, drain, events, table, traceVars>>

-----------------------------------------------------------------------------
(* Listing *)

Bytes(tools) == FoldLeft(LAMBDA sum, t : sum + Size[t], 0, tools)

\* One turn of the loop in drain_tools, on the list so far.
Drained(d, page, next) ==
  LET tools == d.tools \o page
  IN IF \/ Bytes(tools) > MaxBytes \/ Len(tools) > MaxTools
        \/ next # None /\ (next = d.cursor \/ d.pages + 1 = MaxPages)
       THEN Failed
     ELSE IF next = None THEN Done(tools)
     ELSE [d EXCEPT !.tools = tools, !.cursor = next, !.pages = @ + 1]

PageArrives(u) ==
  /\ At("list") /\ conn[u] = "up" /\ drain[u].state = "asked"
  /\ \E page \in Page, next \in Cursor \cup {None} :
       drain' = [drain EXCEPT ![u] = Drained(@, page, next)]
  /\ UNCHANGED <<processVars, conn, events, table, traceVars>>

\* Mutant: only an actor that still runs can let the deadline of a call pass.
ListFailsWhileUp(u) ==
  /\ At("list") /\ drain[u].state = "asked" /\ conn[u] = "up"
  /\ drain' = [drain EXCEPT ![u] = Failed]
  /\ UNCHANGED <<processVars, conn, events, table, traceVars>>

\* The upstream answers with an error or a page that does not parse, the deadline
\* of the call is over, or the actor is gone.
ListFails(u) ==
  /\ At("list") /\ drain[u].state = "asked"
  /\ drain' = [drain EXCEPT ![u] = Failed]
  /\ UNCHANGED <<processVars, conn, events, table, traceVars>>

ListsJoined ==
  /\ At("list")
  /\ \A u \in Upstreams : drain[u].state \in {"done", "failed"}
  /\ \/ (\E u \in Upstreams : drain[u].state = "failed") /\ Fail
     \/ /\ \A u \in Upstreams : drain[u].state = "done"
        /\ Go("merge") /\ UNCHANGED <<drain, events, table>>
  /\ UNCHANGED <<conn, traceVars>>

\* ToolSet::build refuses a name that is listed twice, wherever.
Merge ==
  /\ At("merge")
  /\ IF \A u, v \in Upstreams : \A i \in DOMAIN drain[u].tools, j \in DOMAIN drain[v].tools :
          drain[u].tools[i] = drain[v].tools[j] => u = v /\ i = j
       THEN /\ table' = [u \in Upstreams |-> drain[u].tools]
            /\ Go("announce") /\ UNCHANGED <<drain, events>>
       ELSE Fail
  /\ UNCHANGED <<conn, traceVars>>

-----------------------------------------------------------------------------
(* The session *)

EndSession(as) ==
  /\ stage' = "shutdown" /\ outcome' = as /\ Forget
  /\ UNCHANGED <<args, config, gate, conn>>

\* The policy in force is the first event recorded; a session that cannot record it
\* never begins.
Announce ==
  /\ At("announce")
  /\ \/ /\ IF sink = "none" THEN UNCHANGED traceVars ELSE RecordOk
        /\ Go("serving") /\ UNCHANGED upstreamVars
     \/ RecordFails /\ EndSession("unrecorded") /\ UNCHANGED events

\* An event that changes nothing here, or one that is recorded; MaxEvents leaves room
\* for the last.
Serve ==
  /\ At("serving")
  /\ \/ /\ events > 0 /\ events' = events - 1
        /\ UNCHANGED <<processVars, conn, drain, table, traceVars>>
     \/ /\ seq < MaxEvents - 1 /\ RecordOk
        /\ UNCHANGED <<processVars, upstreamVars>>

\* The client leaves, an upstream's end is taken from the channel, or any of the others,
\* an event that cannot be recorded among them.  serve drops the receiver.
SessionEnds ==
  /\ At("serving") /\ EndSession("ended") /\ events' = None
  /\ RecordFails \/ UNCHANGED traceVars

\* shutdown_all and the end of run: every actor is told, and joined in order.
ActorStops(u) ==
  /\ At("shutdown") /\ conn[u] = "up"
  /\ conn' = [conn EXCEPT ![u] = "ending"]
  /\ UNCHANGED <<processVars, drain, events, table, traceVars>>

\* The grace period is over for the first that still runs.
Abort ==
  /\ At("shutdown")
  /\ \E u \in Upstreams :
       /\ conn[u] \in Actor
       /\ \A v \in Upstreams : v < u => conn[v] \notin Actor
       /\ conn' = [conn EXCEPT ![u] = "aborted"]
  /\ UNCHANGED <<processVars, drain, events, table, traceVars>>

ShutDown ==
  /\ At("shutdown") /\ \A u \in Upstreams : conn[u] \notin Actor
  /\ Go(IF outcome = "ended" /\ sink # "none" THEN "farewell" ELSE "over")
  /\ UNCHANGED <<upstreamVars, traceVars>>

\* The last event; that it cannot be recorded changes nothing any more.
Farewell ==
  /\ At("farewell")
  /\ RecordOk \/ RecordFails \/ RecordRefused
  /\ Go("over")
  /\ UNCHANGED upstreamVars

Killed ==
  /\ stage # "over" /\ Die
  /\ stage' = "over" /\ outcome' = "killed"
  /\ conn' = [u \in Upstreams |-> "aborted"]
  /\ events' = None /\ Forget
  /\ UNCHANGED <<args, config, gate>>

\* The operator starts it again, with the same trace file.
Restart ==
  /\ At("over") /\ run < MaxRuns
  /\ run' = run + 1 /\ sink' = "none" /\ seq' = 0 /\ UNCHANGED <<file, accepted>>
  /\ \E i \in Invocations[run + 1] : args' = i[1] /\ config' = i[2]
  /\ stage' = "resolve" /\ gate' = None /\ outcome' = None
  /\ conn' = [u \in DOMAIN config'.specs |-> "none"]
  /\ drain' = [u \in DOMAIN config'.specs |-> Idle]
  /\ events' = 0 /\ table' = None

-----------------------------------------------------------------------------

Prepare == Resolve \/ Compile \/ Validate \/ Build \/ Unbuild
Connecting(u) == Connected(u) \/ ConnectFails(u) \/ ConnectClosed(u)
Listing(u) == PageArrives(u) \/ ListFails(u)
ActorStep(u) == Unstuck(u) \/ Reports(u) \/ Closes(u) \/ ActorStops(u)
Router == ConnectsJoined \/ ListsJoined \/ Merge \/ Announce \/ Abort \/ ShutDown \/ Farewell

StartupNext ==
  \/ Prepare \/ Router \/ Serve \/ SessionEnds \/ Killed \/ Restart
  \/ \E u \in Upstreams : Connecting(u) \/ Listing(u) \/ ActorStep(u) \/ Speaks(u) \/ Ends(u)

\* The process runs and its deadlines pass; nothing is assumed of the upstreams.
StartupFairness ==
  /\ WF_startupVars(Prepare) /\ WF_startupVars(Router)
  /\ WF_startupVars(\E u \in Upstreams : Connecting(u) \/ Listing(u))

StartupSpec == StartupInit /\ [][StartupNext]_startupVars /\ StartupFairness

-----------------------------------------------------------------------------
(* Properties *)

\* What is served is whole: every upstream was connected and listed, no name
\* leads to two of them, the gate is off only on request, and a trace begins with
\* the policy.  What is not served leaves nothing behind: no connection, and no
\* line in the trace.
AllOrNothing ==
  /\ stage = "serving" =>
       /\ \A u \in Upstreams : conn[u] \in Actor \cup {"closed"} /\ drain[u].state = "done"
       /\ \A u, v \in Upstreams : \A i \in DOMAIN table[u], j \in DOMAIN table[v] :
            table[u][i] = table[v][j] => u = v /\ i = j
       /\ \A u \in Upstreams : table[u] = drain[u].tools
       /\ gate = "off" => args.unenforced /\ ~(args.config /\ config.grants)
       /\ args.trace => [run |-> run, seq |-> 1, whole |-> TRUE] \in OfRun(run)
  /\ stage = "over" /\ outcome # "killed" =>
       \A u \in Upstreams : conn[u] \in {"none", "closed", "aborted"}
  /\ outcome = "refused" => OfRun(run) = {}

\* Whatever the upstreams do - never answer, list without end, fill the event
\* queue - startup comes to an end, and so does a shutdown.
StartupReturns ==
  /\ stage = "resolve" ~> stage \in {"serving", "over"}
  /\ stage = "shutdown" ~> stage = "over"

=============================================================================
