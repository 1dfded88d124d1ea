----------------------------- MODULE StartupProofs -----------------------------
(***************************************************************************)
(* The trace file stays whole, and a session is served whole or leaves     *)
(* nothing behind: for any number of runs, upstreams and events, whatever  *)
(* the upstreams of each run do, wherever a write fails and whenever a     *)
(* process is killed.                                                      *)
(***************************************************************************)
EXTENDS Startup, TLAPS

\* The trace file of this run has not been opened.
Fresh == stage \in {"resolve", "compile"}

\* The last piece in the file, if there is one, is of an earlier run.
NoPieceYet == file # <<>> => file[Len(file)].run < run

\* An open sink has written all its lines whole; the file holds nothing of a run that has
\* yet to open it, and nothing of later runs.
TraceInv ==
  /\ TraceTypeOK /\ TraceFileIsWhole
  /\ \A i \in DOMAIN file : file[i].run <= run
  /\ Fresh => sink = "none" /\ NoPieceYet
  /\ sink = "open" => \/ seq = 0 /\ NoPieceYet
                      \/ file # <<>> /\ file[Len(file)] = [run |-> run, seq |-> seq, whole |-> TRUE]

-----------------------------------------------------------------------------
(* What a step of the process does to the file *)

Stays == UNCHANGED traceVars /\ (Fresh' => Fresh)
Opens == Create /\ Fresh /\ ~Fresh'
Records == (RecordOk \/ RecordFails) /\ (Fresh' => Fresh)
Dies == Die /\ ~Fresh'
Begins ==
  /\ run < MaxRuns /\ run' = run + 1
  /\ sink' = "none" /\ seq' = 0 /\ UNCHANGED <<file, accepted>>

LEMMA PreparesMove ==
  ASSUME Prepare
  PROVE  Stays \/ Opens
<1>1. CASE Resolve
  BY <1>1 DEF Resolve, At, Go, Refuse, Stays, Fresh
<1>2. CASE Compile
  BY <1>2 DEF Compile, At, Refuse, Stays, Opens, Fresh
<1>3. CASE Validate
  BY <1>3 DEF Validate, At, Go, Refuse, Stays, Fresh
<1>4. CASE Build
  BY <1>4 DEF Build, At, Go, processVars, Stays, Fresh
<1>5. CASE Unbuild
  BY <1>5 DEF Unbuild, At, Refuse, processVars, Stays, Fresh
<1>. QED
  BY <1>1, <1>2, <1>3, <1>4, <1>5 DEF Prepare

LEMMA RoutersMove ==
  ASSUME Router
  PROVE  Stays \/ Records
<1>1. CASE ConnectsJoined
  BY <1>1 DEF ConnectsJoined, Fail, Go, Stays, Fresh
<1>2. CASE ListsJoined
  BY <1>2 DEF ListsJoined, Fail, Go, Stays, Fresh
<1>3. CASE Merge
  BY <1>3 DEF Merge, Fail, Go, Stays, Fresh
<1>4. CASE Announce
  BY <1>4 DEF Announce, Go, EndSession, Stays, Records, Fresh
<1>5. CASE Abort
  BY <1>5 DEF Abort, processVars, Stays, Fresh
<1>6. CASE ShutDown
  BY <1>6 DEF ShutDown, Go, Stays, Fresh
<1>7. CASE Farewell
  BY <1>7 DEF Farewell, Go, RecordRefused, Stays, Records, Fresh
<1>. QED
  BY <1>1, <1>2, <1>3, <1>4, <1>5, <1>6, <1>7 DEF Router

LEMMA UpstreamsMove ==
  ASSUME NEW u \in Upstreams,
         Connecting(u) \/ Listing(u) \/ ActorStep(u) \/ Speaks(u) \/ Ends(u)
  PROVE  Stays
<1>1. UNCHANGED processVars /\ UNCHANGED traceVars
  <2>1. CASE Connecting(u)
    BY <2>1 DEF Connecting, Connected, ConnectFails, ConnectClosed
  <2>2. CASE Listing(u)
    BY <2>2 DEF Listing, PageArrives, ListFails
  <2>3. CASE ActorStep(u)
    BY <2>3 DEF ActorStep, Unstuck, Reports, Closes, ActorStops
  <2>4. CASE Speaks(u) \/ Ends(u)
    BY <2>4 DEF Speaks, Ends
  <2>. QED
    BY <2>1, <2>2, <2>3, <2>4
<1>. QED
  BY <1>1 DEF processVars, Stays, Fresh

LEMMA WhichMove ==
  ASSUME [StartupNext]_startupVars
  PROVE  Stays \/ Opens \/ Records \/ Dies \/ Begins
<1>1. CASE UNCHANGED startupVars
  BY <1>1 DEF startupVars, processVars, Stays, Fresh
<1>2. CASE Serve
  BY <1>2 DEF Serve, processVars, Stays, Records, Fresh
<1>3. CASE SessionEnds
  BY <1>3 DEF SessionEnds, EndSession, Stays, Records, Fresh
<1>4. CASE Killed
  BY <1>4 DEF Killed, Dies, Fresh
<1>5. CASE Restart
  BY <1>5 DEF Restart, Begins
<1>. QED
  BY <1>1, <1>2, <1>3, <1>4, <1>5, PreparesMove, RoutersMove, UpstreamsMove DEF StartupNext

-----------------------------------------------------------------------------
(* The invariant *)

\* A line or the beginning of one, appended by the run that holds the open file.
LEMMA AppendedIsWhole ==
  ASSUME TraceInv, sink = "open", seq < MaxEvents, NEW whole \in BOOLEAN, Write(whole),
         run' = run,
         accepted' = accepted \cup (IF whole THEN {<<run, seq + 1>>} ELSE {})
  PROVE  /\ TraceFileIsWhole' /\ file' \in Seq(Piece)
         /\ accepted' \subseteq (1 .. MaxRuns) \X (1 .. MaxEvents)
         /\ \A i \in DOMAIN file' : file'[i].run <= run
         /\ file' # <<>> /\ file'[Len(file')] = [run |-> run, seq |-> seq + 1, whole |-> whole]
<1>. DEFINE piece == [run |-> run, seq |-> seq + 1, whole |-> whole]
            n == Len(file)
<1>1. piece \in Piece /\ seq \in Nat /\ run \in 1 .. MaxRuns
  BY TraceAssumption DEF TraceInv, TraceTypeOK, Piece, TraceAssumption
<1>2. file \in Seq(Piece) /\ n \in Nat /\ DOMAIN file = 1 .. n
  BY DEF TraceInv, TraceTypeOK
<1>3. /\ file' \in Seq(Piece) /\ DOMAIN file' = 1 .. n + 1 /\ Len(file') = n + 1
      /\ file'[n + 1] = piece /\ \A i \in 1 .. n : file'[i] = file[i]
  BY <1>1, <1>2 DEF Write
<1>4. \A i \in DOMAIN file' : file'[i].run <= run
  BY <1>1, <1>2, <1>3 DEF TraceInv
<1>5. ASSUME NEW i \in DOMAIN file'
      PROVE  \/ file'[i].seq = 1 /\ (i > 1 => file'[i - 1].run < file'[i].run)
             \/ i > 1 /\ file'[i - 1] = [run |-> file'[i].run, seq |-> file'[i].seq - 1, whole |-> TRUE]
  <2>1. CASE i \in 1 .. n
    <3>1. i > 1 => i - 1 \in 1 .. n
      BY <1>2, <2>1
    <3>. QED
      BY <1>2, <1>3, <2>1, <3>1 DEF TraceInv, TraceFileIsWhole
  <2>2. CASE i = n + 1
    <3>1. i > 1 => n \in 1 .. n /\ i - 1 = n /\ file # <<>>
      BY <1>2, <2>2
    <3>2. file'[i].run = run /\ file'[i].seq = seq + 1
      BY <1>3, <2>2
    <3>3. CASE seq = 0 /\ NoPieceYet
      <4>1. i > 1 => file'[i - 1] = file[n] /\ file[n].run < run
        BY <1>3, <3>1, <3>3 DEF NoPieceYet
      <4>. QED
        BY <3>2, <3>3, <4>1
    <3>4. CASE file # <<>> /\ file[n] = [run |-> run, seq |-> seq, whole |-> TRUE]
      <4>1. i > 1 /\ file'[i - 1] = file[n]
        BY <1>2, <1>3, <2>2, <3>4
      <4>2. file'[i].seq - 1 = seq
        BY <1>1, <3>2
      <4>. QED
        BY <3>2, <3>4, <4>1, <4>2
    <3>. QED
      BY <3>3, <3>4 DEF TraceInv
  <2>. QED
    BY <1>2, <1>3, <2>1, <2>2
<1>6. ASSUME NEW a \in accepted'
      PROVE  \E i \in DOMAIN file' : file'[i] = [run |-> a[1], seq |-> a[2], whole |-> TRUE]
  <2>1. CASE a \in accepted
    <3>1. PICK i \in DOMAIN file : file[i] = [run |-> a[1], seq |-> a[2], whole |-> TRUE]
      BY <2>1 DEF TraceInv, TraceFileIsWhole
    <3>2. i \in DOMAIN file' /\ file'[i] = file[i]
      BY <1>2, <1>3
    <3>3. file'[i] = [run |-> a[1], seq |-> a[2], whole |-> TRUE]
      BY <3>1, <3>2
    <3>. QED
      BY <3>2, <3>3
  <2>2. CASE whole /\ a = <<run, seq + 1>>
    BY <1>2, <1>3, <2>2
  <2>. QED
    BY <2>1, <2>2
<1>7. accepted' \subseteq (1 .. MaxRuns) \X (1 .. MaxEvents)
  <2>1. <<run, seq + 1>> \in (1 .. MaxRuns) \X (1 .. MaxEvents)
    BY <1>1, TraceAssumption DEF TraceAssumption
  <2>. QED
    BY <2>1 DEF TraceInv, TraceTypeOK
<1>. QED
  BY <1>2, <1>3, <1>4, <1>5, <1>6, <1>7 DEF TraceFileIsWhole

LEMMA TraceInvKept ==
  ASSUME TraceInv, [StartupNext]_startupVars
  PROVE  TraceInv'
<1>. USE TraceAssumption DEF TraceAssumption
<1>1. CASE Stays
  BY <1>1 DEF Stays, traceVars, TraceInv, TraceTypeOK, TraceFileIsWhole, NoPieceYet
<1>2. CASE Opens
  BY <1>2 DEF Opens, Create, TraceInv, TraceTypeOK, TraceFileIsWhole, NoPieceYet
<1>3. CASE Records
  <2>1. sink = "open" /\ seq < MaxEvents /\ run' = run /\ seq' = seq + 1
    BY <1>3 DEF Records, RecordOk, RecordFails
  <2>4. ~Fresh /\ ~Fresh'
    BY <1>3, <2>1 DEF Records, TraceInv
  <2>5. seq \in Nat /\ run \in 1 .. MaxRuns /\ seq' \in 0 .. MaxEvents
    BY <2>1 DEF TraceInv, TraceTypeOK
  <2>2. CASE RecordOk
    <3>1. Write(TRUE) /\ accepted' = accepted \cup {<<run, seq + 1>>} /\ sink' = sink
      BY <2>2 DEF RecordOk
    <3>2. /\ TraceFileIsWhole' /\ file' \in Seq(Piece)
          /\ accepted' \subseteq (1 .. MaxRuns) \X (1 .. MaxEvents)
          /\ \A i \in DOMAIN file' : file'[i].run <= run
          /\ file' # <<>> /\ file'[Len(file')] = [run |-> run, seq |-> seq + 1, whole |-> TRUE]
      BY <2>1, <3>1, AppendedIsWhole
    <3>. QED
      BY <2>1, <2>4, <2>5, <3>1, <3>2 DEF TraceInv, TraceTypeOK
  <2>3. CASE RecordFails
    <3>1. accepted' = accepted /\ sink' = "failed"
      BY <2>3 DEF RecordFails
    <3>2. CASE UNCHANGED file
      BY <2>1, <2>4, <2>5, <3>1, <3>2 DEF TraceInv, TraceTypeOK, TraceFileIsWhole
    <3>3. CASE Write(FALSE)
      <4>1. /\ TraceFileIsWhole' /\ file' \in Seq(Piece)
            /\ \A i \in DOMAIN file' : file'[i].run <= run
        <5>1. FALSE \in BOOLEAN /\ accepted' = accepted \cup {}
          BY <3>1
        <5>. QED
          BY <2>1, <3>3, <5>1, AppendedIsWhole
      <4>. QED
        BY <2>1, <2>4, <2>5, <3>1, <4>1 DEF TraceInv, TraceTypeOK
    <3>. QED
      BY <2>3, <3>2, <3>3 DEF RecordFails
  <2>. QED
    BY <1>3, <2>2, <2>3 DEF Records
<1>4. CASE Dies
  <2>1. run' = run /\ seq' = 0 /\ sink' = "none" /\ accepted' = accepted /\ ~Fresh'
    BY <1>4 DEF Dies, Die
  <2>2. CASE UNCHANGED file
    BY <2>1, <2>2 DEF TraceInv, TraceTypeOK, TraceFileIsWhole
  <2>3. CASE sink = "open" /\ seq < MaxEvents /\ Write(FALSE)
    <3>1. /\ TraceFileIsWhole' /\ file' \in Seq(Piece)
          /\ \A i \in DOMAIN file' : file'[i].run <= run
      <4>1. FALSE \in BOOLEAN /\ accepted' = accepted \cup {}
        BY <2>1
      <4>. QED
        BY <2>1, <2>3, <4>1, AppendedIsWhole
    <3>. QED
      BY <2>1, <3>1 DEF TraceInv, TraceTypeOK
  <2>. QED
    BY <1>4, <2>2, <2>3 DEF Dies, Die
<1>5. CASE Begins
  <2>1. run \in 1 .. MaxRuns /\ run' \in 1 .. MaxRuns /\ run' = run + 1
    BY <1>5 DEF Begins, TraceInv, TraceTypeOK
  <2>2. file \in Seq(Piece) /\ \A i \in DOMAIN file : file[i].run \in Nat /\ file[i].run <= run
    <3>1. file \in Seq(Piece) /\ \A i \in DOMAIN file : file[i] \in Piece
      BY DEF TraceInv, TraceTypeOK
    <3>. QED
      BY <3>1 DEF TraceInv, Piece
  <2>3. \A i \in DOMAIN file : file[i].run <= run' /\ file[i].run < run'
    BY <2>1, <2>2
  <2>4. NoPieceYet'
    BY <1>5, <2>2, <2>3 DEF Begins, NoPieceYet
  <2>. QED
    BY <1>5, <2>1, <2>3, <2>4 DEF Begins, TraceInv, TraceTypeOK, TraceFileIsWhole
<1>. QED
  BY <1>1, <1>2, <1>3, <1>4, <1>5, WhichMove

\* Whatever record has reported as written can be read back, and nobody has to wonder which
\* lines are missing: a run's lines are numbered, and only the last can be cut off.
THEOREM TraceStaysWhole == StartupSpec => []TraceFileIsWhole
<1>1. StartupInit => TraceInv
  BY TraceAssumption DEF StartupInit, TraceInit, TraceInv, TraceTypeOK, TraceFileIsWhole, NoPieceYet, TraceAssumption
<1>2. TraceInv /\ [StartupNext]_startupVars => TraceInv'
  BY TraceInvKept
<1>3. TraceInv => TraceFileIsWhole
  BY DEF TraceInv
<1>. QED
  BY <1>1, <1>2, <1>3, PTL DEF StartupSpec

-----------------------------------------------------------------------------
(* All or nothing *)

Early == {"resolve", "compile", "validate"}
Before == Early \cup {"build", "unbuild", "connect", "list", "merge", "announce"}
Serves == {"list", "merge", "announce", "serving"}
Stages == Before \cup {"serving", "shutdown", "farewell", "over"}

\* What a connection can be, by how far the process is.
Allowed ==
  IF stage \in Early THEN {"none"}
  ELSE IF stage = "build" THEN {"none", "built"}
  ELSE IF stage = "unbuild" THEN {"none", "built", "closed"}
  ELSE IF stage = "connect" THEN Actor \cup {"connecting", "closing", "closed"}
  ELSE IF stage \in Serves THEN Actor \cup {"closed"}
  ELSE IF stage = "shutdown" THEN Actor \cup {"closed", "aborted"}
  ELSE {"none", "closed", "aborted"}

\* No name is listed twice, wherever.
Apart(lists) ==
  \A u, v \in Upstreams : \A i \in DOMAIN lists[u], j \in DOMAIN lists[v] :
    lists[u][i] = lists[v][j] => u = v /\ i = j

StageInv ==
  /\ args \in Line /\ stage \in Stages
  /\ gate = "off" => args.unenforced /\ ~(args.config /\ config.grants)
  /\ outcome = "refused" => stage \in {"shutdown", "over"}

ConnInv == conn = [u \in Upstreams |-> conn[u]] /\ \A u \in Upstreams : conn[u] \in Allowed

ListInv ==
  /\ drain = [u \in Upstreams |-> drain[u]]
  /\ stage \in {"merge", "announce", "serving"} => \A u \in Upstreams : drain[u].state = "done"
  /\ stage \in {"announce", "serving"} =>
       table = [u \in Upstreams |-> drain[u].tools] /\ Apart(table)

\* Nothing of this run is in the file before its first event, which comes after all that
\* can refuse a session; and a session that is served and traced has it there.
FileInv ==
  /\ stage \in Before \/ outcome = "refused" => OfRun(run) = {}
  /\ stage \in Before => seq = 0 /\ sink # "failed"
  /\ stage \in Before \ {"resolve", "compile"} /\ args.trace => sink = "open"
  /\ stage = "serving" /\ args.trace => [run |-> run, seq |-> 1, whole |-> TRUE] \in OfRun(run)

StartInv == TraceInv /\ StageInv /\ ConnInv /\ ListInv /\ FileInv

-----------------------------------------------------------------------------
(* The steps, by what they do to the stage *)

\* An upstream, its connection and its list.
UpstreamStep(u) == Connecting(u) \/ Listing(u) \/ ActorStep(u) \/ Speaks(u) \/ Ends(u)

LEMMA NamesAreApart ==
  None \notin {"on", "off", "refused", "unrecorded", "ended", "killed"}
  BY StartupAssumption DEF StartupAssumption

LEMMA GivenIsALine ==
  ASSUME NEW r \in 1 .. MaxRuns, NEW i \in Invocations[r]
  PROVE  i[1] \in Line
  BY StartupAssumption DEF StartupAssumption

LEMMA UpstreamStepKeeps ==
  ASSUME NEW u \in Upstreams, UpstreamStep(u)
  PROVE  UNCHANGED <<args, config, stage, gate, outcome, table>> /\ UNCHANGED traceVars
<1>1. CASE Connecting(u)
  BY <1>1 DEF Connecting, Connected, ConnectFails, ConnectClosed, processVars
<1>2. CASE Listing(u)
  BY <1>2 DEF Listing, PageArrives, ListFails, processVars
<1>3. CASE ActorStep(u)
  BY <1>3 DEF ActorStep, Unstuck, Reports, Closes, ActorStops, processVars
<1>4. CASE Speaks(u) \/ Ends(u)
  BY <1>4 DEF Speaks, Ends, processVars
<1>. QED
  BY <1>1, <1>2, <1>3, <1>4 DEF UpstreamStep

LEMMA StageKept ==
  ASSUME StageInv, ListInv, TraceInv, [StartupNext]_startupVars
  PROVE  StageInv'
<1>. USE NamesAreApart DEF StageInv, Stages, Before, Early
<1>1. CASE UNCHANGED startupVars
  BY <1>1 DEF startupVars, processVars
<1>2. CASE Resolve
  BY <1>2 DEF Resolve, At, Go, Refuse
<1>3. CASE Compile
  BY <1>3 DEF Compile, At, Refuse
<1>4. CASE Validate
  BY <1>4 DEF Validate, At, Go, Refuse
<1>5. CASE Build
  BY <1>5 DEF Build, At, Go, processVars
<1>6. CASE Unbuild
  BY <1>6 DEF Unbuild, At, Refuse, processVars
<1>7. CASE ConnectsJoined
  BY <1>7 DEF ConnectsJoined, Fail, At, Go
<1>8. CASE ListsJoined
  BY <1>8 DEF ListsJoined, Fail, At, Go
<1>9. CASE Merge
  BY <1>9 DEF Merge, Fail, At, Go
<1>10. CASE Announce
  BY <1>10 DEF Announce, EndSession, At, Go
<1>11. CASE Abort
  BY <1>11 DEF Abort, processVars
<1>12. CASE ShutDown
  BY <1>12 DEF ShutDown, At, Go
<1>13. CASE Farewell
  BY <1>13 DEF Farewell, At, Go
<1>14. CASE Serve
  BY <1>14 DEF Serve, processVars
<1>15. CASE SessionEnds
  BY <1>15 DEF SessionEnds, EndSession
<1>16. CASE Killed
  BY <1>16 DEF Killed
<1>17. CASE Restart
  <2>1. run + 1 \in 1 .. MaxRuns
    BY <1>17, TraceAssumption DEF Restart, TraceInv, TraceTypeOK, TraceAssumption
  <2>2. args' \in Line
    BY <1>17, <2>1, GivenIsALine DEF Restart
  <2>. QED
    BY <1>17, <2>2 DEF Restart
<1>18. ASSUME NEW u \in Upstreams, UpstreamStep(u)
       PROVE  StageInv'
  BY <1>18, UpstreamStepKeeps
<1>. QED
  BY <1>1, <1>2, <1>3, <1>4, <1>5, <1>6, <1>7, <1>8, <1>9, <1>10, <1>11, <1>12, <1>13, <1>14, <1>15,
     <1>16, <1>17, <1>18 DEF StartupNext, Prepare, Router, UpstreamStep

-----------------------------------------------------------------------------
(* Connections *)

\* Every connection that changes does so to what the next stage allows.
LEMMA ConnKept ==
  ASSUME StageInv, ConnInv, [StartupNext]_startupVars
  PROVE  ConnInv'
<1>. USE DEF ConnInv, StageInv, Stages, Before, Early, Serves, Actor
<1>0. \A new : conn' = [conn EXCEPT ![new[1]] = new[2]] => conn' = [u \in Upstreams |-> conn'[u]]
  OBVIOUS
<1>1. CASE UNCHANGED startupVars
  BY <1>1 DEF startupVars, processVars, upstreamVars, Upstreams, Specs, Allowed
<1>2. CASE Resolve \/ Compile \/ Validate
  <2>1. UNCHANGED <<conn, config>> /\ stage \in Early /\ stage' \in Early \cup {"build", "over"}
    BY <1>2 DEF Resolve, Compile, Validate, At, Go, Refuse, upstreamVars
  <2>. QED
    BY <2>1 DEF Upstreams, Specs, Allowed
<1>3. CASE Build
  <2>. DEFINE left == {u \in Upstreams : conn[u] = "none"}
  <2>1. stage = "build" /\ \A u \in Upstreams : conn[u] \in {"none", "built"}
    BY <1>3 DEF Build, At, Allowed
  <2>2. config' = config
    BY <1>3 DEF Build, Go, processVars
  <2>3. CASE conn' = [u \in Upstreams |-> "connecting"] /\ stage' = "connect"
    BY <2>2, <2>3 DEF Upstreams, Specs, Allowed
  <2>4. CASE conn' = [conn EXCEPT ![Min(left)] = "built"] /\ stage' = stage
    BY <2>1, <2>2, <2>4 DEF Upstreams, Specs, Allowed
  <2>5. CASE stage' = "unbuild" /\ UNCHANGED conn
    BY <2>1, <2>2, <2>5 DEF Upstreams, Specs, Allowed
  <2>. QED
    BY <1>3, <2>3, <2>4, <2>5 DEF Build, At, Go, processVars
<1>4. CASE Unbuild
  <2>. DEFINE left == {u \in Upstreams : conn[u] = "built"}
  <2>1. stage = "unbuild" /\ config' = config /\ \A u \in Upstreams : conn[u] \in {"none", "built", "closed"}
    BY <1>4 DEF Unbuild, At, Refuse, processVars, Allowed
  <2>2. CASE left = {} /\ stage' = "over" /\ UNCHANGED conn
    BY <2>1, <2>2 DEF Upstreams, Specs, Allowed
  <2>3. CASE conn' = [conn EXCEPT ![Min(left)] = "closed"] /\ stage' = stage
    BY <2>1, <2>3 DEF Upstreams, Specs, Allowed
  <2>. QED
    BY <1>4, <2>2, <2>3 DEF Unbuild, Refuse, processVars
<1>5. CASE ConnectsJoined
  <2>1. /\ stage = "connect" /\ stage' \in {"shutdown", "list"} /\ UNCHANGED <<conn, config>>
        /\ \A u \in Upstreams : conn[u] \notin {"connecting", "closing"}
    BY <1>5 DEF ConnectsJoined, At, Go, Fail
  <2>. QED
    BY <2>1 DEF Upstreams, Specs, Allowed
<1>6. CASE ListsJoined \/ Merge \/ Announce
  <2>1. stage \in Serves /\ stage' \in Serves \cup {"shutdown"} /\ UNCHANGED <<conn, config>>
    BY <1>6 DEF ListsJoined, Merge, Announce, At, Go, Fail, EndSession, upstreamVars
  <2>. QED
    BY <2>1 DEF Upstreams, Specs, Allowed
<1>7. CASE Abort
  <2>1. PICK u \in Upstreams : conn' = [conn EXCEPT ![u] = "aborted"]
    BY <1>7 DEF Abort
  <2>2. stage = "shutdown" /\ UNCHANGED <<stage, config>>
    BY <1>7 DEF Abort, At, processVars
  <2>. QED
    BY <2>1, <2>2 DEF Upstreams, Specs, Allowed
<1>8. CASE ShutDown
  <2>1. /\ stage = "shutdown" /\ stage' \in {"farewell", "over"} /\ UNCHANGED <<conn, config>>
        /\ \A u \in Upstreams : conn[u] \notin Actor
    BY <1>8 DEF ShutDown, At, Go, upstreamVars
  <2>. QED
    BY <2>1 DEF Upstreams, Specs, Allowed
<1>9. CASE Farewell
  <2>1. stage = "farewell" /\ stage' = "over" /\ UNCHANGED <<conn, config>>
    BY <1>9 DEF Farewell, At, Go, upstreamVars
  <2>. QED
    BY <2>1 DEF Upstreams, Specs, Allowed
<1>10. CASE Serve
  <2>1. UNCHANGED <<stage, conn, config>>
    BY <1>10 DEF Serve, processVars, upstreamVars
  <2>. QED
    BY <2>1 DEF Upstreams, Specs, Allowed
<1>11. CASE SessionEnds
  <2>1. stage = "serving" /\ stage' = "shutdown" /\ UNCHANGED <<conn, config>>
    BY <1>11 DEF SessionEnds, At, EndSession
  <2>. QED
    BY <2>1 DEF Upstreams, Specs, Allowed
<1>12. CASE Killed
  BY <1>12 DEF Killed, Upstreams, Specs, Allowed
<1>13. CASE Restart
  <2>1. stage' = "resolve" /\ conn' = [u \in DOMAIN config'.specs |-> "none"]
    BY <1>13 DEF Restart
  <2>. QED
    BY <2>1 DEF Upstreams, Specs, Allowed
<1>14. ASSUME NEW u \in Upstreams, UpstreamStep(u)
       PROVE  ConnInv'
  <2>1. UNCHANGED <<config, stage>>
    BY <1>14, UpstreamStepKeeps
  <2>2. CASE UNCHANGED conn
    BY <2>1, <2>2 DEF Upstreams, Specs, Allowed
  <2>3. ASSUME NEW new, conn' = [conn EXCEPT ![u] = new],
               \/ stage = "connect" /\ new \in Actor \cup {"closing", "closed"}
               \/ conn[u] \in Actor /\ new \in Actor \cup {"closed"}
        PROVE  ConnInv'
    <3>1. new \in Allowed
      BY <2>3 DEF Allowed
    <3>. QED
      BY <2>1, <2>3, <3>1 DEF Upstreams, Specs, Allowed
  <2>4. CASE Connecting(u)
    <3>1. conn[u] = "closing" => stage = "connect"
      BY DEF Allowed
    <3>. QED
      BY <2>3, <2>4, <3>1 DEF Connecting, Connected, ConnectFails, ConnectClosed, At
  <2>5. CASE Listing(u)
    BY <2>2, <2>5 DEF Listing, PageArrives, ListFails
  <2>6. CASE ActorStep(u)
    BY <2>3, <2>6 DEF ActorStep, Unstuck, Reports, Closes, ActorStops
  <2>7. CASE Speaks(u) \/ Ends(u)
    BY <2>3, <2>7 DEF Speaks, Ends
  <2>. QED
    BY <1>14, <2>4, <2>5, <2>6, <2>7 DEF UpstreamStep
<1>. QED
  BY <1>1, <1>2, <1>3, <1>4, <1>5, <1>6, <1>7, <1>8, <1>9, <1>10, <1>11, <1>12, <1>13, <1>14
     DEF StartupNext, Prepare, Router, UpstreamStep

-----------------------------------------------------------------------------
(* Lists *)

LEMMA ListKept ==
  ASSUME ListInv, [StartupNext]_startupVars
  PROVE  ListInv'
<1>. USE DEF ListInv
<1>0. ASSUME UNCHANGED <<config, drain, table>>, stage' \in {"merge", "announce", "serving"} => stage' = stage
      PROVE  ListInv'
  BY <1>0 DEF Upstreams, Specs, Apart
<1>1. CASE UNCHANGED startupVars
  BY <1>0, <1>1 DEF startupVars, processVars, upstreamVars
<1>2. CASE Prepare
  <2>1. stage' \notin {"merge", "announce", "serving"} \/ stage' = stage
    BY <1>2 DEF Prepare, Resolve, Compile, Validate, Build, Unbuild, Go, Refuse, processVars
  <2>2. UNCHANGED <<config, drain, table>>
    BY <1>2 DEF Prepare, Resolve, Compile, Validate, Build, Unbuild, Go, Refuse, processVars, upstreamVars
  <2>. QED
    BY <1>0, <2>1, <2>2
<1>3. ASSUME stage' \in {"shutdown", "over"}, Forget, config' = config
      PROVE  ListInv'
  BY <1>3 DEF Forget, Upstreams, Specs
<1>4. CASE ConnectsJoined
  <2>1. CASE Fail
    BY <1>3, <2>1 DEF Fail
  <2>2. CASE /\ stage' = "list" /\ config' = config
             /\ drain' = [u \in Upstreams |->
                  [drain[u] EXCEPT !.state = IF @ = "undeclared" THEN "done" ELSE "asked"]]
    BY <2>2 DEF Upstreams, Specs
  <2>. QED
    BY <1>4, <2>1, <2>2 DEF ConnectsJoined, Go
<1>5. CASE ListsJoined
  <2>1. CASE Fail
    BY <1>3, <2>1 DEF Fail
  <2>2. CASE stage' = "merge" /\ UNCHANGED <<config, drain>> /\ \A u \in Upstreams : drain[u].state = "done"
    BY <2>2 DEF Upstreams, Specs
  <2>. QED
    BY <1>5, <2>1, <2>2 DEF ListsJoined, Go
<1>6. CASE Merge
  <2>1. CASE Fail
    BY <1>3, <2>1 DEF Fail
  <2>2. CASE /\ \A u, v \in Upstreams : \A i \in DOMAIN drain[u].tools, j \in DOMAIN drain[v].tools :
                  drain[u].tools[i] = drain[v].tools[j] => u = v /\ i = j
             /\ table' = [u \in Upstreams |-> drain[u].tools]
             /\ stage = "merge" /\ stage' = "announce" /\ UNCHANGED <<config, drain>>
    <3>1. Upstreams' = Upstreams
      BY <2>2 DEF Upstreams, Specs
    <3>2. Apart(table)'
      BY <2>2, <3>1 DEF Apart
    <3>. QED
      BY <2>2, <3>1, <3>2
  <2>. QED
    BY <1>6, <2>1, <2>2 DEF Merge, At, Go
<1>7. CASE Announce
  <2>1. CASE Go("serving") /\ stage = "announce" /\ UNCHANGED upstreamVars
    <3>1. UNCHANGED <<config, drain, table>> /\ stage' = "serving"
      BY <2>1 DEF Go, upstreamVars
    <3>2. Upstreams' = Upstreams
      BY <3>1 DEF Upstreams, Specs
    <3>3. Apart(table)'
      BY <2>1, <3>1, <3>2 DEF Apart
    <3>. QED
      BY <2>1, <3>1, <3>2, <3>3
  <2>2. CASE EndSession("unrecorded")
    BY <1>3, <2>2 DEF EndSession
  <2>. QED
    BY <1>7, <2>1, <2>2 DEF Announce, At
<1>8. CASE Abort \/ ShutDown \/ Farewell \/ Serve
  BY <1>0, <1>8 DEF Abort, ShutDown, Farewell, Serve, Go, processVars, upstreamVars
<1>9. CASE SessionEnds
  BY <1>3, <1>9 DEF SessionEnds, EndSession
<1>10. CASE Killed
  BY <1>3, <1>10 DEF Killed
<1>11. CASE Restart
  <2>1. stage' = "resolve" /\ drain' = [u \in DOMAIN config'.specs |-> Idle]
    BY <1>11 DEF Restart
  <2>. QED
    BY <2>1 DEF Upstreams, Specs
<1>12. ASSUME NEW u \in Upstreams, UpstreamStep(u)
       PROVE  ListInv'
  <2>1. UNCHANGED <<config, stage, table>>
    BY <1>12, UpstreamStepKeeps
  <2>2. ASSUME NEW new, drain' = [drain EXCEPT ![u] = new], stage \notin {"merge", "announce", "serving"}
        PROVE  ListInv'
    BY <2>1, <2>2 DEF Upstreams, Specs
  <2>3. CASE UNCHANGED drain
    BY <1>0, <2>1, <2>3
  <2>4. CASE Connecting(u)
    <3>1. ASSUME NEW declared, drain' = [drain EXCEPT ![u].state = declared]
          PROVE  drain' = [drain EXCEPT ![u] = [drain[u] EXCEPT !.state = declared]]
      BY <3>1
    <3>. QED
      BY <2>2, <2>3, <2>4, <3>1 DEF Connecting, Connected, ConnectFails, ConnectClosed, At
  <2>5. CASE Listing(u)
    <3>1. ASSUME NEW page, NEW next, drain' = [drain EXCEPT ![u] = Drained(@, page, next)]
          PROVE  drain' = [drain EXCEPT ![u] = Drained(drain[u], page, next)]
      BY <3>1
    <3>2. \E new : drain' = [drain EXCEPT ![u] = new]
      BY <2>5, <3>1 DEF Listing, PageArrives, ListFails
    <3>3. stage = "list"
      BY <2>5 DEF Listing, PageArrives, ListFails, At
    <3>. QED
      BY <2>2, <3>2, <3>3
  <2>6. CASE ActorStep(u) \/ Speaks(u)
    BY <2>3, <2>6 DEF ActorStep, Unstuck, Reports, Closes, ActorStops, Speaks
  <2>7. CASE Ends(u)
    <3>1. drain' = [drain EXCEPT ![u] = IF drain[u].state = "asked" THEN Failed ELSE drain[u]]
      BY <2>7 DEF Ends
    <3>2. CASE stage \in {"merge", "announce", "serving"}
      <4>1. drain' = drain
        BY <3>1, <3>2
      <4>. QED
        BY <2>3, <4>1
    <3>. QED
      BY <2>2, <3>1, <3>2
  <2>. QED
    BY <1>12, <2>4, <2>5, <2>6, <2>7 DEF UpstreamStep
<1>. QED
  BY <1>1, <1>2, <1>4, <1>5, <1>6, <1>7, <1>8, <1>9, <1>10, <1>11, <1>12
     DEF StartupNext, Router, UpstreamStep

-----------------------------------------------------------------------------
(* The file *)

LEMMA WriteKeeps ==
  ASSUME TraceTypeOK, NEW whole \in BOOLEAN, Write(whole), run' = run
  PROVE  OfRun(run) \subseteq OfRun(run)' /\ [run |-> run, seq |-> seq + 1, whole |-> whole] \in OfRun(run)'
<1>. DEFINE piece == [run |-> run, seq |-> seq + 1, whole |-> whole]
<1>1. DOMAIN file = 1 .. Len(file) /\ Len(file) \in Nat
  BY DEF TraceTypeOK
<1>2. /\ DOMAIN file' = 1 .. Len(file) + 1 /\ file'[Len(file) + 1] = piece
      /\ \A i \in DOMAIN file : file'[i] = file[i]
  BY DEF Write, TraceTypeOK
<1>3. piece.run = run
  OBVIOUS
<1>. HIDE DEF piece
<1>4. \A i \in DOMAIN file : i \in DOMAIN file'
  BY <1>1, <1>2
<1>5. OfRun(run) \subseteq OfRun(run)'
  BY <1>2, <1>4 DEF OfRun
<1>6. piece \in OfRun(run)'
  <2>1. Len(file) + 1 \in DOMAIN file'
    BY <1>1, <1>2
  <2>. QED
    BY <1>2, <1>3, <2>1 DEF OfRun
<1>. QED
  BY <1>5, <1>6 DEF piece

\* An early refusal, an open file and the first event, in this order.
LEMMA FileKept ==
  ASSUME TraceInv, StageInv, FileInv, [StartupNext]_startupVars
  PROVE  FileInv'
<1>. USE NamesAreApart DEF FileInv, StageInv, Stages, Before, Early
<1>0. TraceTypeOK
  BY DEF TraceInv
<1>1. ASSUME UNCHANGED traceVars, UNCHANGED args,
             stage' \in Before => stage \in Before,
             stage' \in Before \ {"resolve", "compile"} =>
               stage \notin {"resolve", "compile"} \/ ~args.trace,
             stage' = "serving" => stage = "serving" \/ (stage = "announce" /\ ~args.trace),
             outcome' = "refused" => outcome = "refused" \/ stage \in Before
      PROVE  FileInv'
  BY <1>1 DEF traceVars, OfRun
<1>2. CASE UNCHANGED startupVars
  BY <1>1, <1>2 DEF startupVars, processVars
<1>3. CASE Resolve
  <2>1. stage = "resolve" /\ (stage' = "validate" => args.unenforced) /\ UNCHANGED traceVars /\ UNCHANGED args
        /\ stage' \in {"compile", "validate", "over"}
    BY <1>3 DEF Resolve, At, Go, Refuse
  <2>2. args.unenforced => ~args.trace
    BY DEF Line
  <2>. QED
    BY <1>1, <2>1, <2>2
<1>4. CASE Compile
  <2>1. stage = "compile" /\ UNCHANGED args
    BY <1>4 DEF Compile, At, Refuse
  <2>2. CASE Refuse /\ UNCHANGED traceVars
    BY <1>1, <2>1, <2>2 DEF Refuse
  <2>3. CASE stage' = "validate" /\ UNCHANGED outcome /\ (args.trace => Create) /\ (~args.trace => UNCHANGED traceVars)
    <3>1. CASE args.trace
      BY <2>1, <2>3, <3>1 DEF Create, OfRun
    <3>2. CASE ~args.trace
      BY <1>1, <2>1, <2>3, <3>2
    <3>. QED
      BY <3>1, <3>2
  <2>. QED
    BY <1>4, <2>2, <2>3 DEF Compile
<1>5. CASE Validate \/ Build \/ Unbuild
  <2>1. /\ stage \in Before \ {"resolve", "compile"} /\ UNCHANGED traceVars /\ UNCHANGED args
        /\ stage' \in {stage, "build", "connect", "unbuild", "over"}
    BY <1>5 DEF Validate, Build, Unbuild, At, Go, Refuse, processVars
  <2>. QED
    BY <1>1, <2>1
<1>6. CASE ConnectsJoined \/ ListsJoined \/ Merge
  <2>1. /\ stage \in Before \ {"resolve", "compile"} /\ UNCHANGED traceVars /\ UNCHANGED args
        /\ stage' \in {"list", "merge", "announce", "shutdown"}
    BY <1>6 DEF ConnectsJoined, ListsJoined, Merge, At, Go, Fail
  <2>. QED
    BY <1>1, <2>1
<1>7. CASE Announce
  <2>1. stage = "announce" /\ UNCHANGED args
    BY <1>7 DEF Announce, At, Go, EndSession
  <2>2. CASE sink = "none" /\ UNCHANGED traceVars /\ Go("serving")
    BY <1>1, <2>1, <2>2 DEF Go
  <2>3. CASE RecordOk /\ Go("serving")
    <3>1. [run |-> run, seq |-> seq + 1, whole |-> TRUE] \in OfRun(run)'
      BY <1>0, <2>3, WriteKeeps DEF RecordOk
    <3>2. seq + 1 = 1 /\ run' = run
      BY <2>1, <2>3 DEF RecordOk
    <3>. QED
      BY <2>1, <2>3, <3>1, <3>2 DEF Go
  <2>4. CASE EndSession("unrecorded")
    BY <2>4 DEF EndSession
  <2>. QED
    BY <1>7, <2>2, <2>3, <2>4 DEF Announce
<1>8. CASE Abort \/ ShutDown
  <2>1. /\ UNCHANGED traceVars /\ UNCHANGED <<args, outcome>> /\ stage = "shutdown"
        /\ stage' \in {"shutdown", "farewell", "over"}
    BY <1>8 DEF Abort, ShutDown, At, Go, processVars
  <2>. QED
    BY <1>1, <2>1
<1>9. CASE Farewell
  <2>1. stage = "farewell" /\ stage' = "over" /\ UNCHANGED outcome
    BY <1>9 DEF Farewell, At, Go
  <2>. QED
    BY <2>1
<1>10. CASE Serve
  <2>1. stage = "serving" /\ UNCHANGED <<args, stage, outcome>>
    BY <1>10 DEF Serve, At, processVars
  <2>2. CASE UNCHANGED traceVars
    BY <1>1, <2>1, <2>2
  <2>3. CASE RecordOk
    <3>1. OfRun(run) \subseteq OfRun(run)' /\ run' = run
      BY <1>0, <2>3, WriteKeeps DEF RecordOk
    <3>. QED
      BY <2>1, <3>1
  <2>. QED
    BY <1>10, <2>2, <2>3 DEF Serve
<1>11. CASE SessionEnds
  BY <1>11 DEF SessionEnds, EndSession
<1>12. CASE Killed
  BY <1>12 DEF Killed
<1>13. CASE Restart
  <2>1. run \in Nat /\ \A i \in DOMAIN file : file[i].run <= run /\ file[i].run \in Nat
    <3>1. \A i \in DOMAIN file : file[i] \in Piece
      BY <1>0 DEF TraceTypeOK
    <3>. QED
      BY <1>0, <3>1 DEF TraceInv, TraceTypeOK, Piece
  <2>2. run' = run + 1 /\ UNCHANGED file
    BY <1>13 DEF Restart
  <2>3. OfRun(run)' = {}
    BY <2>1, <2>2 DEF OfRun
  <2>. QED
    BY <1>13, <2>3 DEF Restart
<1>14. ASSUME NEW u \in Upstreams, UpstreamStep(u)
       PROVE  FileInv'
  <2>1. UNCHANGED <<args, stage, outcome>> /\ UNCHANGED traceVars
    BY <1>14, UpstreamStepKeeps
  <2>. QED
    BY <1>1, <2>1
<1>. QED
  BY <1>2, <1>3, <1>4, <1>5, <1>6, <1>7, <1>8, <1>9, <1>10, <1>11, <1>12, <1>13, <1>14
     DEF StartupNext, Prepare, Router, UpstreamStep

\* A session is served with all of its upstreams and the policy on record, or there is none and
\* nothing is left of it (run of router.rs, Startup's ways out in main.rs).
THEOREM AllOrNothingHolds == StartupSpec => []AllOrNothing
<1>1. StartupInit => StartInv
  <2>1. SUFFICES ASSUME StartupInit PROVE StartInv
    OBVIOUS
  <2>2. TraceInv
    BY <2>1, TraceAssumption DEF StartupInit, TraceInit, TraceInv, TraceTypeOK, TraceFileIsWhole, NoPieceYet, TraceAssumption
  <2>3. args \in Line
    BY <2>1, TraceAssumption, GivenIsALine DEF StartupInit, TraceAssumption
  <2>4. StageInv /\ ConnInv /\ ListInv
    BY <2>1, <2>3, NamesAreApart DEF StartupInit, StageInv, Stages, Before, Early, ConnInv, Allowed, ListInv
  <2>5. FileInv
    BY <2>1, NamesAreApart DEF StartupInit, TraceInit, FileInv, OfRun, Before, Early
  <2>. QED
    BY <2>2, <2>4, <2>5 DEF StartInv
<1>2. StartInv /\ [StartupNext]_startupVars => StartInv'
  BY TraceInvKept, StageKept, ConnKept, ListKept, FileKept DEF StartInv
<1>3. ASSUME StartInv PROVE AllOrNothing
  <2>1. stage = "serving" =>
          /\ \A u \in Upstreams : conn[u] \in Actor \cup {"closed"} /\ drain[u].state = "done"
          /\ \A u, v \in Upstreams : \A i \in DOMAIN table[u], j \in DOMAIN table[v] :
               table[u][i] = table[v][j] => u = v /\ i = j
          /\ \A u \in Upstreams : table[u] = drain[u].tools
    BY <1>3 DEF StartInv, ConnInv, ListInv, Allowed, Early, Serves, Apart
  <2>2. stage = "over" => \A u \in Upstreams : conn[u] \in {"none", "closed", "aborted"}
    BY <1>3 DEF StartInv, ConnInv, Allowed, Early, Serves
  <2>. QED
    BY <1>3, <2>1, <2>2 DEF StartInv, StageInv, FileInv, AllOrNothing
<1>. QED
  BY <1>1, <1>2, <1>3, PTL DEF StartupSpec

=============================================================================
