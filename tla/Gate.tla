--------------------------------- MODULE Gate ---------------------------------
(***************************************************************************)
(* The grant gate from end to end: a config file is loaded and compiled,   *)
(* and then calls as they are on the wire are read, normalized, decided    *)
(* by the engine, recorded, and forwarded byte for byte or not at all.     *)
(* Routing, ids and queues around it are Router's.                         *)
(*                                                                         *)
(* The file means something to the operator who wrote it, and a call       *)
(* something to the upstream that reads the same bytes with a reader, a    *)
(* working directory and a file system of its own.  The properties say     *)
(* that the gate decides on the one by the other, and that its trace can   *)
(* tell so afterwards.                                                     *)
(***************************************************************************)
EXTENDS GrantFile, CallParams, Engine, TraceLine

LOCAL INSTANCE SequencesExt

CONSTANTS
  Files,  \* config files
  Calls,  \* per file, calls as [params, now]
  Cwd     \* per flavor, directories an upstream may be in

VARIABLES
  file,       \* which of Files the process is given
  stage,      \* "start", "refused", "serving", or "answered", when call is the last one
  envelope,   \* Enforcement: the envelope, and what it was compiled to
  policies,
  started,    \* the first line of the trace
  call,       \* the call in hand
  line,       \* the line it left in the trace
  forwarded   \* what the upstream was sent

\* The members of an object are numbered, and an integer among them is one.
Members(object) ==
  /\ DOMAIN object \subseteq Nat
  /\ \A i \in DOMAIN object : object[i].value.kind = "integer" => object[i].value.int \in Int

ASSUME GateAssumption ==
  /\ \A f \in DOMAIN Files : \A i \in DOMAIN Files[f].grant : \A arg \in Arg :
       LET spec == Files[f].grant[i].args[arg]
       IN spec # None /\ spec.range # None => {spec.range.min, spec.range.max} \subseteq Optional(Int)
  /\ \A f \in DOMAIN Files : \A c \in Calls[f] :
       c.params # None =>
         /\ Members(c.params)
         /\ \A i \in At(c.params, "arguments") :
              c.params[i].value.kind = "object" => Members(c.params[i].value.members)

vars == <<file, stage, envelope, policies, started, call, line, forwarded>>

Init ==
  /\ file \in DOMAIN Files /\ stage = "start"
  /\ envelope = None /\ policies = None /\ started = None
  /\ call = None /\ line = None /\ forwarded = None

Start ==
  /\ stage = "start"
  /\ IF Loads(Files[file]) /\ Files[file].grant # <<>>
       THEN /\ stage' = "serving"
            /\ envelope' = EnvelopeOf(Files[file])
            /\ policies' = Compile(envelope'.grants)
            /\ started' = SessionStarted(envelope')
       ELSE stage' = "refused" /\ UNCHANGED <<envelope, policies, started>>
  /\ UNCHANGED <<file, call, line, forwarded>>

\* Session::evaluated_call on one argument: a path is normalized, and one that holds a
\* NUL becomes the value nothing admits.
Evaluated(flavor, value) ==
  IF flavor = None \/ value = None \/ value.kind # "Str" THEN value
  ELSE IF \E i \in DOMAIN value.str : value.str[i] = Nul THEN [kind |-> "Other"]
  ELSE [kind |-> "Str", str |-> Normalize(value.str, flavor)]

EvaluatedCall(parsed) ==
  [tool |-> parsed.tool,
   args |-> [arg \in Arg |-> Evaluated(PathFlavors(Files[file], parsed.tool, arg), parsed.args[arg])]]

\* The arguments that were changed, as they were spelled.
AsSent(parsed) ==
  [arg \in {a \in Arg : EvaluatedCall(parsed).args[a] # parsed.args[a]} |-> parsed.args[arg].str]

\* on_tools_call and decide_call: one reading of the clock for the decision and its line.
Ask(c) ==
  /\ stage' = "answered" /\ call' = c
  /\ LET parsed == Parse(c.params)
         evaluated == EvaluatedCall(parsed)
         decision == CedarAuthorize(envelope, policies, envelope.principal, evaluated, c.now)
     IN IF parsed.ok
          THEN /\ line' = CallDecided(envelope.principal, evaluated, AsSent(parsed), c.now, decision)
               /\ forwarded' = IF decision.verdict = "Allow" THEN c.params ELSE None
          ELSE /\ line' = CallRefused(envelope.principal, parsed.tool, "malformed_params")
               /\ forwarded' = None
  /\ UNCHANGED <<file, envelope, policies, started>>

Proceed ==
  /\ stage = "answered" /\ stage' = "serving"
  /\ call' = None /\ line' = None /\ forwarded' = None
  /\ UNCHANGED <<file, envelope, policies, started>>

Answer == stage = "serving" /\ \E c \in Calls[file] : Ask(c)

Next == Start \/ Answer \/ Proceed

GateSpec == Init /\ [][Next]_vars

-----------------------------------------------------------------------------
(* What a file and a call mean *)

LeapYear(y) == y % 4 = 0 /\ (y % 100 # 0 \/ y % 400 = 0)

DaysIn(y, m) == IF m = 2 THEN IF LeapYear(y) THEN 29 ELSE 28
                ELSE IF m \in {4, 6, 9, 11} THEN 30 ELSE 31

\* The days before a date, counted from the beginning of 1970 in whole years and months.
DaysBefore(y, m, d) ==
  365 * (y - 1970) + Cardinality({k \in 1970 .. y - 1 : LeapYear(k)})
    + Cardinality({date \in (1 .. m - 1) \X (1 .. 31) : date[2] <= DaysIn(y, date[1])}) + d - 1

\* Where the expiry was written the clock shows an earlier time.
NotYet(expires, now) ==
  now + expires.offset * 60
    < DaysBefore(expires.date[1], expires.date[2], expires.date[3]) * 86400
        + expires.time[1] * 3600 + expires.time[2] * 60 + expires.time[3]

\* The path a reader opens who stops at a NUL, and one who does not.
Readings(path) ==
  {path} \cup {SubSeq(path, 1, i - 1) : i \in {j \in DOMAIN path : path[j] = Nul}}

\* Wherever the upstream is, the path is Within the prefix: Under it, or UnderAsTaken.
Leads(path, prefix, flavor, Within(_, _, _, _)) ==
  \A reading \in Readings(path), cwd \in Cwd[flavor] : Within(reading, prefix, cwd, flavor)

\* A constraint as it is written, on a JSON value that may be None.
Meets(spec, json, Within(_, _, _, _)) ==
  IF json = None THEN spec.absent # None
  ELSE \/ /\ json.kind = "string"
          /\ \/ spec.prefix # None /\ StartsWith(json.str, spec.prefix)
             \/ spec.path_prefix # None /\ Leads(json.str, spec.path_prefix, "Posix", Within)
             \/ /\ spec.windows_path_prefix # None
                /\ Leads(json.str, spec.windows_path_prefix, "Windows", Within)
             \/ spec.suffix # None /\ EndsWith(json.str, spec.suffix)
             \/ spec.one_of # None /\ json.str \in spec.one_of
       \/ json.kind = "integer" /\ spec.range # None /\ WithinBounds(json.int, spec.range.min, spec.range.max)

\* What a reader sees who takes the first, or the last, of two members with one key.
Seen(object, key, Pick(_)) == IF At(object, key) = {} THEN None ELSE object[Pick(At(object, key))].value

ArgumentSeen(params, arg, Pick(_)) ==
  LET arguments == Seen(params, "arguments", Pick)
  IN IF arguments = None THEN None
     ELSE IF arguments.kind = "object" THEN Seen(arguments.members, arg, Pick)
     ELSE None

Granted(entry, c, Pick(_), Within(_, _, _, _)) ==
  /\ Seen(c.params, "name", Pick).str = entry.tool
  /\ entry.expires # None => NotYet(entry.expires, c.now)
  /\ \A arg \in Arg :
       entry.args[arg] # None => Meets(entry.args[arg], ArgumentSeen(c.params, arg, Pick), Within)

GrantedBySome(Pick(_), Within(_, _, _, _)) ==
  \E i \in DOMAIN Files[file].grant : Granted(Files[file].grant[i], call, Pick, Within)

\* No path in the call has another spelling that is shorter.
PlainlySpelled ==
  LET parsed == Parse(call.params) IN DOMAIN AsSent(parsed) = {}

-----------------------------------------------------------------------------
(* Properties *)

\* A call reaches the upstream only if some entry of the file, as its author wrote it,
\* grants what the upstream makes of those bytes: whichever of two members with one key
\* its reader takes, whether it stops at a NUL, wherever it resolves a path from.  And a
\* call that some entry grants does reach it, if its paths are spelled plainly.  The code:
\* parse_call_params, evaluated_call, normalize, the loader and the engine.
\*
\* Three spellings are taken for what UnderAsTaken says and not for what they mean: a prefix
\* that ends in `/.` or `/x/..` (see NormalizationNeverWidens), and on Windows `./C:/x` and
\* a prefix `c` or `c:`.
AdmitsWhatTheFileGrants ==
  stage = "answered" =>
    /\ forwarded # None => GrantedBySome(FirstIndex, UnderAsTaken) /\ GrantedBySome(LastIndex, UnderAsTaken)
    /\ Parse(call.params).ok /\ PlainlySpelled /\ GrantedBySome(FirstIndex, Under) => forwarded # None

\* "Normalization must never widen what an operator wrote" (normalize.rs), nor a grant's
\* path prefix come out broader than its author wrote it: the same without exceptions.  Not
\* so: normalize_prefix restores a separator only where the prefix ends in one, so that
\* `/a/.` becomes `/a`, which admits `/ab`.
NormalizationNeverWidens ==
  stage = "answered" /\ forwarded # None => GrantedBySome(FirstIndex, Under)

\* Someone who has the trace alone can decide again: the reference decision on the
\* recorded grants, call and time is the recorded one, unless a value was cut off, and
\* what was forwarded is what the line says was allowed.  And the line tells what was asked for.
TraceReplays ==
  (stage = "answered" /\ line.event = "call_decided") =>
    /\ Legible(started, line) =>
         Decide(ReadGrants(started), ReadCall(line), line.now) = line.decision
    /\ (forwarded # None) = (line.decision.verdict = "Allow")
    /\ Legible(started, line) /\ LegibleAsked(line) => ReadAsked(line) = Parse(call.params).args

=============================================================================
