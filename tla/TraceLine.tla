------------------------------ MODULE TraceLine ------------------------------
(***************************************************************************)
(* The lines of the trace that tell why a call was decided as it was       *)
(* (flavium-cli's trace.rs), and what can be read back from them.          *)
(***************************************************************************)
EXTENDS Grants

CONSTANT ValueCap  \* VALUE_CAP, the longest string recorded whole

ASSUME CapAssumption == ValueCap \in Nat

\* Mutant: a string one byte too long is cut as if it were whole.
CappedLate(s) ==
  [whole |-> Len(s) <= ValueCap + 1,
   text |-> IF Len(s) <= ValueCap THEN s ELSE SubSeq(s, 1, ValueCap),
   bytes |-> Len(s)]

\* write_capped: a longer string leaves its beginning and its length.
Capped(s) ==
  [whole |-> Len(s) <= ValueCap,
   text |-> IF Len(s) <= ValueCap THEN s ELSE SubSeq(s, 1, ValueCap),
   bytes |-> Len(s)]

WriteConstraint(c) ==
  CASE c.kind \in {"Prefix", "Suffix"} -> [kind |-> c.kind, value |-> Capped(c.text)]
    [] c.kind = "OneOf" -> [kind |-> c.kind, values |-> {Capped(s) : s \in c.set}]
    [] OTHER -> c

\* The names a map holds: a JSON object has no member for the others.
Present(map) == {arg \in Arg : map[arg] # None}

WriteEnvelope(envelope) ==
  [principal |-> envelope.principal,
   grants |-> [i \in DOMAIN envelope.grants |->
     [tool |-> envelope.grants[i].tool, expires |-> envelope.grants[i].expires,
      args |-> [arg \in Present(envelope.grants[i].constraints) |->
                  WriteConstraint(envelope.grants[i].constraints[arg])]]]]

WriteValue(v) == IF v.kind = "Str" THEN [kind |-> "Str", value |-> Capped(v.str)] ELSE v

WriteCall(call) ==
  [tool |-> Capped(call.tool),
   args |-> [arg \in Present(call.args) |-> WriteValue(call.args[arg])]]

\* The arguments normalization changed, as they were sent.
WriteAsSent(asSent) == [arg \in DOMAIN asSent |-> Capped(asSent[arg])]

SessionStarted(envelope) == [event |-> "session_started", envelope |-> WriteEnvelope(envelope)]

CallRefused(principal, tool, reason) ==
  [event |-> "call_refused", principal |-> principal,
   tool |-> IF tool = None THEN None ELSE Capped(tool), reason |-> reason]

CallDecided(principal, call, asSent, now, decision) ==
  [event |-> "call_decided", principal |-> principal, now |-> now, call |-> WriteCall(call),
   args_as_sent |-> WriteAsSent(asSent), decision |-> decision]

-----------------------------------------------------------------------------
(* Reading it back, for the properties *)

WholeConstraint(c) ==
  CASE c.kind \in {"Prefix", "Suffix"} -> c.value.whole
    [] c.kind = "OneOf" -> \A v \in c.values : v.whole
    [] OTHER -> TRUE

WholeValue(v) == v.kind = "Str" => v.value.whole

\* Nothing that was decided on was cut off.
Legible(started, decided) ==
  /\ \A i \in DOMAIN started.envelope.grants :
       \A arg \in DOMAIN started.envelope.grants[i].args :
         WholeConstraint(started.envelope.grants[i].args[arg])
  /\ decided.call.tool.whole
  /\ \A arg \in DOMAIN decided.call.args : WholeValue(decided.call.args[arg])

ReadConstraint(c) ==
  CASE c.kind \in {"Prefix", "Suffix"} -> [kind |-> c.kind, text |-> c.value.text]
    [] c.kind = "OneOf" -> [kind |-> c.kind, set |-> {v.text : v \in c.values}]
    [] OTHER -> c

ReadValue(v) == IF v.kind = "Str" THEN [kind |-> "Str", str |-> v.value.text] ELSE v

\* What an object holds is in the map, and None stands for the rest.
ReadMap(object, Read(_)) ==
  [arg \in Arg |-> IF arg \in DOMAIN object THEN Read(object[arg]) ELSE None]

ReadGrants(started) ==
  [i \in DOMAIN started.envelope.grants |->
    LET g == started.envelope.grants[i]
    IN [tool |-> g.tool, constraints |-> ReadMap(g.args, ReadConstraint), expires |-> g.expires]]

ReadCall(decided) ==
  [tool |-> decided.call.tool.text, args |-> ReadMap(decided.call.args, ReadValue)]

\* What the caller asked for: the spelling sent where there is one, else the evaluated value.
ReadAsked(decided) ==
  [arg \in Arg |-> IF arg \in DOMAIN decided.args_as_sent
                     THEN [kind |-> "Str", str |-> decided.args_as_sent[arg].text]
                   ELSE ReadMap(decided.call.args, ReadValue)[arg]]

LegibleAsked(decided) == \A arg \in DOMAIN decided.args_as_sent : decided.args_as_sent[arg].whole

=============================================================================
