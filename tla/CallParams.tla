----------------------------- MODULE CallParams -----------------------------
(***************************************************************************)
(* The params of a tools/call as they are on the wire, and how args.rs     *)
(* reads them.                                                             *)
(*                                                                         *)
(* An object is the sequence of its members, for a key may be there twice: *)
(* JSON readers differ in which of them they take, and the upstream has a  *)
(* reader of its own.  A value is a string, a number that an i64 holds     *)
(* exactly, an object, null, or something else.                            *)
(***************************************************************************)
EXTENDS Grants, FiniteSets

At(object, key) == {i \in DOMAIN object : object[i].key = key}

LastIndex(S) == CHOOSE i \in S : \A j \in S : j <= i

Repeats(object) == \E i, j \in DOMAIN object : i # j /\ object[i].key = object[j].key

\* classify: only the two shapes a constraint can speak about are kept apart.
Classify(json) ==
  CASE json.kind = "string" -> [kind |-> "Str", str |-> json.str]
    [] json.kind = "integer" -> [kind |-> "Int", int |-> json.int]
    [] OTHER -> [kind |-> "Other"]

NoArguments == [arg \in Arg |-> None]

\* insert keeps the last of members with one key; Parse then refuses the call.
ArgumentsRead(object) ==
  [arg \in Arg |-> IF At(object, arg) = {} THEN None ELSE Classify(object[LastIndex(At(object, arg))].value)]

Malformed(tool) == [ok |-> FALSE, tool |-> tool]

\* The walk over the params keeps the tool's name for the trace when there is just one.
NameRead(params) ==
  LET names == At(params, "name")
  IN IF Cardinality(names) # 1 THEN None
     ELSE LET json == params[FirstIndex(names)].value IN IF json.kind = "string" THEN json.str ELSE None

\* A key that is there twice, in the params or in the arguments.
Ambiguous(params) ==
  \/ Repeats(params)
  \/ \E i \in At(params, "arguments") :
       params[i].value.kind = "object" /\ Repeats(params[i].value.members)

\* parse_call_params; None stands for no params, or params that are no object.
Parse(params) ==
  IF params = None THEN Malformed(None)
  ELSE LET name == NameRead(params)
           arguments == At(params, "arguments")
       IN IF \/ Ambiguous(params)
             \/ \E i \in At(params, "name") : params[i].value.kind # "string"
             \/ \E i \in arguments : params[i].value.kind \notin {"object", "null"}
            THEN Malformed(name)
          ELSE IF name = None THEN Malformed(None)
          ELSE [ok |-> TRUE, tool |-> name,
                args |-> IF \E i \in arguments : params[i].value.kind = "object"
                           THEN ArgumentsRead(params[FirstIndex(arguments)].value.members)
                           ELSE NoArguments]

=============================================================================
