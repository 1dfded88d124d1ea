-------------------------------- MODULE Engine --------------------------------
(***************************************************************************)
(* The runtime engine (flavium-policy): every grant becomes a Cedar permit *)
(* whose id is its index, a call and the time become a request context,    *)
(* and Cedar's answer is mapped back to a decision.                        *)
(*                                                                         *)
(* Of Cedar, what this relies on: && stops at the first conjunct that is   *)
(* not true, reading an attribute that is not there is an error, a policy  *)
(* whose condition is an error is skipped and reported, a request is       *)
(* allowed when some permit's condition is true, and the determining       *)
(* policies come in no order.                                              *)
(***************************************************************************)
EXTENDS Grants, Sequences

-----------------------------------------------------------------------------
(* The compiler *)

Has(map, arg) == [op |-> "has", map |-> map, arg |-> arg]
Like(arg, end, text) == [op |-> "like", arg |-> arg, end |-> end, text |-> text]
InSet(arg, set) == [op |-> "contains", arg |-> arg, set |-> set]
AtLeast(arg, n) == [op |-> ">=", arg |-> arg, n |-> n]
AtMost(arg, n) == [op |-> "<=", arg |-> arg, n |-> n]
NotPresent(arg) == [op |-> "absent", arg |-> arg]
LiveAt(expires) == [op |-> "live", n |-> expires]

IfSome(bound, test) == IF bound = None THEN <<>> ELSE <<test>>

\* Every reading of a value stands behind the question whether it is there.
ConstraintExpr(arg, c) ==
  CASE c.kind = "Prefix" -> <<Has("str", arg), Like(arg, "front", c.text)>>
    [] c.kind = "Suffix" -> <<Has("str", arg), Like(arg, "back", c.text)>>
    [] c.kind = "OneOf" -> <<Has("str", arg), InSet(arg, c.set)>>
    [] c.kind = "Range" -> <<Has("int", arg)>> \o IfSome(c.min, AtLeast(arg, c.min))
                                              \o IfSome(c.max, AtMost(arg, c.max))
    [] c.kind = "Absent" -> <<NotPresent(arg)>>

Constrained(grant) == {arg \in Arg : grant.constraints[arg] # None}

\* What the when clause joins with &&, in an order that makes no difference.
Condition(grant) ==
  {ConstraintExpr(arg, grant.constraints[arg]) : arg \in Constrained(grant)}
    \cup (IF grant.expires = None THEN {} ELSE {<<LiveAt(grant.expires)>>})

\* compile: a permit per grant, with its index for an id, and never a forbid.
Compile(grants) ==
  {[id |-> i, resource |-> grants[i].tool, when |-> Condition(grants[i])] : i \in DOMAIN grants}

-----------------------------------------------------------------------------
(* A request *)

OfKind(args, kind) == {arg \in Arg : args[arg] # None /\ args[arg].kind = kind}

\* request_context: a value of another shape is present, and in neither map.
RequestContext(call, now) ==
  [str |-> [arg \in OfKind(call.args, "Str") |-> call.args[arg].str],
   int |-> [arg \in OfKind(call.args, "Int") |-> call.args[arg].int],
   present |-> {arg \in Arg : call.args[arg] # None},
   now |-> now]

\* A conjunct reads an attribute that is not there.
Missing(test, context) ==
  \/ test.op \in {"like", "contains"} /\ test.arg \notin DOMAIN context.str
  \/ test.op \in {">=", "<="} /\ test.arg \notin DOMAIN context.int

Holds(test, context) ==
  CASE test.op = "has" -> test.arg \in DOMAIN context[test.map]
    [] test.op = "absent" -> test.arg \notin context.present
    [] test.op = "live" -> context.now < test.n
    [] test.op = "contains" -> context.str[test.arg] \in test.set
    [] test.op = "like" -> IF test.end = "front" THEN StartsWith(context.str[test.arg], test.text)
                           ELSE EndsWith(context.str[test.arg], test.text)
    [] test.op = ">=" -> context.int[test.arg] >= test.n
    [] test.op = "<=" -> context.int[test.arg] <= test.n

\* Where && stops: the first test that is not true decides.
Result(tests, context) ==
  LET stops == {i \in DOMAIN tests : Missing(tests[i], context) \/ ~Holds(tests[i], context)}
  IN IF stops = {} THEN "true"
     ELSE IF Missing(tests[FirstIndex(stops)], context) THEN "error"
     ELSE "false"

\* The order of the conjuncts is left open here: an error counts even where a false one
\* could have come first.
Evaluate(conjuncts, context) ==
  IF \A tests \in conjuncts : Result(tests, context) = "true" THEN "true"
  ELSE IF \E tests \in conjuncts : Result(tests, context) = "error" THEN "error"
  ELSE "false"

IsAuthorized(policies, tool, context) ==
  LET result(p) == Evaluate(p.when, context)
      asked == {p \in policies : p.resource = tool}
  IN [errors |-> {p.id : p \in {q \in asked : result(q) = "error"}},
      reason |-> {p.id : p \in {q \in asked : result(q) = "true"}}]

-----------------------------------------------------------------------------
(* The answer *)

\* classify: an error is never a reason to allow, whatever was decided beside it.
ClassifyResponse(response) ==
  IF response.errors # {} THEN Deny("EvaluationError")
  ELSE IF response.reason = {} THEN Deny("OutOfEnvelope")
  ELSE Allow(FirstIndex(response.reason))

\* CedarAuthorizer::authorize: who asks and whether the tool is granted is answered from
\* the envelope; Cedar is asked about a tool that is live.
CedarAuthorize(envelope, policies, principal, call, now) ==
  LET status == ToolStatus(envelope.grants, call.tool, now)
  IN IF principal # envelope.principal THEN Deny("NotGranted")
     ELSE IF status # "Live" THEN Deny(status)
     ELSE ClassifyResponse(IsAuthorized(policies, call.tool, RequestContext(call, now)))

=============================================================================
