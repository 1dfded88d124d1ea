------------------------------ MODULE GateProofs ------------------------------
(***************************************************************************)
(* P1 of flavium-policy/src/lib.rs: the engine answers what the reference  *)
(* decision answers, for every set of grants, call and time.  And, on top  *)
(* of it, that the trace of a gate is enough to decide its calls again.    *)
(***************************************************************************)
EXTENDS Authority, DelegationProofs, TLAPS

-----------------------------------------------------------------------------
(* What constraints and values are made of, whatever strings are *)

ConstraintForm(c) ==
  \/ c = [kind |-> "Prefix", text |-> c.text]
  \/ c = [kind |-> "Suffix", text |-> c.text]
  \/ c = [kind |-> "OneOf", set |-> c.set]
  \/ c = [kind |-> "Range", min |-> c.min, max |-> c.max] /\ {c.min, c.max} \subseteq Optional(Int)
  \/ c = [kind |-> "Absent"]

ValueForm(v) ==
  \/ v = [kind |-> "Str", str |-> v.str]
  \/ v = [kind |-> "Int", int |-> v.int] /\ v.int \in Int
  \/ v = [kind |-> "Other"]

GrantsForm(grants) ==
  \A i \in DOMAIN grants : \A arg \in Arg :
    grants[i].constraints[arg] # None => ConstraintForm(grants[i].constraints[arg])

ArgsForm(args) == \A arg \in Arg : args[arg] # None => ValueForm(args[arg])

LEMMA FormsOfSets ==
  /\ \A c \in Constraint : ConstraintForm(c)
  /\ \A v \in ArgValue : ValueForm(v)
  /\ \A grants \in GrantSet : GrantsForm(grants)
  /\ \A toolCall \in ToolCall : ArgsForm(toolCall.args)
<1>1. ASSUME NEW c \in Constraint PROVE ConstraintForm(c)
  BY DEF Constraint, ConstraintForm
<1>2. ASSUME NEW v \in ArgValue PROVE ValueForm(v)
  BY DEF ArgValue, ValueForm
<1>3. ASSUME NEW grants \in GrantSet PROVE GrantsForm(grants)
  <2>1. \A i \in DOMAIN grants : grants[i] \in Grant
    BY DEF GrantSet
  <2>. QED
    BY <1>1, <2>1 DEF Grant, Optional, GrantsForm
<1>4. ASSUME NEW toolCall \in ToolCall PROVE ArgsForm(toolCall.args)
  BY <1>2 DEF ToolCall, Optional, ArgsForm
<1>. QED
  BY <1>1, <1>2, <1>3, <1>4

-----------------------------------------------------------------------------
(* Conjuncts *)

LEMMA FirstIndexIsLeast ==
  ASSUME NEW S \in SUBSET Int, NEW k \in S, \A j \in S : k <= j
  PROVE  FirstIndex(S) = k
<1>1. FirstIndex(S) \in S /\ \A j \in S : FirstIndex(S) <= j
  BY DEF FirstIndex
<1>2. FirstIndex(S) \in Int /\ k \in Int
  BY <1>1
<1>3. FirstIndex(S) <= k /\ k <= FirstIndex(S)
  BY <1>1
<1>. QED
  BY <1>2, <1>3

\* A small set of indices has a least.
LEMMA LeastOfThree ==
  ASSUME NEW S \in SUBSET (1 .. 3), S # {}
  PROVE  \E k \in S : \A j \in S : k <= j
<1>1. CASE 1 \in S
  BY <1>1
<1>2. CASE 1 \notin S /\ 2 \in S
  BY <1>2
<1>3. CASE 1 \notin S /\ 2 \notin S
  <2>1. \A j \in S : j = 3
    BY <1>3
  <2>2. 3 \in S
    BY <2>1
  <2>3. \A j \in S : 3 <= j
    BY <2>1
  <2>. QED
    BY <2>2, <2>3
<1>. QED
  BY <1>1, <1>2, <1>3

\* A conjunct whose first test guards the others is true or false, and never an error.
LEMMA GuardedResult ==
  ASSUME NEW n \in 1 .. 3, NEW tests, DOMAIN tests = 1 .. n, NEW context,
         ~Missing(tests[1], context),
         Holds(tests[1], context) => \A i \in 1 .. n : ~Missing(tests[i], context)
  PROVE  Result(tests, context) =
           IF \A i \in 1 .. n : Holds(tests[i], context) THEN "true" ELSE "false"
<1>. DEFINE stops == {i \in DOMAIN tests : Missing(tests[i], context) \/ ~Holds(tests[i], context)}
<1>1. Result(tests, context) = IF stops = {} THEN "true"
                               ELSE IF Missing(tests[FirstIndex(stops)], context) THEN "error"
                               ELSE "false"
  BY DEF Result
<1>2. CASE ~Holds(tests[1], context)
  <2>1. 1 \in stops /\ stops \in SUBSET Int /\ \A j \in stops : 1 <= j
    BY <1>2
  <2>2. FirstIndex(stops) = 1
    BY <2>1, FirstIndexIsLeast
  <2>. QED
    BY <1>1, <1>2, <2>1, <2>2
<1>3. CASE Holds(tests[1], context)
  <2>1. \A i \in 1 .. n : i \in stops <=> ~Holds(tests[i], context)
    BY <1>3
  <2>2. CASE stops = {}
    BY <1>1, <2>1, <2>2
  <2>3. CASE stops # {}
    <3>1. stops \subseteq 1 .. n /\ stops \subseteq 1 .. 3
      OBVIOUS
    <3>. HIDE DEF stops
    <3>2. PICK k \in stops : \A j \in stops : k <= j
      BY <2>3, <3>1, LeastOfThree
    <3>3. FirstIndex(stops) = k
      BY <3>1, <3>2, FirstIndexIsLeast
    <3>4. k \in 1 .. n /\ ~Holds(tests[k], context)
      BY <2>1, <3>1
    <3>. QED
      BY <1>1, <1>3, <2>3, <3>3, <3>4
  <2>. QED
    BY <2>2, <2>3
<1>. QED
  BY <1>2, <1>3

\* What the tests read of a request: a string stands in str, an integer in int, and any
\* argument in present.
LEMMA ContextOfCall ==
  ASSUME NEW toolCall, NEW now, NEW arg \in Arg
  PROVE  LET context == RequestContext(toolCall, now)
             v == toolCall.args[arg]
         IN /\ arg \in DOMAIN context.str <=> v # None /\ v.kind = "Str"
            /\ arg \in DOMAIN context.int <=> v # None /\ v.kind = "Int"
            /\ arg \in DOMAIN context.str => context.str[arg] = v.str
            /\ arg \in DOMAIN context.int => context.int[arg] = v.int
            /\ arg \in context.present <=> v # None
            /\ context.now = now
  BY DEF RequestContext, OfKind

\* A conjunct on a string.
LEMMA StringTests ==
  ASSUME NEW context, NEW arg, NEW test, test.op \in {"like", "contains"}, test.arg = arg,
         NEW map, map = context.str
  PROVE  Result(<<Has("str", arg), test>>, context) =
           IF arg \in DOMAIN map /\ Holds(test, context) THEN "true" ELSE "false"
<1>. DEFINE tests == <<Has("str", arg), test>>
<1>1. DOMAIN tests = 1 .. 2 /\ tests[1] = Has("str", arg) /\ tests[2] = test
  OBVIOUS
<1>2. ~Missing(tests[1], context) /\ (Holds(tests[1], context) <=> arg \in DOMAIN map)
  BY <1>1 DEF Missing, Holds, Has
<1>3. Missing(tests[2], context) <=> arg \notin DOMAIN map
  BY <1>1 DEF Missing
<1>. HIDE DEF tests
<1>4. Holds(tests[1], context) => \A i \in 1 .. 2 : ~Missing(tests[i], context)
  BY <1>2, <1>3
<1>5. Result(tests, context) =
        IF \A i \in 1 .. 2 : Holds(tests[i], context) THEN "true" ELSE "false"
  BY <1>1, <1>2, <1>4, GuardedResult
<1>6. (\A i \in 1 .. 2 : Holds(tests[i], context)) <=> Holds(tests[1], context) /\ Holds(tests[2], context)
  OBVIOUS
<1>7. Result(tests, context) = IF arg \in DOMAIN map /\ Holds(test, context) THEN "true" ELSE "false"
  BY <1>1, <1>2, <1>5, <1>6
<1>. QED
  BY <1>7 DEF tests

\* A conjunct on an integer, with a bound or two.
LEMMA RangeTests ==
  ASSUME NEW context, NEW arg, NEW min \in Optional(Int), NEW max \in Optional(Int),
         arg \in DOMAIN context.int => context.int[arg] \in Int
  PROVE  Result(<<Has("int", arg)>> \o IfSome(min, AtLeast(arg, min)) \o IfSome(max, AtMost(arg, max)), context) =
           IF arg \in DOMAIN context.int /\ WithinBounds(context.int[arg], min, max) THEN "true" ELSE "false"
<1>. DEFINE n == 1 + (IF min = None THEN 0 ELSE 1) + (IF max = None THEN 0 ELSE 1)
            tests == <<Has("int", arg)>> \o IfSome(min, AtLeast(arg, min)) \o IfSome(max, AtMost(arg, max))
            given == arg \in DOMAIN context.int
<1>1. ~Missing(Has("int", arg), context) /\ (Holds(Has("int", arg), context) <=> given)
  BY DEF Missing, Holds, Has
<1>2. /\ Missing(AtLeast(arg, min), context) <=> ~given
      /\ Holds(AtLeast(arg, min), context) <=> context.int[arg] >= min
  BY DEF Missing, Holds, AtLeast
<1>3. /\ Missing(AtMost(arg, max), context) <=> ~given
      /\ Holds(AtMost(arg, max), context) <=> context.int[arg] <= max
  BY DEF Missing, Holds, AtMost
<1>4. n \in 1 .. 3
  OBVIOUS
<1>5. DOMAIN tests = 1 .. n /\ tests[1] = Has("int", arg)
  BY DEF IfSome
<1>6. \A i \in 2 .. n : \/ min # None /\ tests[i] = AtLeast(arg, min)
                        \/ max # None /\ tests[i] = AtMost(arg, max)
  BY DEF IfSome
<1>7. /\ min # None => 2 \in 1 .. n /\ tests[2] = AtLeast(arg, min)
      /\ max # None => n \in 1 .. n /\ tests[n] = AtMost(arg, max)
  BY DEF IfSome
<1>. HIDE DEF n, tests
<1>8. Holds(tests[1], context) => \A i \in 1 .. n : ~Missing(tests[i], context)
  BY <1>1, <1>2, <1>3, <1>4, <1>5, <1>6
<1>9. Result(tests, context) =
        IF \A i \in 1 .. n : Holds(tests[i], context) THEN "true" ELSE "false"
  BY <1>1, <1>4, <1>5, <1>8, GuardedResult
<1>10. (\A i \in 1 .. n : Holds(tests[i], context)) <=> given /\ WithinBounds(context.int[arg], min, max)
  <2>1. ASSUME \A i \in 1 .. n : Holds(tests[i], context)
        PROVE  given /\ WithinBounds(context.int[arg], min, max)
    BY <1>1, <1>2, <1>3, <1>4, <1>5, <1>7, <2>1 DEF WithinBounds
  <2>2. ASSUME given, WithinBounds(context.int[arg], min, max), NEW i \in 1 .. n
        PROVE  Holds(tests[i], context)
    BY <1>1, <1>2, <1>3, <1>4, <1>5, <1>6, <2>2 DEF WithinBounds
  <2>. QED
    BY <2>1, <2>2
<1>. HIDE DEF given
<1>11. Result(tests, context) =
         IF given /\ WithinBounds(context.int[arg], min, max) THEN "true" ELSE "false"
  BY <1>9, <1>10
<1>. QED
  BY <1>11 DEF tests, given

-----------------------------------------------------------------------------
(* From a constraint to the decision *)

\* The comment on constraint_expr: each expression is true or false of every possible
\* context, never an error; and it is true of what the constraint admits.
THEOREM ConjunctIsConstraint ==
  ASSUME NEW arg \in Arg, NEW c, ConstraintForm(c), NEW toolCall, ArgsForm(toolCall.args), NEW now
  PROVE  Result(ConstraintExpr(arg, c), RequestContext(toolCall, now)) =
           IF Admits(c, toolCall.args[arg]) THEN "true" ELSE "false"
<1>. DEFINE context == RequestContext(toolCall, now)
            v == toolCall.args[arg]
<1>1. /\ arg \in DOMAIN context.str <=> v # None /\ v.kind = "Str"
      /\ arg \in DOMAIN context.int <=> v # None /\ v.kind = "Int"
      /\ arg \in DOMAIN context.str => context.str[arg] = v.str
      /\ arg \in DOMAIN context.int => context.int[arg] = v.int
      /\ arg \in context.present <=> v # None
  BY ContextOfCall
<1>2. v # None => ValueForm(v)
  BY DEF ArgsForm
<1>3. v # None /\ v.kind = "Int" => v.int \in Int
  BY <1>2 DEF ValueForm
<1>. HIDE DEF context, v
<1>4. CASE c.kind = "Prefix"
  <2>. DEFINE test == Like(arg, "front", c.text)
  <2>1. ConstraintExpr(arg, c) = <<Has("str", arg), test>>
    BY <1>4 DEF ConstraintExpr
  <2>2. test.op = "like" /\ test.arg = arg
    BY DEF Like
  <2>3. Holds(test, context) <=> StartsWith(context.str[arg], c.text)
    BY DEF Holds, Like
  <2>4. Admits(c, v) <=> v # None /\ v.kind = "Str" /\ StartsWith(v.str, c.text)
    BY <1>4 DEF Admits
  <2>. HIDE DEF test
  <2>5. Result(<<Has("str", arg), test>>, context) =
          IF arg \in DOMAIN context.str /\ Holds(test, context) THEN "true" ELSE "false"
    BY <2>2, StringTests
  <2>. QED
    BY <1>1, <2>1, <2>3, <2>4, <2>5 DEF context, v
<1>5. CASE c.kind = "Suffix"
  <2>. DEFINE test == Like(arg, "back", c.text)
  <2>1. ConstraintExpr(arg, c) = <<Has("str", arg), test>>
    BY <1>5 DEF ConstraintExpr
  <2>2. test.op = "like" /\ test.arg = arg
    BY DEF Like
  <2>3. Holds(test, context) <=> EndsWith(context.str[arg], c.text)
    BY DEF Holds, Like
  <2>4. Admits(c, v) <=> v # None /\ v.kind = "Str" /\ EndsWith(v.str, c.text)
    BY <1>5 DEF Admits
  <2>. HIDE DEF test
  <2>5. Result(<<Has("str", arg), test>>, context) =
          IF arg \in DOMAIN context.str /\ Holds(test, context) THEN "true" ELSE "false"
    BY <2>2, StringTests
  <2>. QED
    BY <1>1, <2>1, <2>3, <2>4, <2>5 DEF context, v
<1>6. CASE c.kind = "OneOf"
  <2>. DEFINE test == InSet(arg, c.set)
  <2>1. ConstraintExpr(arg, c) = <<Has("str", arg), test>>
    BY <1>6 DEF ConstraintExpr
  <2>2. test.op = "contains" /\ test.arg = arg
    BY DEF InSet
  <2>3. Holds(test, context) <=> context.str[arg] \in c.set
    BY DEF Holds, InSet
  <2>4. Admits(c, v) <=> v # None /\ v.kind = "Str" /\ v.str \in c.set
    BY <1>6 DEF Admits
  <2>. HIDE DEF test
  <2>5. Result(<<Has("str", arg), test>>, context) =
          IF arg \in DOMAIN context.str /\ Holds(test, context) THEN "true" ELSE "false"
    BY <2>2, StringTests
  <2>. QED
    BY <1>1, <2>1, <2>3, <2>4, <2>5 DEF context, v
<1>7. CASE c.kind = "Range"
  <2>1. c.min \in Optional(Int) /\ c.max \in Optional(Int)
    BY <1>7 DEF ConstraintForm
  <2>2. ConstraintExpr(arg, c) =
          <<Has("int", arg)>> \o IfSome(c.min, AtLeast(arg, c.min)) \o IfSome(c.max, AtMost(arg, c.max))
    BY <1>7 DEF ConstraintExpr
  <2>3. arg \in DOMAIN context.int => context.int[arg] \in Int
    BY <1>1, <1>3
  <2>4. Admits(c, v) <=> v # None /\ v.kind = "Int" /\ WithinBounds(v.int, c.min, c.max)
    BY <1>7 DEF Admits
  <2>5. Result(ConstraintExpr(arg, c), context) =
          IF arg \in DOMAIN context.int /\ WithinBounds(context.int[arg], c.min, c.max) THEN "true" ELSE "false"
    <3>1. \A min, max \in Optional(Int) :
            Result(<<Has("int", arg)>> \o IfSome(min, AtLeast(arg, min)) \o IfSome(max, AtMost(arg, max)), context) =
              IF arg \in DOMAIN context.int /\ WithinBounds(context.int[arg], min, max) THEN "true" ELSE "false"
      BY <2>3, RangeTests
    <3>. QED
      BY <2>1, <2>2, <3>1
  <2>. QED
    BY <1>1, <2>4, <2>5 DEF context, v
<1>8. CASE c.kind = "Absent"
  <2>. DEFINE tests == <<NotPresent(arg)>>
  <2>1. ConstraintExpr(arg, c) = tests
    BY <1>8 DEF ConstraintExpr
  <2>2. DOMAIN tests = 1 .. 1 /\ tests[1] = NotPresent(arg)
    OBVIOUS
  <2>3. ~Missing(tests[1], context) /\ (Holds(tests[1], context) <=> arg \notin context.present)
    BY <2>2 DEF Missing, Holds, NotPresent
  <2>4. Admits(c, v) <=> v = None
    BY <1>8 DEF Admits
  <2>. HIDE DEF tests
  <2>5. Result(tests, context) = IF \A i \in 1 .. 1 : Holds(tests[i], context) THEN "true" ELSE "false"
    BY <2>2, <2>3, GuardedResult
  <2>. QED
    BY <1>1, <2>1, <2>3, <2>4, <2>5 DEF context, v
<1>. QED
  BY <1>4, <1>5, <1>6, <1>7, <1>8 DEF ConstraintForm

\* A permit for the tool asked about is true when its grant is live and admits the
\* call, and never an error.
LEMMA ConditionIsGrant ==
  ASSUME NEW grant, \A arg \in Arg : grant.constraints[arg] # None => ConstraintForm(grant.constraints[arg]),
         NEW toolCall, ArgsForm(toolCall.args), NEW now, grant.tool = toolCall.tool
  PROVE  Evaluate(Condition(grant), RequestContext(toolCall, now)) =
           IF IsLive(grant, now) /\ GrantAdmits(grant, toolCall) THEN "true" ELSE "false"
<1>. DEFINE context == RequestContext(toolCall, now)
            constrained == {ConstraintExpr(arg, grant.constraints[arg]) : arg \in Constrained(grant)}
            expiry == <<LiveAt(grant.expires)>>
<1>1. \A arg \in Constrained(grant) :
        /\ arg \in Arg /\ grant.constraints[arg] # None /\ ConstraintForm(grant.constraints[arg])
        /\ Result(ConstraintExpr(arg, grant.constraints[arg]), context) =
             IF Admits(grant.constraints[arg], toolCall.args[arg]) THEN "true" ELSE "false"
  <2>1. \A arg \in Constrained(grant) :
          arg \in Arg /\ grant.constraints[arg] # None /\ ConstraintForm(grant.constraints[arg])
    BY DEF Constrained
  <2>. QED
    BY <2>1, ConjunctIsConstraint
<1>2. Result(expiry, context) = IF now < grant.expires THEN "true" ELSE "false"
  <2>1. DOMAIN expiry = 1 .. 1 /\ expiry[1] = LiveAt(grant.expires)
    OBVIOUS
  <2>2. context.now = now
    BY DEF RequestContext
  <2>. HIDE DEF context, expiry
  <2>3. ~Missing(expiry[1], context) /\ (Holds(expiry[1], context) <=> now < grant.expires)
    BY <2>1, <2>2 DEF Missing, Holds, LiveAt
  <2>4. Result(expiry, context) = IF \A i \in 1 .. 1 : Holds(expiry[i], context) THEN "true" ELSE "false"
    BY <2>1, <2>3, GuardedResult
  <2>. QED
    BY <2>3, <2>4
<1>3. Condition(grant) = constrained \cup (IF grant.expires = None THEN {} ELSE {expiry})
  BY DEF Condition
<1>. HIDE DEF context, expiry
<1>4. \A tests \in Condition(grant) : Result(tests, context) \in {"true", "false"}
  BY <1>1, <1>2, <1>3
<1>5. (\A tests \in Condition(grant) : Result(tests, context) = "true")
        <=> IsLive(grant, now) /\ GrantAdmits(grant, toolCall)
  <2>1. (\A tests \in constrained : Result(tests, context) = "true") <=> GrantAdmits(grant, toolCall)
    BY <1>1 DEF GrantAdmits, Constrained
  <2>2. (grant.expires # None => Result(expiry, context) = "true") <=> IsLive(grant, now)
    BY <1>2 DEF IsLive
  <2>. QED
    BY <1>3, <2>1, <2>2
<1>6. Evaluate(Condition(grant), context) =
        IF \A tests \in Condition(grant) : Result(tests, context) = "true" THEN "true" ELSE "false"
  BY <1>4 DEF Evaluate
<1>. QED
  BY <1>5, <1>6 DEF context

LEMMA EngineAgrees ==
  ASSUME NEW given, GrantsForm(given.grants), NEW principal,
         NEW toolCall, ArgsForm(toolCall.args), NEW now
  PROVE  CedarAuthorize(given, Compile(given.grants), principal, toolCall, now) =
           Authorize(given, principal, toolCall, now)
<1>. DEFINE grants == given.grants
            context == RequestContext(toolCall, now)
            response == IsAuthorized(Compile(grants), toolCall.tool, context)
            admitting == AdmittingGrants(grants, toolCall, now)
            result(p) == Evaluate(p.when, context)
            asked == {p \in Compile(grants) : p.resource = toolCall.tool}
<1>1. \A i \in DOMAIN grants : \A arg \in Arg :
        grants[i].constraints[arg] # None => ConstraintForm(grants[i].constraints[arg])
  BY DEF GrantsForm
<1>2. \A p \in asked :
        /\ p.id \in DOMAIN grants /\ grants[p.id].tool = toolCall.tool
        /\ result(p) = IF p.id \in admitting THEN "true" ELSE "false"
  <2>. TAKE p \in asked
  <2>1. PICK i \in DOMAIN grants :
          p = [id |-> i, resource |-> grants[i].tool, when |-> Condition(grants[i])]
    BY DEF Compile
  <2>2. p.id = i /\ p.when = Condition(grants[i]) /\ grants[i].tool = toolCall.tool
    BY <2>1
  <2>3. Evaluate(Condition(grants[i]), context) =
          IF IsLive(grants[i], now) /\ GrantAdmits(grants[i], toolCall) THEN "true" ELSE "false"
    BY <1>1, <2>2, ConditionIsGrant
  <2>. QED
    BY <2>2, <2>3 DEF AdmittingGrants
<1>3. \A i \in admitting : \E p \in asked : p.id = i
  <2>. TAKE i \in admitting
  <2>. DEFINE p == [id |-> i, resource |-> grants[i].tool, when |-> Condition(grants[i])]
  <2>1. i \in DOMAIN grants /\ grants[i].tool = toolCall.tool
    BY DEF AdmittingGrants, GrantAdmits
  <2>2. p \in Compile(grants) /\ p.resource = toolCall.tool /\ p.id = i
    BY <2>1 DEF Compile
  <2>. QED
    BY <2>2
<1>4. response.errors = {p.id : p \in {q \in asked : result(q) = "error"}}
      /\ response.reason = {p.id : p \in {q \in asked : result(q) = "true"}}
  BY DEF IsAuthorized
<1>. HIDE DEF asked, result, admitting, response
<1>5. response.errors = {} /\ response.reason = admitting
  BY <1>2, <1>3, <1>4
<1>6. ClassifyResponse(response) =
        IF admitting = {} THEN Deny("OutOfEnvelope") ELSE Allow(FirstIndex(admitting))
  BY <1>5 DEF ClassifyResponse
<1>. QED
  BY <1>6 DEF CedarAuthorize, Authorize, Decide, response, admitting

\* P1: a CedarAuthorizer answers whatever the reference Authorizer of the same envelope
\* answers: the same verdict, the same reason for a denial, the same grant for an Allow.
THEOREM P1 ==
  ASSUME NEW given, given.grants \in GrantSet, NEW principal,
         NEW toolCall \in ToolCall, NEW now \in Int
  PROVE  CedarAuthorize(given, Compile(given.grants), principal, toolCall, now) =
           Authorize(given, principal, toolCall, now)
<1>1. GrantsForm(given.grants) /\ ArgsForm(toolCall.args)
  BY FormsOfSets
<1>. QED
  BY <1>1, EngineAgrees

-----------------------------------------------------------------------------
(* What the trace keeps *)

LEMMA WholeText ==
  ASSUME NEW s, Capped(s).whole
  PROVE  Capped(s).text = s
BY DEF Capped

LEMMA ConstraintReadsBack ==
  ASSUME NEW c, ConstraintForm(c), WholeConstraint(WriteConstraint(c))
  PROVE  ReadConstraint(WriteConstraint(c)) = c
<1>1. CASE c = [kind |-> "Prefix", text |-> c.text]
  <2>1. WriteConstraint(c) = [kind |-> "Prefix", value |-> Capped(c.text)]
    BY <1>1 DEF WriteConstraint
  <2>2. Capped(c.text).whole
    BY <2>1 DEF WholeConstraint
  <2>3. Capped(c.text).text = c.text
    BY <2>2, WholeText
  <2>. QED
    BY <1>1, <2>1, <2>3 DEF ReadConstraint
<1>2. CASE c = [kind |-> "Suffix", text |-> c.text]
  <2>1. WriteConstraint(c) = [kind |-> "Suffix", value |-> Capped(c.text)]
    BY <1>2 DEF WriteConstraint
  <2>2. Capped(c.text).whole
    BY <2>1 DEF WholeConstraint
  <2>3. Capped(c.text).text = c.text
    BY <2>2, WholeText
  <2>. QED
    BY <1>2, <2>1, <2>3 DEF ReadConstraint
<1>3. CASE c = [kind |-> "OneOf", set |-> c.set]
  <2>. DEFINE values == {Capped(s) : s \in c.set}
  <2>1. WriteConstraint(c) = [kind |-> "OneOf", values |-> values]
    BY <1>3 DEF WriteConstraint
  <2>2. \A v \in values : v.whole
    BY <2>1 DEF WholeConstraint
  <2>3. \A s \in c.set : Capped(s) \in values /\ Capped(s).text = s
    BY <2>2, WholeText
  <2>4. {v.text : v \in values} = c.set
    BY <2>3
  <2>. QED
    BY <1>3, <2>1, <2>4 DEF ReadConstraint
<1>4. CASE \/ c = [kind |-> "Range", min |-> c.min, max |-> c.max]
           \/ c = [kind |-> "Absent"]
  <2>1. c.kind \in {"Range", "Absent"}
    BY <1>4
  <2>2. WriteConstraint(c) = c
    BY <2>1 DEF WriteConstraint
  <2>. QED
    BY <2>1, <2>2 DEF ReadConstraint
<1>. QED
  BY <1>1, <1>2, <1>3, <1>4 DEF ConstraintForm

LEMMA ValueReadsBack ==
  ASSUME NEW v, ValueForm(v), WholeValue(WriteValue(v))
  PROVE  ReadValue(WriteValue(v)) = v
<1>1. CASE v = [kind |-> "Str", str |-> v.str]
  <2>1. WriteValue(v) = [kind |-> "Str", value |-> Capped(v.str)]
    BY <1>1 DEF WriteValue
  <2>2. Capped(v.str).whole
    BY <2>1 DEF WholeValue
  <2>3. Capped(v.str).text = v.str
    BY <2>2, WholeText
  <2>. QED
    BY <1>1, <2>1, <2>3 DEF ReadValue
<1>2. CASE v.kind # "Str"
  BY <1>2 DEF WriteValue, ReadValue
<1>. QED
  BY <1>1, <1>2 DEF ValueForm

\* The names a map does not hold come back as None.
LEMMA ArgsReadBack ==
  ASSUME NEW args, args = [arg \in Arg |-> args[arg]], ArgsForm(args),
         NEW written, written = [arg \in Present(args) |-> WriteValue(args[arg])],
         \A arg \in DOMAIN written : WholeValue(written[arg])
  PROVE  ReadMap(written, ReadValue) = args
<1>1. ASSUME NEW arg \in Arg
      PROVE  (IF arg \in DOMAIN written THEN ReadValue(written[arg]) ELSE None) = args[arg]
  <2>1. DOMAIN written = {a \in Arg : args[a] # None}
    BY DEF Present
  <2>2. CASE args[arg] = None
    BY <2>1, <2>2
  <2>3. CASE args[arg] # None
    <3>1. arg \in DOMAIN written /\ written[arg] = WriteValue(args[arg])
      BY <2>1, <2>3 DEF Present
    <3>2. ReadValue(WriteValue(args[arg])) = args[arg]
      BY <2>3, <3>1, ValueReadsBack DEF ArgsForm
    <3>. QED
      BY <3>1, <3>2
  <2>. QED
    BY <2>2, <2>3
<1>. QED
  BY <1>1 DEF ReadMap

LEMMA ConstraintsReadBack ==
  ASSUME NEW map, map = [arg \in Arg |-> map[arg]],
         \A arg \in Arg : map[arg] # None => ConstraintForm(map[arg]),
         NEW written, written = [arg \in Present(map) |-> WriteConstraint(map[arg])],
         \A arg \in DOMAIN written : WholeConstraint(written[arg])
  PROVE  ReadMap(written, ReadConstraint) = map
<1>1. ASSUME NEW arg \in Arg
      PROVE  (IF arg \in DOMAIN written THEN ReadConstraint(written[arg]) ELSE None) = map[arg]
  <2>1. DOMAIN written = {a \in Arg : map[a] # None}
    BY DEF Present
  <2>2. CASE map[arg] = None
    BY <2>1, <2>2
  <2>3. CASE map[arg] # None
    <3>1. arg \in DOMAIN written /\ written[arg] = WriteConstraint(map[arg])
      BY <2>1, <2>3 DEF Present
    <3>2. ReadConstraint(WriteConstraint(map[arg])) = map[arg]
      BY <2>3, <3>1, ConstraintReadsBack
    <3>. QED
      BY <3>1, <3>2
  <2>. QED
    BY <2>2, <2>3
<1>. QED
  BY <1>1 DEF ReadMap

-----------------------------------------------------------------------------
(* What the gate decides on *)

LEMMA EntryCompiled ==
  ASSUME NEW entry, NEW g, g = Compiled(entry)
  PROVE  /\ g = [tool |-> g.tool, constraints |-> g.constraints, expires |-> g.expires]
         /\ g.constraints = [arg \in Arg |-> g.constraints[arg]]
         /\ \A arg \in Arg :
              g.constraints[arg] = IF entry.args[arg] = None THEN None ELSE ConstraintOf(entry.args[arg])
<1>. DEFINE map == [arg \in Arg |-> IF entry.args[arg] = None THEN None ELSE ConstraintOf(entry.args[arg])]
            expires == IF entry.expires = None THEN None ELSE ToTimestamp(entry.expires)
<1>1. g = [tool |-> entry.tool, constraints |-> map, expires |-> expires]
  BY DEF Compiled
<1>2. map = [arg \in Arg |-> map[arg]]
  OBVIOUS
<1>3. \A arg \in Arg : map[arg] = IF entry.args[arg] = None THEN None ELSE ConstraintOf(entry.args[arg])
  OBVIOUS
<1>. HIDE DEF map, expires
<1>4. g.constraints = map /\ g.tool = entry.tool /\ g.expires = expires
  BY <1>1
<1>. QED
  BY <1>1, <1>2, <1>3, <1>4

LEMMA CompiledForm ==
  ASSUME NEW f \in DOMAIN Files
  PROVE  /\ GrantsForm(EnvelopeOf(Files[f]).grants)
         /\ \A i \in DOMAIN Files[f].grant :
              EnvelopeOf(Files[f]).grants[i] = Compiled(Files[f].grant[i])
<1>. DEFINE entries == Files[f].grant
            grants == EnvelopeOf(Files[f]).grants
<1>1. DOMAIN grants = DOMAIN entries /\ \A i \in DOMAIN entries : grants[i] = Compiled(entries[i])
  BY DEF EnvelopeOf
<1>2. ASSUME NEW spec, spec.range # None => {spec.range.min, spec.range.max} \subseteq Optional(Int)
      PROVE  ConstraintForm(ConstraintOf(spec))
  BY <1>2 DEF ConstraintOf, ConstraintForm
<1>3. ASSUME NEW i \in DOMAIN entries, NEW arg \in Arg, grants[i].constraints[arg] # None
      PROVE  ConstraintForm(grants[i].constraints[arg])
  <2>. DEFINE spec == entries[i].args[arg]
              entry == entries[i]
              g == grants[i]
  <2>0. g = Compiled(entry)
    BY <1>1
  <2>. HIDE DEF g, entry
  <2>1. g.constraints[arg] = IF entry.args[arg] = None THEN None ELSE ConstraintOf(entry.args[arg])
    BY <2>0, EntryCompiled
  <2>. USE DEF g, entry
  <2>2. spec # None /\ grants[i].constraints[arg] = ConstraintOf(spec)
    BY <1>3, <2>1
  <2>3. spec.range # None => {spec.range.min, spec.range.max} \subseteq Optional(Int)
    BY <2>2, GateAssumption
  <2>. HIDE DEF spec, grants
  <2>. QED
    BY <1>2, <2>2, <2>3
<1>. QED
  BY <1>1, <1>3 DEF GrantsForm

LEMMA GrantsReadBack ==
  ASSUME NEW f \in DOMAIN Files,
         NEW decided, Legible(SessionStarted(EnvelopeOf(Files[f])), decided)
  PROVE  ReadGrants(SessionStarted(EnvelopeOf(Files[f]))) = EnvelopeOf(Files[f]).grants
<1>. DEFINE grants == EnvelopeOf(Files[f]).grants
            written == SessionStarted(EnvelopeOf(Files[f])).envelope.grants
<1>1. grants = [i \in DOMAIN Files[f].grant |-> Compiled(Files[f].grant[i])]
  BY DEF EnvelopeOf
<1>2. /\ DOMAIN written = DOMAIN grants
      /\ \A i \in DOMAIN grants :
           /\ written[i].tool = grants[i].tool
           /\ written[i].expires = grants[i].expires
           /\ written[i].args = [arg \in Present(grants[i].constraints) |->
                                   WriteConstraint(grants[i].constraints[arg])]
  BY DEF SessionStarted, WriteEnvelope
<1>3. \A i \in DOMAIN grants : \A arg \in DOMAIN written[i].args : WholeConstraint(written[i].args[arg])
  BY <1>2 DEF Legible
<1>4. ReadGrants(SessionStarted(EnvelopeOf(Files[f]))) =
        [i \in DOMAIN written |->
           [tool |-> written[i].tool, constraints |-> ReadMap(written[i].args, ReadConstraint),
            expires |-> written[i].expires]]
  BY DEF ReadGrants
<1>5. GrantsForm(grants)
  BY CompiledForm
<1>. HIDE DEF written
<1>6. ASSUME NEW i \in DOMAIN grants
      PROVE  [tool |-> written[i].tool, constraints |-> ReadMap(written[i].args, ReadConstraint),
              expires |-> written[i].expires] = grants[i]
  <2>. DEFINE map == grants[i].constraints
  <2>1. grants[i] = [tool |-> grants[i].tool, constraints |-> map, expires |-> grants[i].expires]
        /\ map = [arg \in Arg |-> map[arg]]
    BY <1>1, EntryCompiled
  <2>2. \A arg \in Arg : map[arg] # None => ConstraintForm(map[arg])
    BY <1>5 DEF GrantsForm
  <2>. HIDE DEF map, grants
  <2>3. ReadMap(written[i].args, ReadConstraint) = map
    BY <1>2, <1>3, <2>1, <2>2, ConstraintsReadBack DEF map
  <2>. QED
    BY <1>2, <2>1, <2>3
<1>. QED
  BY <1>1, <1>2, <1>4, <1>6

\* A set of one index.
LEMMA SameIndex ==
  ASSUME NEW S, NEW i \in S, i \in Nat, \A j \in S : j = i
  PROVE  FirstIndex(S) = i /\ LastIndex(S) = i
<1>1. S = {i}
  OBVIOUS
<1>2. FirstIndex(S) \in S /\ LastIndex(S) \in S
  BY <1>1 DEF FirstIndex, LastIndex
<1>. QED
  BY <1>2

\* Only calls without a repeated key are read, so a key has one member or none.
LEMMA ParsedForm ==
  ASSUME NEW f \in DOMAIN Files, NEW c \in Calls[f], Parse(c.params).ok
  PROVE  LET parsed == Parse(c.params)
         IN c.params # None /\ parsed.args = [arg \in Arg |-> parsed.args[arg]] /\ ArgsForm(parsed.args)
<1>. DEFINE params == c.params
            parsed == Parse(params)
            arguments == At(params, "arguments")
            args == parsed.args
            read == \E i \in arguments : params[i].value.kind = "object"
<1>1. params # None /\ ~Ambiguous(params)
  BY DEF Parse, Malformed
<1>0. DOMAIN params \subseteq Nat
  BY <1>1, GateAssumption DEF Members
<1>2. args = IF read THEN ArgumentsRead(params[FirstIndex(arguments)].value.members)
                    ELSE NoArguments
  BY <1>1 DEF Parse, Malformed
<1>. HIDE DEF args
<1>3. ASSUME ~read
      PROVE  args = [arg \in Arg |-> args[arg]] /\ ArgsForm(args)
  BY <1>2, <1>3 DEF NoArguments, ArgsForm
<1>4. ASSUME read
      PROVE  args = [arg \in Arg |-> args[arg]] /\ ArgsForm(args)
  <2>1. PICK i \in arguments : params[i].value.kind = "object"
    BY <1>4
  <2>. DEFINE object == params[i].value.members
  <2>2. \A j \in arguments : j = i
    BY <1>1 DEF Ambiguous, Repeats, At
  <2>3. FirstIndex(arguments) = i
    BY <1>0, <2>2, SameIndex DEF At
  <2>4. args = [arg \in Arg |-> IF At(object, arg) = {} THEN None
                                       ELSE Classify(object[LastIndex(At(object, arg))].value)]
    BY <1>2, <1>4, <2>3 DEF ArgumentsRead
  <2>5. ~Repeats(object) /\ Members(object)
    BY <1>1, <2>1, GateAssumption DEF Ambiguous
  <2>6. ASSUME NEW arg \in Arg, At(object, arg) # {}
        PROVE  ValueForm(Classify(object[LastIndex(At(object, arg))].value))
    <3>1. PICK j : j \in At(object, arg)
      BY <2>6
    <3>2. \A k \in At(object, arg) : k = j
      BY <2>5, <3>1 DEF Repeats, At
    <3>3. LastIndex(At(object, arg)) = j
      BY <2>5, <3>1, <3>2, SameIndex DEF At, Members
    <3>4. object[j].value.kind = "integer" => object[j].value.int \in Int
      BY <2>5, <3>1 DEF Members, At
    <3>5. ValueForm(Classify(object[j].value))
      BY <3>4 DEF Classify, ValueForm
    <3>. QED
      BY <3>3, <3>5
  <2>. HIDE DEF object
  <2>. QED
    BY <2>4, <2>6 DEF ArgsForm
<1>. QED
  BY <1>1, <1>3, <1>4 DEF args

-----------------------------------------------------------------------------
(* The trace replays *)

\* While it serves, a gate decides on the file it was given, and has said so.
ServingInv ==
  /\ file \in DOMAIN Files
  /\ stage \in {"start", "refused", "serving", "answered"}
  /\ stage \in {"serving", "answered"} =>
       /\ envelope = EnvelopeOf(Files[file])
       /\ policies = Compile(envelope.grants)
       /\ started = SessionStarted(envelope)

Decided(c) ==
  LET parsed == Parse(c.params)
      evaluated == EvaluatedCall(parsed)
  IN CallDecided(envelope.principal, evaluated, AsSent(parsed), c.now,
                 CedarAuthorize(envelope, policies, envelope.principal, evaluated, c.now))

\* A line that tells a decision is about the call in hand, and what was forwarded is that call.
AnsweredInv ==
  (stage = "answered" /\ line.event = "call_decided") =>
    /\ call \in Calls[file] /\ Parse(call.params).ok
    /\ line = Decided(call)
    /\ forwarded = IF line.decision.verdict = "Allow" THEN call.params ELSE None

GateInv == ServingInv /\ AnsweredInv

LEMMA GateInvInit == Init => GateInv
BY DEF Init, GateInv, ServingInv, AnsweredInv

LEMMA GateInvStep == GateInv /\ [Next]_vars => GateInv'
<1>. SUFFICES ASSUME GateInv, [Next]_vars PROVE GateInv'
  OBVIOUS
<1>1. CASE Start
  BY <1>1 DEF Start, GateInv, ServingInv, AnsweredInv
<1>2. CASE Answer
  <2>1. stage = "serving"
    BY <1>2 DEF Answer
  <2>2. PICK c \in Calls[file] : Ask(c)
    BY <1>2 DEF Answer
  <2>3. /\ stage' = "answered" /\ call' = c
        /\ UNCHANGED <<file, envelope, policies, started>>
    BY <2>2 DEF Ask
  <2>4. ServingInv'
    BY <2>1, <2>3 DEF GateInv, ServingInv
  <2>5. ASSUME line'.event = "call_decided"
        PROVE  /\ Parse(c.params).ok
               /\ line' = Decided(c)
               /\ forwarded' = IF Decided(c).decision.verdict = "Allow" THEN c.params ELSE None
    <3>1. Parse(c.params).ok
      BY <2>2, <2>5 DEF Ask, CallRefused
    <3>2. line' = Decided(c)
      BY <2>2, <3>1 DEF Ask, Decided
    <3>3. forwarded' = IF Decided(c).decision.verdict = "Allow" THEN c.params ELSE None
      BY <2>2, <3>1 DEF Ask, Decided, CallDecided
    <3>. QED
      BY <3>1, <3>2, <3>3
  <2>6. Decided(c)' = Decided(c)
    BY <2>3 DEF Decided, EvaluatedCall, AsSent
  <2>7. AnsweredInv'
    BY <2>3, <2>5, <2>6 DEF AnsweredInv, Decided
  <2>. QED
    BY <2>4, <2>7 DEF GateInv
<1>3. CASE Proceed
  BY <1>3 DEF Proceed, GateInv, ServingInv, AnsweredInv
<1>4. CASE UNCHANGED vars
  BY <1>4 DEF vars, GateInv, ServingInv, AnsweredInv, Decided, EvaluatedCall, AsSent
<1>. QED
  BY <1>1, <1>2, <1>3, <1>4 DEF Next

\* A path is replaced only where it is a string.
LEMMA EvaluatedForm ==
  ASSUME NEW flavor, NEW v, v # None => ValueForm(v)
  PROVE  /\ Evaluated(flavor, v) # None => ValueForm(Evaluated(flavor, v))
         /\ Evaluated(flavor, v) # v => v = [kind |-> "Str", str |-> v.str]
<1>1. CASE flavor = None \/ v = None \/ v.kind # "Str"
  BY <1>1 DEF Evaluated
<1>2. CASE ~(flavor = None \/ v = None \/ v.kind # "Str")
  <2>1. v = [kind |-> "Str", str |-> v.str]
    BY <1>2 DEF ValueForm
  <2>2. \/ Evaluated(flavor, v) = [kind |-> "Other"]
        \/ Evaluated(flavor, v) = [kind |-> "Str", str |-> Normalize(v.str, flavor)]
    BY <1>2 DEF Evaluated
  <2>3. ValueForm(Evaluated(flavor, v))
    BY <2>2 DEF ValueForm
  <2>. QED
    BY <2>1, <2>3
<1>. QED
  BY <1>1, <1>2

LEMMA InvReplays == GateInv => TraceReplays
<1>. SUFFICES ASSUME GateInv, stage = "answered", line.event = "call_decided"
              PROVE  /\ Legible(started, line) =>
                          Decide(ReadGrants(started), ReadCall(line), line.now) = line.decision
                     /\ (forwarded # None) = (line.decision.verdict = "Allow")
                     /\ Legible(started, line) /\ LegibleAsked(line) => ReadAsked(line) = Parse(call.params).args
  BY DEF TraceReplays
<1>. DEFINE parsed == Parse(call.params)
            args == parsed.args
            evaluated == EvaluatedCall(parsed)
            decision == CedarAuthorize(envelope, policies, envelope.principal, evaluated, call.now)
<1>1. /\ file \in DOMAIN Files
      /\ envelope = EnvelopeOf(Files[file])
      /\ policies = Compile(envelope.grants)
      /\ started = SessionStarted(envelope)
  BY DEF GateInv, ServingInv
<1>2. /\ call \in Calls[file] /\ parsed.ok
      /\ line = CallDecided(envelope.principal, evaluated, AsSent(parsed), call.now, decision)
      /\ forwarded = IF line.decision.verdict = "Allow" THEN call.params ELSE None
  BY DEF GateInv, AnsweredInv, Decided
<1>3. call.params # None /\ args = [arg \in Arg |-> args[arg]] /\ ArgsForm(args)
  BY <1>1, <1>2, ParsedForm
<1>4. /\ line.now = call.now /\ line.decision = decision
      /\ line.call = WriteCall(evaluated)
      /\ line.args_as_sent = WriteAsSent(AsSent(parsed))
  BY <1>2 DEF CallDecided
<1>5. (forwarded # None) = (line.decision.verdict = "Allow")
  BY <1>2, <1>3
<1>6. /\ evaluated = [tool |-> evaluated.tool, args |-> evaluated.args]
      /\ evaluated.args = [arg \in Arg |-> evaluated.args[arg]]
      /\ \A arg \in Arg :
           evaluated.args[arg] = Evaluated(PathFlavors(Files[file], parsed.tool, arg), args[arg])
  BY DEF EvaluatedCall
<1>. HIDE DEF parsed, decision
<1>7. \A arg \in Arg : args[arg] # None => ValueForm(args[arg])
  BY <1>3 DEF ArgsForm
<1>. HIDE DEF args, evaluated
<1>8. /\ ArgsForm(evaluated.args)
      /\ \A arg \in Arg : evaluated.args[arg] # args[arg] => args[arg] = [kind |-> "Str", str |-> args[arg].str]
  BY <1>6, <1>7, EvaluatedForm DEF ArgsForm
<1>9. ASSUME Legible(started, line)
      PROVE  ReadMap(line.call.args, ReadValue) = evaluated.args /\ ReadCall(line) = evaluated
  <2>1. /\ line.call.tool = Capped(evaluated.tool)
        /\ line.call.args = [arg \in Present(evaluated.args) |-> WriteValue(evaluated.args[arg])]
    BY <1>4 DEF WriteCall
  <2>2. /\ Capped(evaluated.tool).whole
        /\ \A arg \in DOMAIN line.call.args : WholeValue(line.call.args[arg])
    BY <1>9, <2>1 DEF Legible
  <2>3. Capped(evaluated.tool).text = evaluated.tool
    BY <2>2, WholeText
  <2>4. ReadMap(line.call.args, ReadValue) = evaluated.args
    BY <1>6, <1>8, <2>1, <2>2, ArgsReadBack
  <2>. QED
    BY <1>6, <2>1, <2>3, <2>4 DEF ReadCall
<1>10. ASSUME Legible(started, line)
       PROVE  Decide(ReadGrants(started), ReadCall(line), line.now) = line.decision
  <2>1. ReadGrants(started) = envelope.grants
    BY <1>1, <1>10, GrantsReadBack
  <2>2. GrantsForm(envelope.grants)
    BY <1>1, CompiledForm
  <2>3. decision = Authorize(envelope, envelope.principal, evaluated, call.now)
    BY <1>1, <1>8, <2>2, EngineAgrees DEF decision
  <2>4. Authorize(envelope, envelope.principal, evaluated, call.now) = Decide(envelope.grants, evaluated, call.now)
    BY DEF Authorize
  <2>. QED
    BY <1>4, <1>9, <1>10, <2>1, <2>3, <2>4
<1>11. ASSUME Legible(started, line), LegibleAsked(line)
       PROVE  ReadAsked(line) = args
  <2>. DEFINE sent == line.args_as_sent
              changed == {arg \in Arg : evaluated.args[arg] # args[arg]}
  <2>1. sent = [arg \in changed |-> Capped(args[arg].str)]
    BY <1>4 DEF WriteAsSent, AsSent, evaluated, args
  <2>2. \A arg \in changed : sent[arg].text = args[arg].str
    BY <1>11, <2>1, WholeText DEF LegibleAsked
  <2>3. ReadMap(line.call.args, ReadValue) = evaluated.args
    BY <1>9, <1>11
  <2>4. ReadAsked(line) =
          [arg \in Arg |-> IF arg \in DOMAIN sent THEN [kind |-> "Str", str |-> sent[arg].text]
                           ELSE evaluated.args[arg]]
    BY <2>3 DEF ReadAsked
  <2>5. DOMAIN sent = changed
    BY <2>1
  <2>. HIDE DEF sent
  <2>6. ASSUME NEW arg \in Arg
        PROVE  (IF arg \in DOMAIN sent THEN [kind |-> "Str", str |-> sent[arg].text]
                ELSE evaluated.args[arg]) = args[arg]
    <3>1. CASE arg \in changed
      BY <1>8, <2>2, <2>5, <3>1
    <3>2. CASE arg \notin changed
      BY <2>5, <3>2
    <3>. QED
      BY <3>1, <3>2
  <2>. QED
    BY <1>3, <2>4, <2>6
<1>. QED
  BY <1>5, <1>10, <1>11 DEF args, parsed

\* With nothing but the trace, the reference decision can be made again for every call
\* that was decided: it is the recorded one, it tells whether the call was forwarded, and
\* the recorded spellings are what was asked for.  The code: decide_call, which evaluates,
\* decides and records on one reading of the clock, and write_event.
THEOREM TheTraceReplays == GateSpec => []TraceReplays
<1>1. GateInv /\ [Next]_vars => GateInv'
  BY GateInvStep
<1>. QED
  BY <1>1, GateInvInit, InvReplays, PTL DEF GateSpec

-----------------------------------------------------------------------------
(* The gate and the chain together *)

\* Beside the other, each of the two does what it does alone.
LEMMA EachKeepsItsSpec == AuthoritySpec => ChainSpec /\ GateSpec
<1>1. AuthorityInit => ChainInit /\ Init
  BY DEF AuthorityInit
<1>2. [AuthorityNext]_<<chainVars, vars>> => [Delegate]_chainVars /\ [Next]_vars
  BY DEF AuthorityNext
<1>. QED
  BY <1>1, <1>2, PTL DEF AuthoritySpec, ChainSpec, GateSpec

\* What is proved of chains and of the gate holds in the composition: the root of a chain
\* bounds what its end may do and see, the views of a tool agree, and the trace replays.
THEOREM AuthorityIsKept ==
  AuthoritySpec =>
    /\ [](AttenuatesRoot /\ RootBoundsAuthority /\ RootBoundsVisibility)
    /\ [](ListAgreesWithDecision /\ TimeOnlyNarrows)
    /\ []TraceReplays
BY EachKeepsItsSpec, ChainAttenuatesRoot, TreeBoundedByRoot, TreeSeesOnlyRootTools,
   ListAndDecisionAgree, AuthorityOnlyLapses, TheTraceReplays, PTL

=============================================================================
