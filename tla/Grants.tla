------------------------------- MODULE Grants -------------------------------
(***************************************************************************)
(* The grant model of flavium-core: constraints on arguments, grants, the  *)
(* reference decision and attenuation.  Every operator is a pure, total    *)
(* function of its arguments, like the Rust function it stands for         *)
(* (INV-4 of flavium-core/src/lib.rs).                                     *)
(*                                                                         *)
(* A string is a sequence of bytes, a map keyed by argument names is a     *)
(* function that is None at the names it does not hold, a grant set is a   *)
(* sequence of grants in file order.                                       *)
(***************************************************************************)
EXTENDS Integers, Sequences

CONSTANTS Byte,  \* the bytes strings are made of
          Tool,  \* tool names
          Arg,   \* argument names
          None   \* Rust's Option::None, for a bound, an expiry or an argument

\* No integer, string value or map stands for an absent one.
ASSUME NoneAssumption == None \notin Int

-----------------------------------------------------------------------------
(* Values, constraints, calls and grants *)

Optional(S) == S \cup {None}

ArgValue ==
  [kind: {"Str"}, str: Seq(Byte)]
    \cup [kind: {"Int"}, int: Int]
    \cup [kind: {"Other"}]

Constraint ==
  [kind: {"Prefix", "Suffix"}, text: Seq(Byte)]
    \cup [kind: {"OneOf"}, set: SUBSET Seq(Byte)]
    \cup [kind: {"Range"}, min: Optional(Int), max: Optional(Int)]
    \cup [kind: {"Absent"}]

ToolCall ==
  [tool: Tool, args: [Arg -> Optional(ArgValue)]]

Grant ==
  [tool: Tool,
   constraints: [Arg -> Optional(Constraint)],
   expires: Optional(Int)]

GrantSet == Seq(Grant)

-----------------------------------------------------------------------------
(* One constraint *)

StartsWith(s, prefix) ==
  /\ Len(prefix) <= Len(s)
  /\ \A i \in 1 .. Len(prefix) : s[i] = prefix[i]

EndsWith(s, suffix) ==
  /\ Len(suffix) <= Len(s)
  /\ \A i \in 1 .. Len(suffix) : s[Len(s) - Len(suffix) + i] = suffix[i]

WithinBounds(n, min, max) ==
  /\ min # None => n >= min
  /\ max # None => n <= max

\* What a constraint admits; v is None when the argument is missing.
\* A missing argument satisfies Absent only, a value of another kind nothing.
Admits(c, v) ==
  IF v = None THEN c.kind = "Absent"
  ELSE \/ c.kind = "Prefix" /\ v.kind = "Str" /\ StartsWith(v.str, c.text)
       \/ c.kind = "Suffix" /\ v.kind = "Str" /\ EndsWith(v.str, c.text)
       \/ c.kind = "OneOf" /\ v.kind = "Str" /\ v.str \in c.set
       \/ c.kind = "Range" /\ v.kind = "Int" /\ WithinBounds(v.int, c.min, c.max)

IsStringKind(c) == c.kind \in {"Prefix", "Suffix", "OneOf"}

LowerBoundWithin(parent, child) ==
  parent # None => child # None /\ child >= parent

\* Mutant: Option's derived order, which puts None below every bound.
UpperBoundWithinDerived(parent, child) ==
  parent # None => child = None \/ child <= parent

UpperBoundWithin(parent, child) ==
  parent # None => child # None /\ child <= parent

\* The structural inclusion of constraints: parent p, child c.
Includes(p, c) ==
  \/ p.kind = "Absent" /\ c.kind = "Absent"
  \/ p.kind \in {"Prefix", "Suffix"} /\ p.text = <<>> /\ IsStringKind(c)
  \/ p.kind = "Prefix" /\ c.kind = "Prefix" /\ StartsWith(c.text, p.text)
  \/ p.kind = "Suffix" /\ c.kind = "Suffix" /\ EndsWith(c.text, p.text)
  \/ p.kind = "OneOf" /\ c.kind = "OneOf" /\ c.set \subseteq p.set
  \/ p.kind = "Prefix" /\ c.kind = "OneOf" /\ \A s \in c.set : StartsWith(s, p.text)
  \/ p.kind = "Suffix" /\ c.kind = "OneOf" /\ \A s \in c.set : EndsWith(s, p.text)
  \/ /\ p.kind = "Range" /\ c.kind = "Range"
     /\ LowerBoundWithin(p.min, c.min)
     /\ UpperBoundWithin(p.max, c.max)

-----------------------------------------------------------------------------
(* One grant *)

\* Mutant: the comparison with the expiry turned round.
IsLiveSwapped(g, now) == g.expires # None => g.expires <= now

IsLive(g, now) == g.expires # None => now < g.expires

GrantAdmits(g, call) ==
  /\ g.tool = call.tool
  /\ \A arg \in Arg :
       g.constraints[arg] # None => Admits(g.constraints[arg], call.args[arg])

\* Mutant: an argument the child does not constrain is skipped.
CoversDropped(p, c) ==
  /\ p.tool = c.tool
  /\ UpperBoundWithin(p.expires, c.expires)
  /\ \A arg \in Arg :
       p.constraints[arg] # None /\ c.constraints[arg] # None =>
         Includes(p.constraints[arg], c.constraints[arg])

\* Mutant: the expiry axis is forgotten.
CoversNoExpiry(p, c) ==
  /\ p.tool = c.tool
  /\ \A arg \in Arg :
       p.constraints[arg] # None =>
         c.constraints[arg] # None /\ Includes(p.constraints[arg], c.constraints[arg])

\* Grant::covers: same tool, no later expiry, no constraint dropped or widened.
Covers(p, c) ==
  /\ p.tool = c.tool
  /\ UpperBoundWithin(p.expires, c.expires)
  /\ \A arg \in Arg :
       p.constraints[arg] # None =>
         c.constraints[arg] # None /\ Includes(p.constraints[arg], c.constraints[arg])

-----------------------------------------------------------------------------
(* A grant set: the decision, visibility and delegation *)

ToolStatus(grants, tool, now) ==
  IF \E i \in DOMAIN grants : grants[i].tool = tool /\ IsLive(grants[i], now) THEN "Live"
  ELSE IF \E i \in DOMAIN grants : grants[i].tool = tool THEN "Expired"
  ELSE "NotGranted"

AdmittingGrants(grants, call, now) ==
  {i \in DOMAIN grants : IsLive(grants[i], now) /\ GrantAdmits(grants[i], call)}

FirstIndex(S) == CHOOSE i \in S : \A j \in S : i <= j

Allow(i) == [verdict |-> "Allow", grant |-> i]
Deny(reason) == [verdict |-> "Deny", reason |-> reason]

\* The reference decision.  Indices count from 1 here and from 0 in the code.
Decide(grants, call, now) ==
  LET status == ToolStatus(grants, call.tool, now)
      admitting == AdmittingGrants(grants, call, now)
  IN IF status # "Live" THEN Deny(status)
     ELSE IF admitting = {} THEN Deny("OutOfEnvelope")
     ELSE Allow(FirstIndex(admitting))

Allows(grants, call, now) == Decide(grants, call, now).verdict = "Allow"

\* Mutant: an expired grant still lists its tool.
GrantedToolsExpired(grants, now) == {grants[i].tool : i \in DOMAIN grants}

GrantedTools(grants, now) ==
  {grants[i].tool : i \in {j \in DOMAIN grants : IsLive(grants[j], now)}}

\* attenuates: every child grant is covered by one parent grant.
Attenuates(parent, child) ==
  \A i \in DOMAIN child : \E j \in DOMAIN parent : Covers(parent[j], child[i])

\* The Authorizer of a GrantEnvelope: it answers for its own principal only.
Authorize(envelope, principal, call, now) ==
  IF principal # envelope.principal THEN Deny("NotGranted")
  ELSE Decide(envelope.grants, call, now)

VisibleTools(envelope, principal, now) ==
  IF principal # envelope.principal THEN {} ELSE GrantedTools(envelope.grants, now)

=============================================================================
