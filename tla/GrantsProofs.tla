---------------------------- MODULE GrantsProofs ----------------------------
(***************************************************************************)
(* The invariants flavium-core/src/lib.rs states about its grant model,    *)
(* proved for every grant, call and time: L1, L2, INV-1, INV-1b, INV-2,    *)
(* INV-3 and INV-5.  The repository tests them on random cases             *)
(* (flavium-core/tests/properties.rs).                                     *)
(***************************************************************************)
EXTENDS Grants, TLAPS

-----------------------------------------------------------------------------
(* Strings *)

\* str::starts_with is reflexive, and every string starts with the empty one.
LEMMA StartsWithReflexive ==
  ASSUME NEW s \in Seq(Byte)
  PROVE  StartsWith(s, s) /\ StartsWith(s, <<>>)
  BY DEF StartsWith

\* A prefix of a prefix is a prefix.
LEMMA StartsWithTransitive ==
  ASSUME NEW s \in Seq(Byte), NEW t \in Seq(Byte), NEW u \in Seq(Byte),
         StartsWith(s, t), StartsWith(t, u)
  PROVE  StartsWith(s, u)
  BY DEF StartsWith

\* str::ends_with is reflexive, and every string ends with the empty one.
LEMMA EndsWithReflexive ==
  ASSUME NEW s \in Seq(Byte)
  PROVE  EndsWith(s, s) /\ EndsWith(s, <<>>)
  BY DEF EndsWith

\* A suffix of a suffix is a suffix.
LEMMA EndsWithTransitive ==
  ASSUME NEW s \in Seq(Byte), NEW t \in Seq(Byte), NEW u \in Seq(Byte),
         EndsWith(s, t), EndsWith(t, u)
  PROVE  EndsWith(s, u)
<1>1. Len(u) <= Len(s)
  BY DEF EndsWith
<1>2. ASSUME NEW i \in 1 .. Len(u)
      PROVE  s[Len(s) - Len(u) + i] = u[i]
  <2>. DEFINE j == Len(t) - Len(u) + i
  <2>1. j \in 1 .. Len(t) /\ t[j] = u[i]
    BY DEF EndsWith
  <2>2. s[Len(s) - Len(t) + j] = t[j]
    BY <2>1 DEF EndsWith
  <2>3. Len(s) - Len(t) + j = Len(s) - Len(u) + i
    BY <2>1
  <2>. QED
    BY <2>1, <2>2, <2>3
<1>. QED
  BY <1>1, <1>2 DEF EndsWith

-----------------------------------------------------------------------------
(* Constraints *)

\* L1: whenever Constraint::includes accepts a child constraint, every value
\* the child admits, the parent admits - a missing argument included.
THEOREM L1 ==
  ASSUME NEW p \in Constraint, NEW c \in Constraint,
         NEW v \in Optional(ArgValue),
         Includes(p, c), Admits(c, v)
  PROVE  Admits(p, v)
<1>1. CASE v = None
  BY <1>1 DEF Includes, Admits, IsStringKind
<1>2. CASE v # None
  <2>. v \in ArgValue
    BY <1>2 DEF Optional
  <2>1. CASE p.kind \in {"Prefix", "Suffix"} /\ p.text = <<>> /\ IsStringKind(c)
    <3>1. v.kind = "Str" /\ v.str \in Seq(Byte)
      BY <1>2, <2>1 DEF Admits, IsStringKind, ArgValue
    <3>. QED
      BY <1>2, <2>1, <3>1, StartsWithReflexive, EndsWithReflexive DEF Admits
  <2>2. CASE p.kind = "Prefix" /\ c.kind = "Prefix" /\ StartsWith(c.text, p.text)
    BY <1>2, <2>2, StartsWithTransitive DEF Admits, Constraint, ArgValue
  <2>3. CASE p.kind = "Suffix" /\ c.kind = "Suffix" /\ EndsWith(c.text, p.text)
    BY <1>2, <2>3, EndsWithTransitive DEF Admits, Constraint, ArgValue
  <2>4. CASE p.kind = "OneOf" /\ c.kind = "OneOf" /\ c.set \subseteq p.set
    BY <1>2, <2>4 DEF Admits
  <2>5. CASE p.kind = "Prefix" /\ c.kind = "OneOf" /\ \A s \in c.set : StartsWith(s, p.text)
    BY <1>2, <2>5 DEF Admits
  <2>6. CASE p.kind = "Suffix" /\ c.kind = "OneOf" /\ \A s \in c.set : EndsWith(s, p.text)
    BY <1>2, <2>6 DEF Admits
  <2>7. CASE /\ p.kind = "Range" /\ c.kind = "Range"
             /\ LowerBoundWithin(p.min, c.min)
             /\ UpperBoundWithin(p.max, c.max)
    <3>1. v.kind = "Int" /\ v.int \in Int /\ WithinBounds(v.int, c.min, c.max)
      BY <1>2, <2>7 DEF Admits, ArgValue
    <3>2. /\ p.min \in Optional(Int) /\ p.max \in Optional(Int)
          /\ c.min \in Optional(Int) /\ c.max \in Optional(Int)
      BY <2>7 DEF Constraint
    <3>3. WithinBounds(v.int, p.min, p.max)
      BY <2>7, <3>1, <3>2 DEF WithinBounds, LowerBoundWithin, UpperBoundWithin, Optional
    <3>. QED
      BY <1>2, <2>7, <3>1, <3>3 DEF Admits
  <2>8. c.kind # "Absent"
    BY <1>2 DEF Admits
  <2>. QED
    BY <2>1, <2>2, <2>3, <2>4, <2>5, <2>6, <2>7, <2>8 DEF Includes
<1>. QED
  BY <1>1, <1>2

\* Constraint::includes is reflexive: a constraint may be delegated unchanged.
LEMMA IncludesReflexive ==
  ASSUME NEW c \in Constraint
  PROVE  Includes(c, c)
<1>1. CASE c.kind = "Prefix"
  BY <1>1, StartsWithReflexive DEF Constraint, Includes
<1>2. CASE c.kind = "Suffix"
  BY <1>2, EndsWithReflexive DEF Constraint, Includes
<1>3. CASE c.kind = "OneOf"
  BY <1>3 DEF Includes
<1>4. CASE c.kind = "Range"
  BY <1>4 DEF Constraint, Includes, LowerBoundWithin, UpperBoundWithin, Optional
<1>5. CASE c.kind = "Absent"
  BY <1>5 DEF Includes
<1>. QED
  BY <1>1, <1>2, <1>3, <1>4, <1>5 DEF Constraint

\* Constraint::includes is transitive: what two delegations accept in a row,
\* one would have accepted.
LEMMA IncludesTransitive ==
  ASSUME NEW a \in Constraint, NEW b \in Constraint, NEW c \in Constraint,
         Includes(a, b), Includes(b, c)
  PROVE  Includes(a, c)
<1>1. CASE a.kind = "Absent"
  BY <1>1 DEF Includes, IsStringKind
<1>2. CASE a.kind \in {"Prefix", "Suffix"} /\ a.text = <<>>
  <2>1. IsStringKind(b)
    BY <1>2 DEF Includes, IsStringKind
  <2>2. IsStringKind(c)
    BY <2>1 DEF Includes, IsStringKind
  <2>. QED
    BY <1>2, <2>2 DEF Includes
<1>3. CASE a.kind = "Prefix" /\ a.text # <<>>
  <2>1. CASE b.kind = "Prefix"
    <3>1. a.text \in Seq(Byte) /\ b.text \in Seq(Byte) /\ StartsWith(b.text, a.text)
      BY <1>3, <2>1 DEF Includes, Constraint
    <3>2. b.text # <<>>
      BY <1>3, <3>1 DEF StartsWith
    <3>3. CASE c.kind = "Prefix"
      <4>1. c.text \in Seq(Byte) /\ StartsWith(c.text, b.text)
        BY <2>1, <3>2, <3>3 DEF Includes, Constraint
      <4>. QED
        BY <1>3, <3>1, <3>3, <4>1, StartsWithTransitive DEF Includes
    <3>4. CASE c.kind = "OneOf"
      <4>1. \A s \in c.set : s \in Seq(Byte) /\ StartsWith(s, b.text)
        BY <2>1, <3>2, <3>4 DEF Includes, Constraint
      <4>2. \A s \in c.set : StartsWith(s, a.text)
        BY <3>1, <4>1, StartsWithTransitive
      <4>. QED
        BY <1>3, <3>4, <4>2 DEF Includes
    <3>. QED
      BY <2>1, <3>2, <3>3, <3>4 DEF Includes
  <2>2. CASE b.kind = "OneOf"
    <3>1. c.kind = "OneOf" /\ c.set \subseteq b.set
      BY <2>2 DEF Includes
    <3>. QED
      BY <1>3, <2>2, <3>1 DEF Includes
  <2>. QED
    BY <1>3, <2>1, <2>2 DEF Includes
<1>4. CASE a.kind = "Suffix" /\ a.text # <<>>
  <2>1. CASE b.kind = "Suffix"
    <3>1. a.text \in Seq(Byte) /\ b.text \in Seq(Byte) /\ EndsWith(b.text, a.text)
      BY <1>4, <2>1 DEF Includes, Constraint
    <3>2. b.text # <<>>
      BY <1>4, <3>1 DEF EndsWith
    <3>3. CASE c.kind = "Suffix"
      <4>1. c.text \in Seq(Byte) /\ EndsWith(c.text, b.text)
        BY <2>1, <3>2, <3>3 DEF Includes, Constraint
      <4>. QED
        BY <1>4, <3>1, <3>3, <4>1, EndsWithTransitive DEF Includes
    <3>4. CASE c.kind = "OneOf"
      <4>1. \A s \in c.set : s \in Seq(Byte) /\ EndsWith(s, b.text)
        BY <2>1, <3>2, <3>4 DEF Includes, Constraint
      <4>2. \A s \in c.set : EndsWith(s, a.text)
        BY <3>1, <4>1, EndsWithTransitive
      <4>. QED
        BY <1>4, <3>4, <4>2 DEF Includes
    <3>. QED
      BY <2>1, <3>2, <3>3, <3>4 DEF Includes
  <2>2. CASE b.kind = "OneOf"
    <3>1. c.kind = "OneOf" /\ c.set \subseteq b.set
      BY <2>2 DEF Includes
    <3>. QED
      BY <1>4, <2>2, <3>1 DEF Includes
  <2>. QED
    BY <1>4, <2>1, <2>2 DEF Includes
<1>5. CASE a.kind = "OneOf"
  BY <1>5 DEF Includes
<1>6. CASE a.kind = "Range"
  <2>1. b.kind = "Range" /\ c.kind = "Range"
    BY <1>6 DEF Includes
  <2>. QED
    BY <1>6, <2>1 DEF Includes, LowerBoundWithin, UpperBoundWithin, Constraint, Optional
<1>. QED
  BY <1>1, <1>2, <1>3, <1>4, <1>5, <1>6 DEF Constraint

-----------------------------------------------------------------------------
(* Grants *)

\* What a grant's constraint map holds under one of its keys.
LEMMA ConstraintOfGrant ==
  ASSUME NEW g \in Grant, NEW arg \in Arg, g.constraints[arg] # None
  PROVE  g.constraints[arg] \in Constraint
  BY DEF Grant, Optional

\* L2: whenever Grant::covers accepts a child grant and the child is live and
\* admits a call, the parent is live and admits it.
THEOREM L2 ==
  ASSUME NEW p \in Grant, NEW c \in Grant,
         NEW call \in ToolCall, NEW now \in Int,
         Covers(p, c), IsLive(c, now), GrantAdmits(c, call)
  PROVE  IsLive(p, now) /\ GrantAdmits(p, call)
<1>1. IsLive(p, now)
  BY DEF Covers, UpperBoundWithin, IsLive, Grant, Optional
<1>2. p.tool = call.tool
  BY DEF Covers, GrantAdmits
<1>3. ASSUME NEW arg \in Arg, p.constraints[arg] # None
      PROVE  Admits(p.constraints[arg], call.args[arg])
  <2>1. /\ c.constraints[arg] # None
        /\ Includes(p.constraints[arg], c.constraints[arg])
        /\ Admits(c.constraints[arg], call.args[arg])
    BY <1>3 DEF Covers, GrantAdmits
  <2>2. /\ p.constraints[arg] \in Constraint
        /\ c.constraints[arg] \in Constraint
        /\ call.args[arg] \in Optional(ArgValue)
    BY <1>3, <2>1, ConstraintOfGrant DEF ToolCall
  <2>. QED
    BY <2>1, <2>2, L1
<1>. QED
  BY <1>1, <1>2, <1>3 DEF GrantAdmits

\* A grant covers itself.
LEMMA CoversReflexive ==
  ASSUME NEW g \in Grant
  PROVE  Covers(g, g)
<1>1. UpperBoundWithin(g.expires, g.expires)
  BY DEF UpperBoundWithin, Grant, Optional
<1>2. \A arg \in Arg :
        g.constraints[arg] # None => Includes(g.constraints[arg], g.constraints[arg])
  BY ConstraintOfGrant, IncludesReflexive
<1>. QED
  BY <1>1, <1>2 DEF Covers

\* Coverage of grants composes.
LEMMA CoversTransitive ==
  ASSUME NEW a \in Grant, NEW b \in Grant,
         NEW c \in Grant,
         Covers(a, b), Covers(b, c)
  PROVE  Covers(a, c)
<1>1. a.tool = c.tool
  BY DEF Covers
<1>2. UpperBoundWithin(a.expires, c.expires)
  BY DEF Covers, UpperBoundWithin, Grant, Optional
<1>3. ASSUME NEW arg \in Arg, a.constraints[arg] # None
      PROVE  c.constraints[arg] # None /\ Includes(a.constraints[arg], c.constraints[arg])
  <2>1. b.constraints[arg] # None /\ Includes(a.constraints[arg], b.constraints[arg])
    BY <1>3 DEF Covers
  <2>2. c.constraints[arg] # None /\ Includes(b.constraints[arg], c.constraints[arg])
    BY <2>1 DEF Covers
  <2>. QED
    BY <1>3, <2>1, <2>2, ConstraintOfGrant, IncludesTransitive
<1>. QED
  BY <1>1, <1>2, <1>3 DEF Covers

-----------------------------------------------------------------------------
(* Grant sets *)

\* decide answers Allow exactly when some grant is live and admits the call.
LEMMA AllowsIffAdmitted ==
  ASSUME NEW grants \in GrantSet, NEW call \in ToolCall, NEW now \in Int
  PROVE  Allows(grants, call, now) <=>
           \E i \in DOMAIN grants : IsLive(grants[i], now) /\ GrantAdmits(grants[i], call)
<1>. DEFINE status == ToolStatus(grants, call.tool, now)
            admitting == AdmittingGrants(grants, call, now)
<1>1. admitting # {} <=>
        \E i \in DOMAIN grants : IsLive(grants[i], now) /\ GrantAdmits(grants[i], call)
  BY DEF AdmittingGrants
<1>2. admitting # {} => status = "Live"
  BY DEF AdmittingGrants, ToolStatus, GrantAdmits
<1>3. status \in {"Live", "Expired", "NotGranted"}
  BY DEF ToolStatus
<1>4. \A i : Allow(i).verdict = "Allow"
  BY DEF Allow
<1>5. \A reason : Deny(reason).verdict = "Deny"
  BY DEF Deny
<1>. HIDE DEF status, admitting
<1>6. Decide(grants, call, now) =
        IF status # "Live" THEN Deny(status)
        ELSE IF admitting = {} THEN Deny("OutOfEnvelope")
        ELSE Allow(FirstIndex(admitting))
  BY DEF Decide, status, admitting
<1>7. CASE admitting # {}
  <2>1. Decide(grants, call, now) = Allow(FirstIndex(admitting))
    BY <1>2, <1>6, <1>7
  <2>. QED
    BY <1>1, <1>4, <1>7, <2>1 DEF Allows
<1>8. CASE admitting = {}
  <2>1. \E reason : Decide(grants, call, now) = Deny(reason)
    BY <1>3, <1>6, <1>8
  <2>. QED
    BY <1>1, <1>5, <1>8, <2>1 DEF Allows
<1>. QED
  BY <1>7, <1>8

\* INV-1: a child accepted by attenuates is allowed nothing its parent is not.
THEOREM INV1 ==
  ASSUME NEW parent \in GrantSet, NEW child \in GrantSet,
         NEW call \in ToolCall, NEW now \in Int,
         Attenuates(parent, child), Allows(child, call, now)
  PROVE  Allows(parent, call, now)
<1>1. PICK i \in DOMAIN child : IsLive(child[i], now) /\ GrantAdmits(child[i], call)
  BY AllowsIffAdmitted
<1>2. PICK j \in DOMAIN parent : Covers(parent[j], child[i])
  BY DEF Attenuates
<1>3. parent[j] \in Grant /\ child[i] \in Grant
  BY DEF GrantSet
<1>4. IsLive(parent[j], now) /\ GrantAdmits(parent[j], call)
  BY <1>1, <1>2, <1>3, L2
<1>. QED
  BY <1>4, AllowsIffAdmitted

\* INV-1b: a child accepted by attenuates sees no tool its parent does not see.
THEOREM INV1b ==
  ASSUME NEW parent \in GrantSet, NEW child \in GrantSet, NEW now \in Int,
         Attenuates(parent, child)
  PROVE  GrantedTools(child, now) \subseteq GrantedTools(parent, now)
<1>1. ASSUME NEW i \in DOMAIN child, IsLive(child[i], now)
      PROVE  child[i].tool \in GrantedTools(parent, now)
  <2>1. PICK j \in DOMAIN parent : Covers(parent[j], child[i])
    BY DEF Attenuates
  <2>2. parent[j] \in Grant /\ child[i] \in Grant
    BY DEF GrantSet
  <2>3. parent[j].tool = child[i].tool /\ IsLive(parent[j], now)
    BY <1>1, <2>1, <2>2 DEF Covers, UpperBoundWithin, IsLive, Grant, Optional
  <2>. QED
    BY <2>3 DEF GrantedTools
<1>. QED
  BY <1>1 DEF GrantedTools

\* INV-2: decide answers NotGranted to the calls on tools that no grant names and to no
\* others, such a tool is not listed, and so the empty grant set allows and shows nothing.
THEOREM INV2 ==
  ASSUME NEW grants \in GrantSet, NEW call \in ToolCall, NEW now \in Int
  PROVE  /\ Decide(grants, call, now) = Deny("NotGranted") <=>
              \A i \in DOMAIN grants : grants[i].tool # call.tool
         /\ Decide(grants, call, now) = Deny("NotGranted") =>
              ~Allows(grants, call, now) /\ call.tool \notin GrantedTools(grants, now)
         /\ ~Allows(<<>>, call, now) /\ GrantedTools(<<>>, now) = {}
<1>. DEFINE named == \E i \in DOMAIN grants : grants[i].tool = call.tool
            status == ToolStatus(grants, call.tool, now)
            admitting == AdmittingGrants(grants, call, now)
<1>1. status = "NotGranted" <=> ~named
  BY DEF ToolStatus
<1>2. /\ \A reason : Deny(reason).verdict = "Deny" /\ Deny(reason).reason = reason
      /\ \A i : Allow(i).verdict = "Allow"
  BY DEF Allow, Deny
<1>3. \/ status # "Live" /\ Decide(grants, call, now) = Deny(status)
      \/ status = "Live" /\ Decide(grants, call, now) = Deny("OutOfEnvelope")
      \/ status = "Live" /\ Decide(grants, call, now) = Allow(FirstIndex(admitting))
  BY DEF Decide
<1>. HIDE DEF status, admitting
<1>4. Decide(grants, call, now) = Deny("NotGranted") <=> status = "NotGranted"
  BY <1>2, <1>3
<1>5. ~named => call.tool \notin GrantedTools(grants, now)
  BY DEF GrantedTools
<1>6. Decide(grants, call, now) = Deny("NotGranted") => ~Allows(grants, call, now)
  BY <1>2 DEF Allows
<1>7. Decide(<<>>, call, now) = Deny("NotGranted") /\ GrantedTools(<<>>, now) = {}
  BY DEF Decide, ToolStatus, GrantedTools
<1>8. ~Allows(<<>>, call, now)
  BY <1>2, <1>7 DEF Allows
<1>. QED
  BY <1>1, <1>4, <1>5, <1>6, <1>7, <1>8

\* INV-3: a tool is listed exactly when it is Live, and exactly when decide's
\* answer to a call on it is neither NotGranted nor Expired.
THEOREM INV3 ==
  ASSUME NEW grants \in GrantSet, NEW call \in ToolCall, NEW now \in Int
  PROVE  /\ call.tool \in GrantedTools(grants, now) <=>
              ToolStatus(grants, call.tool, now) = "Live"
         /\ call.tool \in GrantedTools(grants, now) <=>
              Decide(grants, call, now) \notin {Deny("NotGranted"), Deny("Expired")}
<1>. DEFINE status == ToolStatus(grants, call.tool, now)
            admitting == AdmittingGrants(grants, call, now)
<1>1. call.tool \in GrantedTools(grants, now) <=> status = "Live"
  BY DEF GrantedTools, ToolStatus
<1>2. status \in {"Live", "Expired", "NotGranted"}
  BY DEF ToolStatus
<1>3. \A i : Allow(i) \notin {Deny("NotGranted"), Deny("Expired")}
  <2>. SUFFICES ASSUME NEW i, NEW reason PROVE Allow(i) # Deny(reason)
    OBVIOUS
  <2>1. Allow(i).verdict = "Allow" /\ Deny(reason).verdict = "Deny"
    BY DEF Allow, Deny
  <2>. QED
    BY <2>1
<1>4. Deny("OutOfEnvelope") \notin {Deny("NotGranted"), Deny("Expired")}
  <2>1. \A reason : Deny(reason).reason = reason
    BY DEF Deny
  <2>. QED
    BY <2>1
<1>. HIDE DEF status, admitting
<1>5. Decide(grants, call, now) =
        IF status # "Live" THEN Deny(status)
        ELSE IF admitting = {} THEN Deny("OutOfEnvelope")
        ELSE Allow(FirstIndex(admitting))
  BY DEF Decide, status, admitting
<1>6. status = "Live" <=> Decide(grants, call, now) \notin {Deny("NotGranted"), Deny("Expired")}
  <2>1. CASE status = "Live" /\ admitting # {}
    BY <1>3, <1>5, <2>1
  <2>2. CASE status = "Live" /\ admitting = {}
    BY <1>4, <1>5, <2>2
  <2>3. CASE status # "Live"
    BY <1>2, <1>5, <2>3
  <2>. QED
    BY <2>1, <2>2, <2>3
<1>. QED
  BY <1>1, <1>6 DEF status

\* INV-5, first half: delegating one's own grants is legal.
THEOREM INV5Reflexive ==
  ASSUME NEW grants \in GrantSet
  PROVE  Attenuates(grants, grants)
<1>1. \A i \in DOMAIN grants : grants[i] \in Grant
  BY DEF GrantSet
<1>. QED
  BY <1>1, CoversReflexive DEF Attenuates

\* INV-5, second half: delegations compose.
THEOREM INV5Transitive ==
  ASSUME NEW a \in GrantSet, NEW b \in GrantSet, NEW c \in GrantSet,
         Attenuates(a, b), Attenuates(b, c)
  PROVE  Attenuates(a, c)
<1>1. ASSUME NEW i \in DOMAIN c
      PROVE  \E j \in DOMAIN a : Covers(a[j], c[i])
  <2>1. PICK k \in DOMAIN b : Covers(b[k], c[i])
    BY DEF Attenuates
  <2>2. PICK j \in DOMAIN a : Covers(a[j], b[k])
    BY DEF Attenuates
  <2>3. /\ a[j] \in Grant
        /\ b[k] \in Grant
        /\ c[i] \in Grant
    BY DEF GrantSet
  <2>. QED
    BY <2>1, <2>2, <2>3, CoversTransitive
<1>. QED
  BY <1>1 DEF Attenuates

\* INV-6: adding a grant to the parent, dropping one from the child or replacing
\* one of the child's by a grant it covers keeps the delegation acceptable.
THEOREM INV6 ==
  ASSUME NEW parent \in GrantSet, NEW child \in GrantSet,
         NEW wider \in GrantSet, NEW narrower \in GrantSet,
         Attenuates(parent, child),
         \A j \in DOMAIN parent : \E k \in DOMAIN wider : wider[k] = parent[j],
         \A i \in DOMAIN narrower : \E k \in DOMAIN child : Covers(child[k], narrower[i])
  PROVE  Attenuates(wider, narrower)
<1>1. Attenuates(wider, parent)
  <2>1. \A j \in DOMAIN parent : Covers(parent[j], parent[j])
    BY CoversReflexive DEF GrantSet
  <2>. QED
    BY <2>1 DEF Attenuates
<1>2. Attenuates(child, narrower)
  BY DEF Attenuates
<1>. QED
  BY <1>1, <1>2, INV5Transitive

=============================================================================
