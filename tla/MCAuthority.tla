----------------------------- MODULE MCAuthority -----------------------------
(***************************************************************************)
(* Authority with the files and calls of MCGate, and a small universe of   *)
(* grants: two tools, two arguments, strings of up to two bytes, bounds    *)
(* and expiries from {1, 2}.  Every pair of constraint kinds meets as      *)
(* parent and child.                                                       *)
(***************************************************************************)
EXTENDS MCGate, Authority

LOCAL INSTANCE SequencesExt

MCByte == {"a", "b"}

Read == <<"r">>
Write == <<"w">>
Other == <<"o">>
AllTools == MCTool \cup {Read, Write, Other}

Strings == UNION {[1 .. n -> MCByte] : n \in 0 .. 2}
Bounds == {None, 1, 2}
Expiries == <<None, 1, 2>>

ConstraintPool ==
  [kind: {"Prefix", "Suffix"}, text: {<<>>, <<"a">>, <<"a", "b">>, <<"b">>}]
    \cup [kind: {"OneOf"}, set: {{}, {<<"a", "b">>}, {<<"a">>, <<"a", "b">>}}]
    \cup [kind: {"Range"}, min: Bounds, max: Bounds]
    \cup [kind: {"Absent"}]

NoArgs == Args(None, None)

GrantOf(tool, constraints, expires) ==
  [tool |-> tool, constraints |-> constraints, expires |-> expires]

\* Every constraint on one argument, alone.
SingleGrants ==
  {GrantOf(Read, Args(c, None), None) : c \in ConstraintPool}

\* Few constraints with every expiry and one more argument.
MixedGrants ==
  LET some == <<NoArgs,
                Args([kind |-> "Prefix", text |-> <<"a">>], None),
                Args([kind |-> "OneOf", set |-> {<<"a", "b">>}], None),
                Args([kind |-> "Prefix", text |-> <<"a">>], [kind |-> "Absent"])>>
      until(tool, constraints) == [i \in 1 .. 3 |-> GrantOf(tool, constraints, Expiries[i])]
  IN FlattenSeq([i \in DOMAIN some |-> until(Read, some[i])]) \o until(Write, NoArgs)

\* Two grants in one order, for attenuation does not look at it.
MCGrantSets ==
  {<<>>} \cup {<<g>> : g \in SingleGrants}
    \cup {SubSeq(MixedGrants, i, i) : i \in DOMAIN MixedGrants}
    \cup UNION {{<<MixedGrants[i], MixedGrants[j]>> : i \in 1 .. j - 1} : j \in DOMAIN MixedGrants}

MCArgValues ==
  [kind: {"Str"}, str: Strings] \cup [kind: {"Int"}, int: 0 .. 3] \cup [kind: {"Other"}]

MCToolCalls ==
  LET argMaps == {NoArgs}
                   \cup {Args(v, None) : v \in MCArgValues}
                   \cup {LET ab == [kind |-> "Str", str |-> <<"a", "b">>] IN Args(ab, ab)}
  IN {[tool |-> Read, args |-> m] : m \in argMaps}
       \cup {[tool |-> t, args |-> NoArgs] : t \in {Write, Other}}

MCTimes == 0 .. 2

=============================================================================
