-------------------------- MODULE DelegationProofs --------------------------
(***************************************************************************)
(* What flavium-core's invariants add up to for an agent tree of any depth *)
(* over any universe of grants: the root's envelope bounds every agent.    *)
(***************************************************************************)
EXTENDS Delegation, GrantsProofs

\* The members of the chain are grant sets of the universe.
THEOREM TypeCorrect == ChainSpec => []ChainTypeOK
<1>1. ChainInit => ChainTypeOK
  BY DEF ChainInit, ChainTypeOK
<1>2. ChainTypeOK /\ [Delegate]_chainVars => ChainTypeOK'
  BY DEF ChainTypeOK, Delegate, chainVars
<1>. QED
  BY <1>1, <1>2, PTL DEF ChainSpec

\* AttenuatesRoot holds after any number of delegations.
THEOREM ChainAttenuatesRoot == ChainSpec => []AttenuatesRoot
<1>1. ChainInit => AttenuatesRoot
  BY INV5Reflexive, DelegationAssumption DEF ChainInit, AttenuatesRoot
<1>2. ChainTypeOK /\ AttenuatesRoot /\ [Delegate]_chainVars => AttenuatesRoot'
  <2>. SUFFICES ASSUME ChainTypeOK, AttenuatesRoot, [Delegate]_chainVars PROVE AttenuatesRoot'
    OBVIOUS
  <2>1. CASE Delegate
    <3>1. PICK child \in GrantSets : Attenuates(held, child) /\ held' = child
      BY <2>1 DEF Delegate
    <3>2. Attenuates(root, child)
      BY <3>1, INV5Transitive, DelegationAssumption DEF ChainTypeOK, AttenuatesRoot
    <3>. QED
      BY <2>1, <3>1, <3>2 DEF Delegate, AttenuatesRoot
  <2>2. CASE UNCHANGED chainVars
    BY <2>2 DEF chainVars, AttenuatesRoot
  <2>. QED
    BY <2>1, <2>2
<1>. QED
  BY <1>1, <1>2, TypeCorrect, PTL DEF ChainSpec

\* No agent of the tree is ever allowed what its root is denied.
THEOREM TreeBoundedByRoot == ChainSpec => []RootBoundsAuthority
<1>1. ChainTypeOK /\ AttenuatesRoot => RootBoundsAuthority
  BY INV1, DelegationAssumption DEF ChainTypeOK, AttenuatesRoot, RootBoundsAuthority
<1>. QED
  BY <1>1, TypeCorrect, ChainAttenuatesRoot, PTL

\* No agent of the tree ever sees a tool its root does not see.
THEOREM TreeSeesOnlyRootTools == ChainSpec => []RootBoundsVisibility
<1>1. ChainTypeOK /\ AttenuatesRoot => RootBoundsVisibility
  BY INV1b, DelegationAssumption DEF ChainTypeOK, AttenuatesRoot, RootBoundsVisibility
<1>. QED
  BY <1>1, TypeCorrect, ChainAttenuatesRoot, PTL

\* The tool list, the tool's status and the decision agree for every agent.
THEOREM ListAndDecisionAgree == ChainSpec => []ListAgreesWithDecision
<1>1. ChainTypeOK => ListAgreesWithDecision
  BY INV3, DelegationAssumption DEF ChainTypeOK, ListAgreesWithDecision
<1>. QED
  BY <1>1, TypeCorrect, PTL

\* What is allowed later was allowed before, for every agent.
THEOREM AuthorityOnlyLapses == ChainSpec => []TimeOnlyNarrows
<1>1. ChainTypeOK => TimeOnlyNarrows
  <2>. SUFFICES ASSUME ChainTypeOK, NEW call \in ToolCalls, NEW now \in Times, NEW later \in Times,
                       now <= later, Allows(held, call, later)
                PROVE  Allows(held, call, now)
    BY DEF TimeOnlyNarrows
  <2>1. held \in GrantSet /\ call \in ToolCall /\ now \in Int /\ later \in Int
    BY DelegationAssumption DEF ChainTypeOK
  <2>2. PICK i \in DOMAIN held : IsLive(held[i], later) /\ GrantAdmits(held[i], call)
    BY <2>1, AllowsIffAdmitted
  <2>3. held[i] \in Grant
    BY <2>1 DEF GrantSet
  <2>4. IsLive(held[i], now)
    BY <2>1, <2>2, <2>3 DEF IsLive, Grant, Optional
  <2>. QED
    BY <2>1, <2>2, <2>4, AllowsIffAdmitted
<1>. QED
  BY <1>1, TypeCorrect, PTL

=============================================================================
