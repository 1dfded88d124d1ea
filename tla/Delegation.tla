----------------------------- MODULE Delegation -----------------------------
(***************************************************************************)
(* A chain of delegations: an agent that holds a grant set spawns another  *)
(* with a grant set of its own choosing, and attenuates is the check that  *)
(* accepts or refuses it.  A tree of agents is a set of such chains from   *)
(* one root, so what holds of every chain holds of the tree.               *)
(*                                                                         *)
(* The spawning itself is later work of the repository; the state here is  *)
(* what flavium-core/src/lib.rs states its invariants about: the root's    *)
(* grants and those of one descendant.                                     *)
(***************************************************************************)
EXTENDS Grants

CONSTANTS GrantSets,  \* the grant sets an agent may be handed
          ToolCalls,  \* the tool calls an agent may make
          Times       \* the clock readings at which it is judged

ASSUME DelegationAssumption ==
  /\ GrantSets \subseteq GrantSet
  /\ ToolCalls \subseteq ToolCall
  /\ Times \subseteq Int

VARIABLES root,  \* the grants at the top of the chain
          held   \* the grants of the agent now at its end

chainVars == <<root, held>>

ChainInit ==
  /\ root \in GrantSets
  /\ held = root

\* The agent at the end of the chain spawns a child with any grants its own cover.
Delegate ==
  /\ \E child \in GrantSets : Attenuates(held, child) /\ held' = child
  /\ UNCHANGED root

ChainSpec == ChainInit /\ [][Delegate]_chainVars

-----------------------------------------------------------------------------
(* Properties *)

\* The root and the end of the chain are grant sets.
ChainTypeOK == root \in GrantSets /\ held \in GrantSets

\* INV-5: however long the chain, its end would have been accepted as a direct
\* child of the root (Grant::covers and Constraint::includes compose).
AttenuatesRoot == Attenuates(root, held)

\* INV-1 for the whole tree: no descendant is ever allowed a call that the root
\* is denied at the same time (decide against attenuates).
RootBoundsAuthority ==
  \A call \in ToolCalls, now \in Times : Allows(held, call, now) => Allows(root, call, now)

\* INV-1b for the whole tree: no descendant ever sees a tool the root does not
\* see (granted_tools against attenuates).
RootBoundsVisibility ==
  \A now \in Times : GrantedTools(held, now) \subseteq GrantedTools(root, now)

\* INV-3: the list of tools, the status of a tool and the reasons decide gives
\* are three views of one fact, for every call on the tool.
ListAgreesWithDecision ==
  \A call \in ToolCalls, now \in Times :
    /\ call.tool \in GrantedTools(held, now) <=> ToolStatus(held, call.tool, now) = "Live"
    /\ call.tool \in GrantedTools(held, now) <=>
         Decide(held, call, now) \notin {Deny("NotGranted"), Deny("Expired")}

\* Time only takes authority away: what is allowed later was allowed before
\* (is_live compares the clock with one expiry, and no grant starts late).
TimeOnlyNarrows ==
  \A call \in ToolCalls, now, later \in Times :
    now <= later /\ Allows(held, call, later) => Allows(held, call, now)

=============================================================================
