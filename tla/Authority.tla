------------------------------- MODULE Authority -------------------------------
(***************************************************************************)
(* What decides about authority: the gate of a process, and a chain of     *)
(* delegations.  They share the grant model and nothing else, for nothing  *)
(* in the code delegates from a running gate yet.  One of the two is there *)
(* from the start: the root of the chain has nothing to hand on, or the    *)
(* file grants nothing and is refused.                                     *)
(***************************************************************************)
EXTENDS Delegation, Gate

AuthorityInit ==
  /\ ChainInit /\ Init
  /\ root = <<>> \/ Files[file].grant = <<>>

AuthorityNext ==
  \/ Delegate /\ UNCHANGED vars
  \/ Next /\ UNCHANGED chainVars

AuthoritySpec == AuthorityInit /\ [][AuthorityNext]_<<chainVars, vars>>

=============================================================================
