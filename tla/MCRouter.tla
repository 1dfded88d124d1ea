------------------------------ MODULE MCRouter ------------------------------
(***************************************************************************)
(* Small instances of Router for TLC.                                      *)
(*                                                                         *)
(* The envelope grants `read` until time 2, with the constraint that the   *)
(* argument x is absent, and `list` for ever; `post` is not granted.  The  *)
(* requests are inside, outside and beside it, and the clock reads 1 or 2. *)
(***************************************************************************)
EXTENDS Router

CONSTANTS u1, u2

MCTool == {"read", "list", "post"}
MCArg == {"x"}
MCByte == {"a"}
MCTimes == {1, 2}

AbsentX == [arg \in MCArg |-> [kind |-> "Absent"]]
NoConstraint == [arg \in MCArg |-> None]

MCEnvelope ==
  <<[tool |-> "read", constraints |-> AbsentX, expires |-> 2],
    [tool |-> "list", constraints |-> NoConstraint, expires |-> None]>>

Plain(tool) == [tool |-> tool, args |-> [arg \in MCArg |-> None]]

\* A request whose grant may have expired, one outside the envelope, one for a tool
\* that is offered but not granted, one for a tool that is granted but not offered.
GateRequests ==
  {Plain("read"),
   [tool |-> "read", args |-> [arg \in MCArg |-> [kind |-> "Int", int |-> 1]]],
   Plain("post"),
   Plain("list")}

OneRequest == {Plain("list")}

TwoUpstreams == {u1, u2}
OneUpstream == {u1}

\* Lists that never change.
FixedTable == [u \in Upstream |-> {"read", "post"}]
FixedOffers == [u \in Upstream |-> {FixedTable[u]}]

\* `list` and `post` may be dropped by one upstream and claimed by the other.
MovingTable == [u \in Upstream |-> IF u = u1 THEN {"list"} ELSE {}]
MovingOffers == [u \in Upstream |-> {{}, {"list"}}]
PostMovesTable == [u \in Upstream |-> IF u = u1 THEN {"post"} ELSE {}]
PostMovesOffers == [u \in Upstream |-> {{}, {"post"}, {"list"}}]
=============================================================================
