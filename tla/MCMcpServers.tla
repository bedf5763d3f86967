---------------------------- MODULE MCMcpServers ----------------------------
(* Instances of McpServers for TLC. *)
EXTENDS McpServers, TLC

CONSTANTS m1, m2, h1, b1, b2, c1, c2, k1, k2, k3, k4

OfNone == [c \in Calls |-> b1]
OfTwo == c1 :> b1 @@ c2 :> b1

\* The first session copies all servers, the second has a skill that requires one.
AllServers == [b \in Bridges |-> {}]
OneRequired == b1 :> {} @@ b2 :> {m1}

\* Two sessions and a tool call, or two calls of one session.
TwoCrews ==
    {[agents |-> {h1, b1, b2, c1}, budget |-> 4], [agents |-> {h1, b1, c1, c2}, budget |-> 5]}
OneSession == {[agents |-> Agents, budget |-> Budget]}
=============================================================================
