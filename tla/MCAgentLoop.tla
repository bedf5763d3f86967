---- MODULE MCAgentLoop ----
EXTENDS AgentLoop
CONSTANTS r, w, v, read, write
Tools == (r :> read) @@ (w :> write) @@ (v :> write)
====
