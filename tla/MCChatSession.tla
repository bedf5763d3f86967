--------------------------- MODULE MCChatSession ---------------------------
EXTENDS ChatSession

CONSTANTS c1, c2, s1, s2

\* Two clients in one session, and one in each of two.
Together == {(c1 :> s1) @@ (c2 :> s1)}
Apart == {(c1 :> s1) @@ (c2 :> s2)}
Both == Together \union Apart
=============================================================================
