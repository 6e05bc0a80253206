----------------------------- MODULE MCBoxLife -----------------------------
EXTENDS BoxLife

CONSTANTS u1, u2, d1, d2, t1, a1, a2, user, jail

AllUser == [x \in Up \union Down |-> user]

\* u1 is the user's own; u2 and the down are called from one jail.
Mixed == [x \in Up \union Down |-> IF x = u1 THEN user ELSE jail]

\* Every command of one session, with one agent.
OneAgent == [x \in Up \union Cmd |-> a2]

\* The first up of the session ran for an agent that a resumed one replaced.
Resumed == [x \in Up \union Cmd |-> IF x = u1 THEN a1 ELSE a2]
=============================================================================
