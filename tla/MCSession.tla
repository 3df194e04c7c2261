----------------------------- MODULE MCSession -----------------------------
(* Instances of Session for TLC. *)
EXTENDS Session

CONSTANTS alice, bob, lobby, den, a1, a2, a3, b1

\* Alice may open a second connection, bob has one.
MCUserOf == [c \in Conns |-> IF c = b1 THEN bob ELSE alice]
\* No media, and whoever changes a flag mutes.
MCNoAddrs == [u \in Users |-> {}]
MCFlags == {[muted |-> TRUE, deafened |-> FALSE]}

============================================================================
