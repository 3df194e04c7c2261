------------------------------- MODULE MCHub -------------------------------
(* Instances of Hub for TLC. *)
EXTENDS Hub, TLC

CONSTANTS alice, bob, carol, lobby, den, a1, b1, c1

\* One address each.
Home == (alice :> a1) @@ (bob :> b1) @@ (carol :> c1)
MCFixed == [u \in Users |-> {Home[u]}]

\* Flags left alone.
Unmuted == {[muted |-> FALSE, deafened |-> FALSE]}

\* Accounts are interchangeable together with their address.
Moved(p) == [x \in Users \cup Addrs |->
    IF x \in Users THEN p[x]
                   ELSE Home[p[CHOOSE u \in Users : Home[u] = x]]]
Tenants == {Moved(p) @@ q : p \in Permutations(Users), q \in Permutations(Channels)}

============================================================================
