------------------------------ MODULE MCBridge ------------------------------
(* Small instances of Bridge. *)
EXTENDS Bridge

CONSTANTS a, b, s, S, A, B, C

MCNames  == [p \in Peer |-> CASE p = a -> A [] p = b -> B [] OTHER -> C]

\* a port restricted, b symmetric: they need a relay (2 + 3); s is a seed.
RelayNATs == [p \in Peer |-> CASE p = a -> 2 [] p = b -> 3 [] OTHER -> 0]
\* a full cone, b and s port restricted: direct connections, b connects.
DirectNATs == [p \in Peer |-> IF p = a THEN 0 ELSE 2]
\* b port restricted, the others full cones: b is the one to connect.
CrossNATs == [p \in Peer |-> IF p = b THEN 2 ELSE 0]

None == [p \in Node |-> 0]
OnceFor(P) == [p \in Node |-> IF p \in P THEN 1 ELSE 0]
AandS == OnceFor({a, s})
OnlyA == OnceFor({a})
AandServer == OnceFor({a, S})
BandServer == OnceFor({b, S})
=============================================================================
