------------------------------ MODULE PeerSet ------------------------------
(***************************************************************************)
(* What the server's registry promises: a name is registered once, is      *)
(* found exactly while its peer is there, and the name of the registry's   *)
(* own root is found always.                                               *)
(***************************************************************************)
CONSTANTS Name, \* the names, the root's among them
          Root, NoPeer

VARIABLES peers,  \* the names registered
          answer  \* what was found last

Found(n) == IF n \in peers \cup {Root} THEN n ELSE NoPeer

Init == peers = {} /\ answer = NoPeer

Register(n) == answer' = Found(n) /\ peers' = peers \cup ({n} \ {Root})
Find(n)     == answer' = Found(n) /\ UNCHANGED peers
Leave(n)    == n \in peers /\ peers' = peers \ {n} /\ UNCHANGED answer

Next == \E n \in Name : Register(n) \/ Find(n) \/ Leave(n)

Spec == Init /\ [][Next]_<<peers, answer>>
=============================================================================
