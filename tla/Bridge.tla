------------------------------- MODULE Bridge -------------------------------
(***************************************************************************)
(* The BDG server and the clients together, over the network: how two      *)
(* peers behind NATs, or two peers and a seed that relays for them, are    *)
(* brought together.                                                       *)
(***************************************************************************)
EXTENDS BdgServer, BdgClient

CONSTANTS AlreadyUp,  \* peers that have registered when the behaviour begins
          MaxCommands, MaxTogether \* bounds: how many things happen in a behaviour

ASSUME BridgeAssumption ==
  /\ {MaxCommands, MaxTogether, MaxDups} \subseteq Nat /\ IsFiniteSet(Peer)
  /\ 0..MaxRelayID \subseteq RelayIDs
  /\ AlreadyUp \subseteq Peer
  /\ \A p, q \in AlreadyUp : NameOf[p] = NameOf[q] => p = q

vars == <<wire, server, client>>

Up(p) == [StartCli(p) EXCEPT !.step = "Wait", !.connected = TRUE, !.first = FALSE]

UpSub(p) == At(NewSub(p), "RequireServer")

\* Every program just started, and those of AlreadyUp registered and waiting.
Init ==
  /\ net = {} /\ dups = 0
  /\ sub = [n \in Name |-> IF \E p \in AlreadyUp : NameOf[p] = n
                           THEN UpSub(CHOOSE p \in AlreadyUp : NameOf[p] = n) ELSE NoSub]
  /\ seeds = SetToSeq({[name |-> NameOf[p], relays |-> 0] :
                         p \in {p \in AlreadyUp : NATOf[p] \in {0, 1}}})
  /\ accRelayID = 1
  /\ decided = {} /\ bridged = {}
  /\ cli = [p \in Node |-> IF p \in AlreadyUp THEN Up(p) ELSE StartCli(p)]
  /\ relays = [p \in Node |-> <<>>] /\ nrelays = [p \in Node |-> 0]
  /\ used = [p \in Node |-> [connects |-> 0, directs |-> 0, overwrites |-> 0, restarts |-> 0]]
  /\ met = {} /\ directs = {}

\* bounds: of commands, and of overwritten names, restarts and duplicates.
Uses(kinds) == Cardinality({x \in Node \X kinds : used[x[1]][x[2]] > 0})
MayCommand  == Uses({"connects", "directs"}) < MaxCommands
MayFail     == dups + Uses({"overwrites", "restarts"}) < MaxTogether

SubAddrs == {sub[n].a : n \in Registered}

ServerStep ==
  /\ ServerHears \/ \E n \in Name : SubPolled(n)
  /\ UNCHANGED client

ClientStep(p) ==
  /\ \/ CliHears(p) \/ CliPolled(p)
     \/ \E i \in DOMAIN relays[p] : RelayEnds(p, i)
     \/ \E n \in Typed : (Connect(p, n) /\ MayCommand) \/ (Overwrite(p, n) /\ MayFail)
     \/ \E q \in Node : Direct(p, q, SubAddrs) /\ MayCommand
  /\ UNCHANGED server

\* A program is stopped, or dies, and is started again with the same address.
Restart(p) ==
  /\ used[p].restarts < MaxRestarts[p] /\ MayFail
  /\ CliRestart(p)
  /\ IF p = Server THEN ServerForgets ELSE UNCHANGED server

\* BridgeMain at LAST_TIME: a message to keep the NAT open, REDO; NORMAL polls.
KeepAlive == UNCHANGED vars

Next ==
  \/ ServerStep /\ (dups' > dups => MayFail)
  \/ \E p \in Node : (ClientStep(p) /\ (dups' > dups => MayFail)) \/ Restart(p)
  \/ KeepAlive

Spec == Init /\ [][Next]_vars

\* Main loops and clocks go on everywhere; the network owes nothing.
Fairness ==
  /\ \A n \in Name : WF_vars(SubPolled(n) /\ UNCHANGED client)
  /\ \A p \in Node : WF_vars(CliPolled(p) /\ UNCHANGED server)

FairSpec == Spec /\ Fairness

------------------------------------------------------------------------------
(* Properties. *)

TypeOK ==
  /\ dups \in 0..MaxDups
  /\ \A m \in net : m.from \in Node /\ m.to \in Node
  /\ \A n \in Registered :
       /\ sub[n].step \in SubStep /\ sub[n].retrys \in 0..SubRetrys /\ sub[n].first \in BOOLEAN
       /\ sub[n].a \in Peer /\ sub[n].b \in Peer \cup {NoAddr} /\ sub[n].s \in Peer \cup {NoAddr}
       /\ sub[n].pun \in Peer \cup {NoAddr} /\ sub[n].con \in Peer \cup {NoAddr}
       /\ sub[n].flag \in Flag /\ sub[n].err \in SubErr /\ sub[n].rid \in 0..MaxRelayID
  /\ accRelayID \in 1..MaxRelayID
  /\ \A p \in Node :
       /\ cli[p].step \in CliStep /\ cli[p].retrys \in 0..Retrys(cli[p].step)
       /\ cli[p].first \in BOOLEAN /\ cli[p].connected \in BOOLEAN /\ cli[p].fast \in BOOLEAN
       /\ cli[p].target \in Name \cup {NoName} /\ cli[p].direct \in Addr
       /\ cli[p].sx \in Addr /\ cli[p].b \in Addr /\ cli[p].to \in Addr
       /\ cli[p].rid \in RelayIDs
       /\ nrelays[p] \in 0..(UintSize - 1)

\* The decisions that have sides x and y connect to each other.
Joins(d, x, y) ==
  IF d[3] = NoAddr THEN {x, y} = {d[1], d[2]}
  ELSE {x, y} \in {{d[1], d[3]}, {d[2], d[3]}}

Introduced(x, y) ==
  \/ \E d \in decided : Joins(d, x, y)
  \/ <<x, y>> \in directs \/ <<y, x>> \in directs

\* Nobody is connected to a stranger: a session, or a relay, is only ever
\* started with a node the server has decided to connect to this one, or one
\* of the two was told to connect the other directly.
OnlyIntroduced ==
  /\ \A pq \in met : Introduced(pq[1], pq[2])
  /\ \A p \in Node : \A i \in DOMAIN relays[p] :
       \A q \in {relays[p][i].peer0, relays[p][i].peer1} \ {NoAddr} : Introduced(p, q)

\* BdgClientConnectRequire copies the target name in its first poll: it is
\* never entered without one, not by GO_ON at LAST_TIME of the wait step either.
TargetNamed == \A p \in Node : cli[p].step = "Require" => cli[p].target # NoName

\* SeedPeerSelectOne never hands out a deleted peer: the seed list holds, once
\* each, registered peers that others can reach.
SeedsAlive ==
  /\ \A i \in DOMAIN seeds : seeds[i].name \in Registered
                             /\ NATOf[sub[seeds[i].name].a] \in {0, 1}
  /\ \A i, j \in DOMAIN seeds : seeds[i].name = seeds[j].name => i = j

\* When the server reports a connection as bridged, the side that was to
\* connect has started the session: with the other peer, or both with the seed.
BridgedMeansMet ==
  \A d \in bridged :
    IF d[3] = NoAddr THEN <<d[1], d[2]>> \in met \/ <<d[2], d[1]>> \in met
    ELSE <<d[1], d[3]>> \in met /\ <<d[2], d[3]>> \in met

\* A peer that has gone gives its name back: the sub server of a client that
\* does not run ends by itself, whatever step it is in.
NameReleased ==
  \A p \in Peer : cli[p].step = "Ended" ~> NameOf[p] \notin Registered \/ cli[p].step # "Ended"

\* A client that left its wait step comes back to it or ends.
ClientReturns ==
  \A p \in Node : cli[p].step \notin {"Wait", "Ended"} ~> cli[p].step \in {"Wait", "Ended"}

\* A sub server that took a request on is ready for the next one in the end.
SubReturns ==
  \A n \in Name : n \in Registered ~>
     (n \notin Registered \/ sub[n].step = "RequireServer")
=============================================================================
