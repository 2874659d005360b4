------------------------------- MODULE BdgMsg -------------------------------
(***************************************************************************)
(* The bridge messages (bdgmsg.h) and the network under them: UDP.         *)
(*                                                                         *)
(* A message sent is lost at once or goes into net, from where it is       *)
(* delivered whenever it likes (late, out of order, never), and up to      *)
(* MaxDups times in a behaviour it is delivered once more.  A node that    *)
(* reads a message in a step that has no use for it drops it, which is the *)
(* same as losing it.  An address is the node that owns it: NATs that give *)
(* a peer another address for every destination are not modelled, a NAT    *)
(* that lets nothing through is a loss.                                    *)
(***************************************************************************)
EXTENDS Integers, FiniteSets, Sequences

CONSTANTS Peer, Server,   \* the nodes: clients, and the BDG server they use
          NoAddr,         \* an address with port 0
          Name, NoName,   \* the NameIDs, and the null pointer
          NameOf,         \* NameOf[p]: the name peer p is configured with
          NATOf,          \* NATOf[p]: its NAT type, NAT_T_FULL_CONE = 0 .. NAT_T_UNKNOWN = 4
          MaxNet,         \* bound: messages on their way at one time
          MaxDups         \* bound: deliveries that leave the message in the network

Node == Peer \cup {Server}
Addr == Node \cup {NoAddr}

ASSUME BdgMsgAssumption ==
  /\ Server \notin Peer /\ NoAddr \notin Peer \cup {Server}
  /\ NoName \notin Name
  /\ NameOf \in [Peer -> Name] /\ NATOf \in [Peer -> 0..4]

VARIABLES net,   \* the messages on their way
          dups   \* how much of MaxDups is used

wire == <<net, dups>>

\* A BridgeMsg with the fields its receiver reads; the others are not set.
Plain(i, from, to)            == [info |-> i, from |-> from, to |-> to]
RegisterMsg(from, to, n, nat) == [info |-> "REGISTER", from |-> from, to |-> to,
                                  name |-> n, nat |-> nat]
WaitingMsg(from, to, relays)  == [info |-> "WAITING", from |-> from, to |-> to,
                                  relays |-> relays]
ConnectMsg(from, to, n)       == [info |-> "CONNECT", from |-> from, to |-> to, name |-> n]
PunchingMsg(from, to, addr)   == [info |-> "PUNCHING", from |-> from, to |-> to,
                                  addr |-> addr]
ConnectAddrMsg(from, to, addr, rid) ==
  [info |-> "CONNECT_ADDR", from |-> from, to |-> to, addr |-> addr, rid |-> rid]
HelloMsg(from, to, rid)       == [info |-> "HELLO", from |-> from, to |-> to, rid |-> rid]

\* What the network may hold after the messages S were sent into N.
Lossy(N, S) == {N \cup T : T \in {T \in SUBSET S : Cardinality(N \cup T) <= MaxNet}}

\* BdgMsgWrite of the messages S by a step that read no message.
Write(S) == net' \in Lossy(net, S) /\ UNCHANGED dups

\* A step reads m and writes S.
ReadWrite(m, S) ==
  \/ net' \in Lossy(net \ {m}, S) /\ UNCHANGED dups
  \/ /\ dups < MaxDups /\ dups' = dups + 1
     /\ net' \in Lossy(net, S)

\* The messages for node q that carry one of the given infos.
Mail(q, infos) == {m \in net : m.to = q /\ m.info \in infos}
=============================================================================
