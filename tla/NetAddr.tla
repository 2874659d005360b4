------------------------------ MODULE NetAddr ------------------------------
(***************************************************************************)
(* struct NetAddr (netaddr.h): an IP and a port.                         *)
(***************************************************************************)
EXTENDS Naturals

CONSTANT IPs \* the IPs of hosts

PortSize == 65536 \* unsigned short
Ports   == 0..PortSize - 1
NetAddr == [ip : IPs, port : Ports]

\* No host's.
NoIP   == "0.0.0.0"
NoAddr == [ip |-> NoIP, port |-> 0]

ASSUME NetAddrAssumption == NoIP \notin IPs

SameIP(a, b) == a.ip = b.ip

\* The port n further on.
PortAfter(a, n) == [a EXCEPT !.port = (@ + n) % PortSize]
=============================================================================
