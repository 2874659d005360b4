----------------------------- MODULE MCStartUp -----------------------------
(* Small instances of StartUp. *)
EXTENDS StartUp

CONSTANTS sa, sb, sp, h, o \* IPs: a STUN server's two, a plain one's, a host's, this program's

At(i, n)   == [ip |-> i, port |-> n]
Line(t, a) == [type |-> t, addr |-> a]
Config(n)  == Line("CONFIG", At(h, n))

\* A STUN server listens on two ports of two IPs.
Sockets == {At(i, n) : i \in {sa, sb}, n \in {3478, 3479}}
Others  == [a \in Sockets |-> At(CHOOSE i \in {sa, sb} : i # a.ip, CHOOSE n \in {3478, 3479} : n # a.port)]
s1 == At(sa, 3478)
s2 == At(sp, 3478)
b1 == At(h, 8912)
m1 == At(h, 110)
st == At(h, 25)
me == At(o, 8912)

\* A STUN server, a mail server with another one and a bridge peer in its
\* mails, which are the program's own address, too.
Usual == <<Config(8920), Line("STUNSERVER", s1), Line("MAILSERVER", m1), Line("SMTPSERVER", st),
           Line("BRIDGEPEER", b1)>>
Mail  == m1 :> <<Line("STUNSERVER", s2), Line("BRIDGEPEER", me)>>

\* Two ports to use, one after the other.
TwoPorts == <<Config(8921), Config(8922)>>
PortsTaken == 8921..8924

\* The STUN server by its other port.
OtherPort == <<Config(8920), Line("STUNSERVER", At(sa, 3479))>>

Files     == {Usual, TwoPorts, OtherPort}
OneServer == {<<Config(8920), Line("STUNSERVER", s1)>>}
Peers     == {b1}
PlainOnes == {s2}
NoMail    == <<>>
=============================================================================
