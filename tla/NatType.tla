------------------------------ MODULE NatType ------------------------------
(***************************************************************************)
(* How a peer learns the type of its NAT from a STUN server (nattype.c,    *)
(* stun.c), and whether a bridge peer is there (BdgClientTryBdgServer):    *)
(* one process at a time on the main socket.  Its steps read whatever      *)
(* datagram has come, also a late one, and do not tell to which request it *)
(* belongs.                                                                *)
(*                                                                         *)
(* The NAT and the servers are external.  A server has two IPs and two     *)
(* ports on each, and a key may name any of the four addresses.  The NAT   *)
(* remembers where was sent to (punched).                                  *)
(***************************************************************************)
EXTENDS NetAddr, Sequences, FiniteSets

CONSTANTS
  Servers,   \* the addresses of STUN servers
  Changed,   \* of each, its server's that has another IP and another port
  Plain,     \* those of servers with one, that refuse change requests
  Answering, \* those of bridge peers that answer
  NATs,      \* the NATs the program may be behind
  Retries,   \* g_WaitLevel[2]
  XorMapped, \* replies give the address XORed with the cookie of their request
  MaxLoss,   \* bound: replies lost
  MaxLate    \* bound: steps and waits that end while a reply is still on its way

NatKind == {"FULL_CONE", "RESTRICTED", "PORT_RESTRICTED", "SYMMETRIC"}

ASSUME NatTypeAssumption ==
  /\ Servers \cup Plain \cup Answering \subseteq NetAddr
  /\ Changed \in [Servers -> Servers]
  /\ \A a \in Servers : /\ Changed[a].ip # a.ip /\ Changed[a].port # a.port
                        /\ [a EXCEPT !.port = Changed[a].port] \in Servers
  /\ NATs \subseteq NatKind
  /\ Retries \in Nat /\ MaxLoss \in Nat /\ MaxLate \in Nat /\ XorMapped \in BOOLEAN

STUN_DEFAULT_PORT == 3478
STUNs == Servers \cup Plain

\* The public port the NAT shows to a destination: one, or one each.
Map(nat, dest) == IF nat = "SYMMETRIC" THEN <<dest>> ELSE <<>>
Garbled == <<NoAddr>>

StunStep == <<"BindingRequest", "ChangeIPAndPort", "BindingRequestToAnotherServer", "ChangePort">>
Steps    == {StunStep[i] : i \in 1..4} \cup {"TryBdgServer"}

VARIABLES
  nat,     \* the NAT
  punched, \* where the program has sent to
  air,     \* replies on their way
  lost, late, \* how often a reply was, so far
  proc     \* the process: step, retries, first poll, server, what it learnt

net == <<nat, punched, air, lost, late>>

NoProc == [step |-> "none", retrys |-> 0, first |-> FALSE, host |-> NoAddr,
           map |-> <<>>, change |-> NoAddr, res |-> "UNKNOWN"]
Reply  == [kind : {"stun", "iam", "err"}, from : NetAddr, map : Seq(NetAddr),
           change : NetAddr \cup {NoAddr}, current : BOOLEAN]

NetTypeOK ==
  /\ nat \in NATs /\ punched \subseteq NetAddr /\ air \subseteq Reply
  /\ lost \in 0..MaxLoss /\ late \in 0..MaxLate
  /\ proc.step \in Steps \cup {"none"} /\ proc.retrys \in 0..Retries
  /\ proc.res \in NatKind \cup {"UNKNOWN", "HERE"}

------------------------------------------------------------------------------
(* The servers and the NAT.                                                *)

\* What is asked for: a STUN reply from the address asked, from another port or
\* from another IP and port, or a bridge peer's.
Answer(dest, asked) ==
  LET r == [kind |-> "stun", from |-> dest, map |-> Map(nat, dest),
            change |-> IF dest \in Servers THEN Changed[dest] ELSE NoAddr, current |-> TRUE]
  IN  CASE asked = "hello" /\ dest \in Answering -> {[r EXCEPT !.kind = "iam"]}
        [] asked = "none" /\ dest \in STUNs -> {r}
        [] asked \in {"port", "both"} /\ dest \in Servers ->
             {[r EXCEPT !.from = IF asked = "both" THEN Changed[dest]
                                 ELSE [dest EXCEPT !.port = Changed[dest].port]]}
        [] asked \in {"port", "both"} /\ dest \in Plain \ Servers -> {[r EXCEPT !.kind = "err"]}
        [] OTHER -> {}

Passes(m) == \/ nat = "FULL_CONE" /\ punched # {}
             \/ nat = "RESTRICTED" /\ \E p \in punched : SameIP(p, m.from)
             \/ nat = "PORT_RESTRICTED" /\ m.from \in punched
             \/ nat = "SYMMETRIC" /\ m.from \in punched /\ m.map = <<m.from>>

Readable == {m \in air : Passes(m)}

\* A request: a new cookie, a hole, and an answer unless it is lost.
Request(heard, dest, asked) ==
  LET old == {[m EXCEPT !.current = FALSE] : m \in air \ heard}
  IN  /\ punched' = punched \cup ({dest} \cap NetAddr)
      /\ \/ air' = old \cup Answer(dest, asked) /\ UNCHANGED lost
         \/ Answer(dest, asked) # {} /\ lost < MaxLoss /\ air' = old /\ lost' = lost + 1

\* A hole closes when the program has been quiet for long.
HolesClose == punched' \in {punched, {}}

------------------------------------------------------------------------------
(* The steps: what each does with a datagram, or without.                  *)

StepAt(p, s) == [p EXCEPT !.step = s, !.retrys = Retries, !.first = TRUE]
MakeProtoStunProc(a) == StepAt([NoProc EXCEPT !.host = a], "BindingRequest")
MakeTryBdgServer(a)  == StepAt([NoProc EXCEPT !.host = a], "TryBdgServer")

StunMap(m) == IF m.current \/ ~XorMapped THEN m.map ELSE Garbled

\* Mutant of FromOther: any server.
FromOtherLoose(m) == m.from # proc.host
\* The reply to a change request has to come from another IP and port.
FromOther(m) == ~SameIP(m.from, proc.host) /\ m.from.port # proc.host.port

\* Mutant of IamHere: anybody is.
IamHereAny(m) == m.kind = "iam"
IamHere(m)    == m.kind = "iam" /\ m.from = proc.host

\* What the step that reads m returns, and the process then.
Reads(m) ==
  CASE proc.step = "BindingRequest" ->
         IF m.kind # "stun" THEN <<"GO_ON", proc>>
         ELSE <<"DONE", [proc EXCEPT !.map = StunMap(m), !.change = m.change]>>
    [] proc.step = "ChangeIPAndPort" ->
         IF m.kind = "stun" /\ FromOther(m) THEN <<"DONE", [proc EXCEPT !.res = "FULL_CONE"]>>
         ELSE <<"GO_ON", proc>>
    [] proc.step = "BindingRequestToAnotherServer" ->
         IF m.kind # "stun" \/ ~SameIP(m.from, proc.change) THEN <<"GO_ON", proc>>
         ELSE LET res == IF StunMap(m) # proc.map THEN "SYMMETRIC" ELSE proc.res
              IN  <<IF res = "UNKNOWN" THEN "DONE" ELSE "ABORT",
                    [proc EXCEPT !.res = res, !.map = StunMap(m), !.change = m.change]>>
    [] proc.step = "ChangePort" ->
         IF m.kind = "stun" /\ SameIP(m.from, proc.host) /\ m.from.port # proc.host.port
         THEN <<"ABORT", [proc EXCEPT !.res = "RESTRICTED"]>> ELSE <<"GO_ON", proc>>
    [] proc.step = "TryBdgServer" ->
         IF IamHere(m) THEN <<"DONE", [proc EXCEPT !.res = "HERE"]>>
         ELSE <<"GO_ON", proc>>

\* Where the step sends to, and what it asks for.
Asks == CASE proc.step = "BindingRequest" -> <<proc.host, "none">>
          [] proc.step = "TryBdgServer" -> <<proc.host, "hello">>
          [] proc.step = "ChangeIPAndPort" -> <<proc.host, "both">>
          [] proc.step = "ChangePort" -> <<proc.host, "port">>
          [] OTHER -> <<[proc.change EXCEPT !.port = STUN_DEFAULT_PORT], "none">>

\* Without a reply in the end.
GivesUp == CASE proc.step = "ChangeIPAndPort" -> <<"DONE", proc>>
             [] proc.step = "ChangePort" -> <<"ABORT", [proc EXCEPT !.res = "PORT_RESTRICTED"]>>
             [] OTHER -> <<"ABORT", proc>>

------------------------------------------------------------------------------
(* One poll (DoProcess): heard is the datagram that is read, if any.       *)

\* A hello that hears something else goes on as if it had heard nothing.
Ignored(heard) == /\ proc.step = "TryBdgServer"
                  /\ \A m \in heard : Reads(m)[1] = "GO_ON"

StepDo(state, heard) ==
  CASE heard # {} /\ ~Ignored(heard) -> Reads(CHOOSE m \in heard : TRUE)
    [] state = "LAST" /\ (heard = {} \/ Ignored(heard)) -> GivesUp
    [] OTHER -> <<"GO_ON", proc>>

StepSends(state, heard) == state \in {"FIRST", "OVERTIME"} /\ (heard = {} \/ Ignored(heard))

LastStep == proc.step \in {"ChangePort", "TryBdgServer"}
NextStep == StunStep[1 + CHOOSE i \in 1..3 : StunStep[i] = proc.step]

\* A step that would go on after its last retry is done.
Outcome(state, heard) ==
  LET r == StepDo(state, heard)
  IN  CASE r[1] = "GO_ON" /\ state = "LAST" -> <<"DONE", r[2]>> [] OTHER -> r
Ends(state, heard) == \/ Outcome(state, heard)[1] = "ABORT"
                      \/ Outcome(state, heard)[1] = "DONE" /\ LastStep

\* The process after a poll, when it goes on.
After(state, heard) ==
  LET p == Outcome(state, heard)[2]
  IN  IF Outcome(state, heard)[1] = "DONE" THEN StepAt(p, NextStep)
      ELSE [p EXCEPT !.first = FALSE, !.retrys = IF state = "OVERTIME" THEN @ - 1 ELSE @]

\* Mutant of TimerState: the retries are not counted.
TimerStateUnlimited == IF proc.first THEN {"FIRST"} ELSE {"NORMAL", "OVERTIME"}

TimerState == IF proc.first THEN {"FIRST"}
              ELSE {"NORMAL", IF proc.retrys = 0 THEN "LAST" ELSE "OVERTIME"}

\* A step that has its reply: what else is on its way may be lost then.
Concludes(heard) ==
  \E m \in heard : ~Ignored(heard) /\ Reads(m)[1] # "GO_ON"

\* What may be read, and what it does to the network.
Polls(state, heard) ==
  /\ proc.step # "none" /\ state \in TimerState
  /\ heard \in {{}} \cup {{m} : m \in Readable}
  /\ state = "NORMAL" => heard # {}
  /\ \E dropped \in {{}, Readable \ heard} :
       /\ dropped # {} => Concludes(heard)
       /\ IF Readable \ (heard \cup dropped) # {} /\ (state \in {"OVERTIME", "LAST"} \/ Concludes(heard))
          THEN late < MaxLate /\ late' = late + 1 ELSE UNCHANGED late
       /\ IF StepSends(state, heard) THEN Request(heard, Asks[1], Asks[2])
          ELSE air' = air \ (heard \cup dropped) /\ UNCHANGED <<punched, lost>>
  /\ UNCHANGED nat
=============================================================================
