------------------------------ MODULE BdgServer ------------------------------
(***************************************************************************)
(* The BDG server: BridgeMain, which registers peers, and one sub server   *)
(* process per registered peer, which looks up who the peer wants to be    *)
(* connected to, decides how, and leads both sides through it              *)
(* (bdgstep.c 15-421, peerdata.c for the registry and the seeds).          *)
(*                                                                         *)
(* A message is read by every process of the server in the round it        *)
(* arrives in; those that wait for it move on together (ServerHears).      *)
(* Polls without a message are actions of one process (Sub...Polled), and  *)
(* a NORMAL poll changes nothing.  The second pass ForEach makes after the *)
(* last process ended (NetProc) lets a sub server read the same message    *)
(* twice: that is a message delivered twice.                               *)
(***************************************************************************)
EXTENDS BdgMsg, SequencesExt

CONSTANTS SubRetrys,          \* the retries of the sub server steps (level 2 and 3)
          MaxRelayID          \* the last value of sta_AccRelayID before it overflows

ASSUME BdgServerAssumption == SubRetrys \in Nat /\ MaxRelayID \in Nat \ {0}

SubStep == {"Begin", "RequireServer", "RequireReply", "Decision", "Punching",
            "ConnectAddr", "ErrReturn"}
Flag    == {"BEGIN", "DIRECT", "ERR", "A_SIDE_RELAY", "B_SIDE_RELAY"}
SubErr  == {"NO_SEED_TO_RELAY", "ERROR"}

VARIABLES
  sub,        \* sub[n]: the PeerData named n with its sub server, or NoSub
  seeds,      \* the seed peers, in the order they registered: name and relays
  accRelayID, \* sta_AccRelayID
  decided,    \* history: the decisions made, <<a, b, s, rid>> (s = NoAddr: direct)
  bridged     \* history: the decisions reported as successfully bridged

history == <<decided, bridged>>
server == <<sub, seeds, accRelayID, history>>

NoSub == [step |-> "None"]

\* The decision a sub server works on (s keeps its value from older decisions).
Decided(d) == <<d.a, d.b, IF d.rid = 0 THEN NoAddr ELSE d.s, d.rid>>

------------------------------------------------------------------------------
(* Moving a sub server along: ProcessUpdateCurrentStep and the poll states. *)

At(d, s) == [d EXCEPT !.step = s, !.retrys = SubRetrys, !.first = TRUE]

NewSub(a) ==
  [step |-> "Begin", retrys |-> SubRetrys, first |-> TRUE,
   a |-> a, b |-> NoAddr, s |-> NoAddr, flag |-> "BEGIN", rid |-> 0,
   pun |-> NoAddr, con |-> NoAddr, err |-> "ERROR"]

Registered == {n \in Name : sub[n] # NoSub}

SubAt(n, s)  == sub[n] # NoSub /\ sub[n].step = s
\* Mutant of MaySend: the retries are used up one too late.
MaySendOnceMore(n) == sub[n].first \/ sub[n].retrys >= 0
MaySend(n)   == sub[n].first \/ sub[n].retrys > 0
SubCharge(n) == IF sub[n].first THEN [sub[n] EXCEPT !.first = FALSE]
                ELSE [sub[n] EXCEPT !.retrys = @ - 1]

SubGoes(n, d) == sub' = [sub EXCEPT ![n] = d]

\* The FIRST_TIME and OVERTIME branch of a step.
SubSends(n, S) ==
  /\ MaySend(n)
  /\ SubGoes(n, SubCharge(n)) /\ Write(S)
  /\ UNCHANGED <<seeds, accRelayID, history>>

\* Mutant of SubGivesUp: REDO at LAST_TIME.
SubGivesUpRedo(n, d) ==
  /\ ~MaySend(n)
  /\ SubGoes(n, At(sub[n], sub[n].step))
  /\ UNCHANGED <<wire, seeds, accRelayID, history>>

\* The LAST_TIME branch that goes to another step.
SubGivesUp(n, d) ==
  /\ ~MaySend(n)
  /\ SubGoes(n, d)
  /\ UNCHANGED <<wire, seeds, accRelayID, history>>

\* Mutant of SubEnds: PeerDataDele without the seed list.
SubEndsSeedLeft(n) ==
  /\ ~MaySend(n)
  /\ sub' = [sub EXCEPT ![n] = NoSub]
  /\ UNCHANGED <<wire, seeds, accRelayID, history>>

\* Mutant of SubEnds: REDO at LAST_TIME, as BridgeMain does.
SubEndsRedo(n) ==
  /\ ~MaySend(n)
  /\ SubGoes(n, At(sub[n], sub[n].step))
  /\ UNCHANGED <<wire, seeds, accRelayID, history>>

SeedAt(n) == {i \in DOMAIN seeds : seeds[i].name = n}

\* ABORT at LAST_TIME: BdgSubServerProcNotify deletes the PeerData and its seed.
SubEnds(n) ==
  /\ ~MaySend(n)
  /\ sub' = [sub EXCEPT ![n] = NoSub]
  /\ seeds' = IF SeedAt(n) = {} THEN seeds ELSE RemoveAt(seeds, CHOOSE i \in SeedAt(n) : TRUE)
  /\ UNCHANGED <<wire, accRelayID, history>>

------------------------------------------------------------------------------
(* BridgeMain *)

\* REGISTER: a name in use is refused, a new one gets its sub server, and
\* a place among the seeds when its NAT lets others in.
Register(m) ==
  IF m.name \in Registered
  THEN /\ ReadWrite(m, {Plain("NAMEID_EXIST", Server, m.from)})
       /\ UNCHANGED server
  ELSE /\ ReadWrite(m, {})
       /\ SubGoes(m.name, NewSub(m.from))
       /\ seeds' = IF m.nat \in {0, 1}
                   THEN Append(seeds, [name |-> m.name, relays |-> 0]) ELSE seeds
       /\ UNCHANGED <<accRelayID, history>>

------------------------------------------------------------------------------
(* What a sub server d makes of a message m, step by step. *)

BeginHears(d, m) ==
  IF m.from = d.a /\ m.info \in {"WAITING", "CONNECT"} THEN At(d, "RequireServer") ELSE d

RequireServerHears(d, m) ==
  CASE m.from = d.a /\ m.info = "WAITING" -> At(d, "RequireServer")
    [] m.from = d.a /\ m.info = "CONNECT" ->
         [At(d, "RequireReply") EXCEPT
            !.b = IF m.name \in Registered THEN sub[m.name].a ELSE NoAddr]
    [] OTHER -> d

RequireReplyHears(d, m) ==
  IF m.from = d.a /\ m.info = "WAITING"
  THEN IF d.b = NoAddr THEN At(d, "RequireServer")
       ELSE [At(d, "Decision") EXCEPT !.flag = "BEGIN"]
  ELSE d

PunchingHears(d, m) ==
  IF m.from = d.pun /\ m.info = "PUNCHING_FINISH" THEN At(d, "ConnectAddr") ELSE d

\* Mutant of ConnectAddrHears: whatever the side says.
ConnectAddrHearsAnything(d, m) ==
  IF m.from = d.con THEN At(d, "Decision") ELSE d

ConnectAddrHears(d, m) ==
  IF m.from = d.con /\ m.info = "ESTABLISHED" THEN At(d, "Decision") ELSE d

ErrReturnHears(d, m) ==
  IF m.from = d.a /\ m.info = "ACKNOWLEDGE" THEN At(d, "RequireServer") ELSE d

SubHears(d, m) ==
  CASE d.step = "Begin"         -> BeginHears(d, m)
    [] d.step = "RequireServer" -> RequireServerHears(d, m)
    [] d.step = "RequireReply"  -> RequireReplyHears(d, m)
    [] d.step = "Punching"      -> PunchingHears(d, m)
    [] d.step = "ConnectAddr"   -> ConnectAddrHears(d, m)
    [] d.step = "ErrReturn"     -> ErrReturnHears(d, m)
    [] OTHER                    -> d

\* The sub servers that answer m with an ECHO, and the seeds they update.
Echoes(m) == {n \in Name : SubAt(n, "RequireServer") /\ m.from = sub[n].a
                           /\ m.info = "WAITING"}

SubsHear(m) ==
  /\ sub' = [n \in Name |-> SubHears(sub[n], m)]
  /\ seeds' = [i \in DOMAIN seeds |->
                 IF seeds[i].name \in Echoes(m)
                 THEN [seeds[i] EXCEPT !.relays = m.relays] ELSE seeds[i]]
  /\ ReadWrite(m, IF Echoes(m) # {} THEN {Plain("ECHO", Server, m.from)} ELSE {})
  /\ UNCHANGED <<accRelayID, history>>

ServerHears ==
  \/ \E m \in Mail(Server, {"REGISTER"}) : Register(m)
  \/ \E m \in Mail(Server, {"WAITING", "CONNECT", "PUNCHING_FINISH", "ESTABLISHED",
                            "ACKNOWLEDGE"}) :
       /\ \E n \in Name : Echoes(m) # {} \/ SubHears(sub[n], m) # sub[n]
       /\ SubsHear(m)

------------------------------------------------------------------------------
(* The polls of a sub server without a message. *)

BeginPolled(n) ==
  /\ SubAt(n, "Begin")
  /\ \/ SubSends(n, {Plain("RGST_OK", Server, sub[n].a)})
     \/ SubEnds(n)

RequireServerPolled(n) ==
  /\ SubAt(n, "RequireServer")
  /\ SubSends(n, {}) \/ SubEnds(n)

RequireReplyPolled(n) ==
  /\ SubAt(n, "RequireReply")
  /\ \/ SubSends(n, {Plain(IF sub[n].b = NoAddr THEN "NO_NAMEID" ELSE "CONNECT_BEGIN",
                           Server, sub[n].a)})
     \/ SubGivesUp(n, At(sub[n], "RequireServer"))

PunchingPolled(n) ==
  /\ SubAt(n, "Punching")
  /\ \/ SubSends(n, {PunchingMsg(Server, sub[n].pun, sub[n].con)})
     \/ SubGivesUp(n, [At(sub[n], "Decision") EXCEPT !.flag = "ERR"])

ConnectAddrPolled(n) ==
  /\ SubAt(n, "ConnectAddr")
  /\ \/ SubSends(n, {ConnectAddrMsg(Server, sub[n].con, sub[n].pun, sub[n].rid)})
     \/ SubGivesUp(n, [At(sub[n], "Decision") EXCEPT !.flag = "ERR"])

ErrReturnPolled(n) ==
  /\ SubAt(n, "ErrReturn")
  /\ SubSends(n, {Plain(sub[n].err, Server, sub[n].a)}) \/ SubEnds(n)

------------------------------------------------------------------------------
(* BdgConnectDecision: one poll, no message, always another step. *)

NeedRelay(d) == NATOf[d.a] + NATOf[d.b] >= 5

\* SeedPeerSelectOne: the first seed with no relay, else the first with one.
SeedsWith(most) == {i \in DOMAIN seeds : seeds[i].relays <= most}

SeedPeerSelectOne ==
  LET best == IF SeedsWith(0) # {} THEN SeedsWith(0) ELSE SeedsWith(1)
  IN  sub[seeds[CHOOSE i \in best : \A j \in best : i <= j].name].a

NextRelayID == IF accRelayID = MaxRelayID THEN 1 ELSE accRelayID + 1

DecideRelay(n) ==
  LET d == [At(sub[n], "Punching") EXCEPT
              !.s = SeedPeerSelectOne, !.pun = SeedPeerSelectOne, !.con = sub[n].a,
              !.flag = "A_SIDE_RELAY", !.rid = accRelayID]
  IN  /\ sub[n].flag = "BEGIN" /\ NeedRelay(sub[n])
      /\ SeedsWith(1) # {}
      /\ SubGoes(n, d)
      /\ accRelayID' = NextRelayID
      /\ decided' = decided \cup {Decided(d)}
      /\ UNCHANGED bridged

DecideNoSeed(n) ==
  /\ sub[n].flag = "BEGIN" /\ NeedRelay(sub[n])
  /\ SeedsWith(1) = {}
  /\ SubGoes(n, [At(sub[n], "ErrReturn") EXCEPT !.err = "NO_SEED_TO_RELAY"])
  /\ UNCHANGED <<accRelayID, decided, bridged>>

\* Mutant of DecideDirect: both ends the same.
DecideDirectOneEnd(n) ==
  LET d == [At(sub[n], "Punching") EXCEPT
              !.pun = sub[n].a, !.con = sub[n].a, !.flag = "DIRECT", !.rid = 0]
  IN  /\ sub[n].flag = "BEGIN" /\ ~NeedRelay(sub[n])
      /\ SubGoes(n, d)
      /\ decided' = decided \cup {Decided(d)}
      /\ UNCHANGED <<accRelayID, bridged>>

DecideDirect(n) ==
  LET aFirst == NATOf[sub[n].a] < NATOf[sub[n].b]
      d == [At(sub[n], "Punching") EXCEPT
              !.pun = IF aFirst THEN sub[n].a ELSE sub[n].b,
              !.con = IF aFirst THEN sub[n].b ELSE sub[n].a,
              !.flag = "DIRECT", !.rid = 0]
  IN  /\ sub[n].flag = "BEGIN" /\ ~NeedRelay(sub[n])
      /\ SubGoes(n, d)
      /\ decided' = decided \cup {Decided(d)}
      /\ UNCHANGED <<accRelayID, bridged>>

\* Mutant of DecideBSide: b is sent to a.
DecideBSideToA(n) ==
  /\ sub[n].flag = "A_SIDE_RELAY"
  /\ SubGoes(n, [At(sub[n], "Punching") EXCEPT
                   !.pun = sub[n].a, !.con = sub[n].b, !.flag = "B_SIDE_RELAY"])
  /\ UNCHANGED <<accRelayID, decided, bridged>>

\* The side of a is done: the same with b.
DecideBSide(n) ==
  /\ sub[n].flag = "A_SIDE_RELAY"
  /\ SubGoes(n, [At(sub[n], "Punching") EXCEPT
                   !.pun = sub[n].s, !.con = sub[n].b, !.flag = "B_SIDE_RELAY"])
  /\ UNCHANGED <<accRelayID, decided, bridged>>

\* "successful ... connection bridged": back to the next request.
DecideBridged(n) ==
  /\ sub[n].flag \in {"DIRECT", "B_SIDE_RELAY"}
  /\ SubGoes(n, At(sub[n], "RequireServer"))
  /\ bridged' = bridged \cup {Decided(sub[n])}
  /\ UNCHANGED <<accRelayID, decided>>

DecideErr(n) ==
  /\ sub[n].flag = "ERR"
  /\ SubGoes(n, [At(sub[n], "ErrReturn") EXCEPT !.err = "ERROR"])
  /\ UNCHANGED <<accRelayID, decided, bridged>>

Decision(n) ==
  /\ SubAt(n, "Decision")
  /\ \/ DecideRelay(n) \/ DecideNoSeed(n) \/ DecideDirect(n)
     \/ DecideBSide(n) \/ DecideBridged(n) \/ DecideErr(n)
  /\ UNCHANGED <<wire, seeds>>

SubPolled(n) ==
  \/ BeginPolled(n) \/ RequireServerPolled(n) \/ RequireReplyPolled(n)
  \/ Decision(n) \/ PunchingPolled(n) \/ ConnectAddrPolled(n) \/ ErrReturnPolled(n)

\* The server program is started again: nothing is kept.
ServerForgets ==
  /\ sub' = [n \in Name |-> NoSub] /\ seeds' = <<>> /\ accRelayID' = 1
  /\ UNCHANGED history
=============================================================================
