------------------------------ MODULE BdgClient ------------------------------
(***************************************************************************)
(* The bridge client every node runs (bdgstep.c 457-771), with what its    *)
(* steps start: sessions (SessionStart) and relays (relay.c).              *)
(*                                                                         *)
(* The server node runs one too, which skips registering and only answers  *)
(* (ifSkipRegister).  A client reads at most one message per poll; sessions*)
(* and relays do nothing with bridge messages.  How long sessions and      *)
(* relays last depends on user data: a relay may end at any time, of a     *)
(* session only the start is kept.                                         *)
(***************************************************************************)
EXTENDS BdgMsg

CONSTANTS CliRetrys,     \* the retries of the steps of level 2 and 3
          SendRetrys,    \* the retries of BdgClientMultiSendNotify (level 0)
          RelayIDs,      \* a set that holds every RelayID
          JunkRelayIDs,  \* what the unset RelayID of the HELLO answer may be
          UintSize,      \* g_Relays wraps here (2^32)
          UcharSize,     \* and is cut to a uchar in WAITING (256)
          Typed,         \* bound: the names users type
          MaxConnects,   \* bound: MaxConnects[p] connect commands at node p
          MaxDirects,    \* bound: MaxDirects[p] direct commands at node p
          MaxOverwrites, \* bound: commands that overwrite a pending connect's name
          MaxRestarts    \* bound: MaxRestarts[p] restarts of node p's program

ASSUME BdgClientAssumption ==
  /\ CliRetrys \in Nat /\ SendRetrys \in Nat
  /\ Typed \subseteq Name /\ 0 \in RelayIDs /\ JunkRelayIDs \subseteq RelayIDs
  /\ UintSize \in Nat \ {0} /\ UcharSize \in Nat \ {0}

CliStep == {"Register", "Wait", "Require", "DoConnect", "MultiSend", "Ended"}

VARIABLES
  cli,       \* the client process of each node, with its BridgeClientProcPa
  relays,    \* the relay processes of each node: id, peer0, peer1
  nrelays,   \* g_Relays of each node
  used,      \* how much of the bounds each node has used
  met,       \* history: <<p, q>> when p has started a session with q
  directs    \* history: <<p, q>> when p was told to connect q directly

client == <<cli, relays, nrelays, used, met, directs>>

Retrys(s) == IF s = "MultiSend" THEN SendRetrys ELSE CliRetrys

NewCli(s) ==
  [step |-> s, retrys |-> Retrys(s), first |-> TRUE,
   connected |-> FALSE, fast |-> FALSE, target |-> NoName, direct |-> NoAddr,
   sx |-> NoAddr, b |-> NoAddr, rid |-> 0, to |-> NoAddr, info |-> "HELLO"]

Skips(p) == p = Server

StartCli(p) == NewCli(IF Skips(p) THEN "Wait" ELSE "Register")

------------------------------------------------------------------------------
CliAt(c, s) == [c EXCEPT !.step = s, !.retrys = Retrys(s), !.first = TRUE]

\* BdgClientProcNotify: the process leaves the list for good.
CliEnd(c) == [c EXCEPT !.step = "Ended", !.connected = FALSE]

\* The states a poll may find: NORMAL needs no timer.
PollStates(c) ==
  IF c.first THEN {"FIRST"}
  ELSE {"NORMAL", IF c.retrys > 0 THEN "OVERTIME" ELSE "LAST"}

CliCharge(c, st) ==
  CASE st = "FIRST"    -> [c EXCEPT !.first = FALSE]
    [] st = "OVERTIME" -> [c EXCEPT !.retrys = @ - 1]
    [] OTHER           -> c

CliGoes(p, c) == cli' = [cli EXCEPT ![p] = c]

Same == UNCHANGED <<relays, nrelays, used, met, directs>>

\* FIRST_TIME and OVERTIME: send and wait.
CliSends(p, S) ==
  \E st \in PollStates(cli[p]) \cap {"FIRST", "OVERTIME"} :
    /\ CliGoes(p, CliCharge(cli[p], st)) /\ Write(S)
    /\ Same

\* Mutant of CliLast: REDO at LAST_TIME.
CliLastRedo(p, c) ==
  /\ "LAST" \in PollStates(cli[p])
  /\ CliGoes(p, CliAt(cli[p], cli[p].step))
  /\ UNCHANGED wire /\ Same

CliLast(p, c) ==
  /\ "LAST" \in PollStates(cli[p])
  /\ CliGoes(p, c)
  /\ UNCHANGED wire /\ Same

------------------------------------------------------------------------------
(* BdgClientRegister *)

RegisterHears(p) ==
  /\ cli[p].step = "Register"
  /\ \E m \in Mail(p, {"RGST_OK", "NAMEID_EXIST"}) :
       /\ m.from = Server
       /\ CliGoes(p, IF m.info = "RGST_OK"
                     THEN [CliAt(cli[p], "Wait") EXCEPT !.connected = TRUE, !.fast = TRUE]
                     ELSE CliEnd(cli[p]))
       /\ ReadWrite(m, {})
       /\ Same

RegisterPolled(p) ==
  /\ cli[p].step = "Register"
  /\ \/ CliSends(p, {RegisterMsg(p, Server, NameOf[p], NATOf[p])})
     \/ CliLast(p, CliEnd(cli[p]))

------------------------------------------------------------------------------
(* BdgClientWait *)

\* What every poll does that does not jump away: the first of target, direct
\* address, skipped registration, due WAITING and LAST_TIME that applies.
\* c is the client after it, S what is sent.
WaitGoesOn(p, st) ==
  LET c == cli[p]
  IN CASE c.target # NoName ->
            [c |-> CliAt(c, "Require"), S |-> {}]
       [] c.target = NoName /\ c.direct # NoAddr ->
            [c |-> [CliAt(c, "DoConnect") EXCEPT !.sx = NoAddr, !.b = c.direct, !.rid = 0],
             S |-> {}]
       [] c.target = NoName /\ c.direct = NoAddr /\ Skips(p) ->
            [c |-> CliAt(c, "Wait"), S |-> {}]
       [] c.target = NoName /\ c.direct = NoAddr /\ ~Skips(p)
            /\ (st = "OVERTIME" \/ c.fast) ->
            \* GO_ON; at LAST_TIME that means the next step
            [c |-> IF st = "LAST" THEN CliAt([c EXCEPT !.fast = FALSE], "Require")
                   ELSE [CliCharge(c, st) EXCEPT !.fast = FALSE],
             S |-> {WaitingMsg(p, Server, nrelays[p] % UcharSize)}]
       [] c.target = NoName /\ c.direct = NoAddr /\ ~Skips(p)
            /\ st = "LAST" /\ ~c.fast ->
            [c |-> CliEnd(c), S |-> {}]
       [] OTHER -> [c |-> CliCharge(c, st), S |-> {}]

WaitPolled(p) ==
  /\ cli[p].step = "Wait"
  /\ \E st \in PollStates(cli[p]) :
       LET w == WaitGoesOn(p, st)
       IN  CliGoes(p, w.c) /\ Write(w.S)
  /\ Same

\* PUNCHING from anyone: send through the NAT (the UNKNOWN messages mean
\* nothing to a reader), tell the sender; an error from the server: ACKNOWLEDGE.
WaitAnswers(p) ==
  /\ cli[p].step = "Wait"
  /\ \E m \in Mail(p, {"PUNCHING", "NO_SEED_TO_RELAY", "ERROR"}), st \in PollStates(cli[p]) :
       LET w == WaitGoesOn(p, st)
           i == IF m.info = "PUNCHING" THEN "PUNCHING_FINISH" ELSE "ACKNOWLEDGE"
       IN  /\ m.info # "PUNCHING" => m.from = Server
           /\ CliGoes(p, w.c)
           /\ ReadWrite(m, {Plain(i, p, m.from)} \cup w.S)
  /\ Same

WaitHearsEcho(p) ==
  /\ cli[p].step = "Wait"
  /\ \E m \in Mail(p, {"ECHO"}) :
       /\ m.from = Server
       /\ CliGoes(p, CliAt(cli[p], "Wait")) /\ ReadWrite(m, {})
  /\ Same

WaitHearsConnectAddr(p) ==
  /\ cli[p].step = "Wait"
  /\ \E m \in Mail(p, {"CONNECT_ADDR"}) :
       /\ CliGoes(p, [CliAt(cli[p], "DoConnect") EXCEPT
                        !.sx = m.from, !.b = m.addr, !.rid = m.rid])
       /\ ReadWrite(m, {})
  /\ Same

------------------------------------------------------------------------------
(* relay.c *)

\* RelayProcMerge, on node p, of a HELLO from q.
IsRelay(p, id) == \E i \in DOMAIN relays[p] : relays[p][i].id = id

RelayProcMerge(p, id, q) ==
  LET i == CHOOSE i \in DOMAIN relays[p] : relays[p][i].id = id
  IN  CASE ~IsRelay(p, id) ->
             /\ relays' = [relays EXCEPT ![p] =
                             Append(@, [id |-> id, peer0 |-> q, peer1 |-> NoAddr])]
             /\ UNCHANGED nrelays
        [] IsRelay(p, id) /\ relays[p][i].peer1 = NoAddr ->
             /\ relays' = [relays EXCEPT ![p][i].peer1 = q]
             /\ nrelays' = [nrelays EXCEPT ![p] = (@ + 1) % UintSize]
        [] OTHER -> UNCHANGED <<relays, nrelays>>

\* The Relay step at LAST_TIME, after a time without user data:
\* RelayProcNotify, for relays that have two peers and for those that wait.
RelayEnds(p, i) ==
  /\ relays' = [relays EXCEPT ![p] = SubSeq(@, 1, i - 1) \o SubSeq(@, i + 1, Len(@))]
  /\ nrelays' = [nrelays EXCEPT ![p] = (@ - 1) % UintSize]
  /\ UNCHANGED <<wire, cli, used, met, directs>>

------------------------------------------------------------------------------
WaitHearsHello(p) ==
  /\ cli[p].step = "Wait"
  /\ \E m \in Mail(p, {"HELLO"}) :
       /\ IF m.rid = 0
          THEN met' = met \cup {<<p, m.from>>} /\ UNCHANGED <<relays, nrelays>>
          ELSE RelayProcMerge(p, m.rid, m.from) /\ UNCHANGED met
       /\ CliGoes(p, [CliAt(cli[p], "MultiSend") EXCEPT !.to = m.from, !.info = "HELLO"])
       /\ ReadWrite(m, {})
       /\ UNCHANGED <<used, directs>>

------------------------------------------------------------------------------
(* BdgClientConnectRequire *)

\* Mutant of RequireHears: asks once more when the name was not found.
RequireHearsRedo(p) ==
  /\ cli[p].step = "Require"
  /\ \E m \in Mail(p, {"CONNECT_BEGIN", "NO_NAMEID"}) :
       /\ m.from = Server
       /\ CliGoes(p, [CliAt(cli[p], IF m.info = "NO_NAMEID" THEN "Require" ELSE "Wait") EXCEPT
                        !.target = NoName, !.fast = @ \/ m.info = "CONNECT_BEGIN"])
       /\ ReadWrite(m, {})
  /\ Same

RequireHears(p) ==
  /\ cli[p].step = "Require"
  /\ \E m \in Mail(p, {"CONNECT_BEGIN", "NO_NAMEID"}) :
       /\ m.from = Server
       /\ CliGoes(p, [CliAt(cli[p], "Wait") EXCEPT
                        !.target = NoName, !.fast = @ \/ m.info = "CONNECT_BEGIN"])
       /\ ReadWrite(m, {})
  /\ Same

RequirePolled(p) ==
  /\ cli[p].step = "Require"
  /\ \/ /\ \E st \in PollStates(cli[p]) \cap {"FIRST", "OVERTIME"} :
             CliGoes(p, CliCharge(cli[p], st))
        /\ Write({ConnectMsg(p, Server, cli[p].target)})
        /\ Same
     \/ CliLast(p, CliEnd(cli[p]))

------------------------------------------------------------------------------
(* BdgClientDoConnectAddr *)

DoConnectHears(p) ==
  /\ cli[p].step = "DoConnect"
  /\ \E m \in Mail(p, {"HELLO"}) :
       /\ m.from = cli[p].b
       /\ CliGoes(p, [CliAt(cli[p], "MultiSend") EXCEPT
                        !.to = cli[p].sx, !.info = "ESTABLISHED", !.direct = NoAddr])
       /\ met' = met \cup {<<p, cli[p].b>>}
       /\ ReadWrite(m, {})
  /\ UNCHANGED <<relays, nrelays, used, directs>>

\* Mutant of DoConnectPolled: no answer is reported as a success.
DoConnectPolledHopeful(p) ==
  /\ cli[p].step = "DoConnect"
  /\ \/ CliSends(p, {HelloMsg(p, cli[p].b, cli[p].rid)})
     \/ CliLast(p, [CliAt(cli[p], "MultiSend") EXCEPT
                      !.to = cli[p].sx, !.info = "ESTABLISHED", !.direct = NoAddr])

DoConnectPolled(p) ==
  /\ cli[p].step = "DoConnect"
  /\ \/ CliSends(p, {HelloMsg(p, cli[p].b, cli[p].rid)})
     \/ CliLast(p, [CliAt(cli[p], "MultiSend") EXCEPT
                      !.to = cli[p].sx, !.info = "ERR_CONNECT_ADDR", !.direct = NoAddr])

------------------------------------------------------------------------------
(* BdgClientMultiSendNotify: nothing is read meanwhile, and of the message *)
(* only info is set.                                                       *)

Notice(c, p) ==
  CASE c.to = NoAddr -> {}
    [] c.to # NoAddr /\ c.info = "HELLO" -> {HelloMsg(p, c.to, r) : r \in JunkRelayIDs}
    [] OTHER -> {Plain(c.info, p, c.to)}

MultiSendPolled(p) ==
  /\ cli[p].step = "MultiSend"
  /\ \/ \E m \in Notice(cli[p], p) : CliSends(p, {m})
     \/ Notice(cli[p], p) = {} /\ CliSends(p, {})
     \/ CliLast(p, CliAt(cli[p], "Wait"))

------------------------------------------------------------------------------
(* The user's commands (bkgd.c), and the program's end and restart. *)

\* connect n: the target pointer points into the command buffer.
Connect(p, n) ==
  /\ cli[p].connected /\ used[p].connects < MaxConnects[p]
  /\ CliGoes(p, [cli[p] EXCEPT !.target = n])
  /\ used' = [used EXCEPT ![p].connects = @ + 1]
  /\ UNCHANGED <<wire, relays, nrelays, met, directs>>

\* Any later command is written over the name while it is still in use.
Overwrite(p, n) ==
  /\ cli[p].target # NoName /\ used[p].overwrites < MaxOverwrites
  /\ CliGoes(p, [cli[p] EXCEPT !.target = n])
  /\ used' = [used EXCEPT ![p].overwrites = @ + 1]
  /\ UNCHANGED <<wire, relays, nrelays, met, directs>>

\* direct: a peer names the server, the server node a registered peer.  Both
\* need a running client to act on it.
Direct(p, q, registered) ==
  /\ used[p].directs < MaxDirects[p]
  /\ cli[p].step # "Ended"
  /\ IF Skips(p) THEN q \in registered ELSE cli[p].connected /\ q = Server
  /\ CliGoes(p, [cli[p] EXCEPT !.direct = q])
  /\ used' = [used EXCEPT ![p].directs = @ + 1]
  /\ directs' = directs \cup {<<p, q>>}
  /\ UNCHANGED <<wire, relays, nrelays, met>>

CliRestart(p) ==
  /\ CliGoes(p, StartCli(p))
  /\ relays' = [relays EXCEPT ![p] = <<>>] /\ nrelays' = [nrelays EXCEPT ![p] = 0]
  /\ used' = [used EXCEPT ![p].restarts = @ + 1]
  /\ UNCHANGED <<wire, met, directs>>

CliHears(p) ==
  \/ RegisterHears(p) \/ WaitAnswers(p) \/ WaitHearsEcho(p) \/ WaitHearsConnectAddr(p)
  \/ WaitHearsHello(p) \/ RequireHears(p) \/ DoConnectHears(p)

CliPolled(p) ==
  \/ RegisterPolled(p) \/ WaitPolled(p) \/ RequirePolled(p) \/ DoConnectPolled(p)
  \/ MultiSendPolled(p)
=============================================================================
