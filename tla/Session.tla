------------------------------ MODULE Session ------------------------------
(***************************************************************************)
(* Sessions between nodes that have been connected (session.c), over the   *)
(* pipes of each (pipe.c, and those of main.c and bkgd.c), and the network *)
(* between them.  A session keeps a hole in the NATs open by keepalives,   *)
(* ends when a period brings none, and leads what is written at one node   *)
(* into the pipes of the other: as a command, as chat, or as mere data.    *)
(*                                                                         *)
(* What a node does under its mutex is one step: a round of the main loop  *)
(* (a message at most, the processes, the flush of stdout), a line of      *)
(* StdinThread, a command of BackGround.                                   *)
(***************************************************************************)
EXTENDS Pipe

CONSTANTS
  Node,
  Retrys,    \* of wait level 3: the keepalives of a period
  Users,     \* bound: the nodes whose users write lines
  UserLinks, \* bound: what users pipe, pairs of pipes
  MaxFaults, MaxConnects, MaxLines, MaxLinks, \* bounds: how often
  MaxTogether, \* bound: faults, connections and lines together
  Slack      \* bound: ticks of a clock between two in which it overtakes another's

Fixed == {"stdin", "stdout", "cmd", "CmdMode", "ChatMode", "UsualPrompt"}
Flag  == {"DAT", "MAINTAIN", "CMD", "CHAT"}
Msg   == [from : Node, to : Node, flag : Flag \cup {"HELLO"}]

ASSUME SessionAssumption ==
  /\ PipeName = Fixed \cup Node /\ Fixed \cap Node = {}   \* a session's pipe is named after the peer
  /\ Retrys \in Nat /\ Users \subseteq Node /\ UserLinks \subseteq PipeName \X PipeName
  /\ {MaxFaults, MaxConnects, MaxLines, MaxLinks, MaxTogether, Slack} \subseteq Nat
  \* bound: no pipe that redirects into another, without end if in a circle
  /\ \A l \in UserLinks : l[1] \notin {"CmdMode", "ChatMode"} \/ l[2] \notin {"CmdMode", "ChatMode"}

VARIABLES
  map,  \* sta_PipeMap of each node
  ses,  \* its SessionMaintain processes
  out,  \* whether sta_StdoutBuff holds something
  cmd,  \* sta_ifBkgdFlow: whether a line waits for BackGround
  net,  \* messages under way; equal ones count as one
  last, since, \* for two nodes: whose clock ticked last, and for how many ticks none overtook the other
  faults, connects, lines, links \* how often so far

Pairs == UNION {{{n, a} : a \in Node \ {n}} : n \in Node}

local  == <<map, ses, out, cmd>>
clocks == <<last, since>>
counts == <<faults, connects, lines, links>>
vars   == <<local, net, clocks, counts>>

\* MkCmdModePipe, MkChatModePipe, tkNetDefaultPipeInit, InitPipeStdoutDirection, BackGround's cmd.
FirstMap ==
  LET all == [NoPipes EXCEPT !.dirs = [p \in Fixed |-> {}], !.refs = [p \in Fixed |-> {}]]
  IN  PipeDirectTo(PipeDirectTo(all, "UsualPrompt", "stdout"), "stdin", "cmd")

\* A user may have directed stdin before there is a session.
Init ==
  /\ \/ map = [n \in Node |-> FirstMap]
     \/ \E u \in Users, l \in UserLinks :
          /\ {l[1], l[2]} \subseteq Fixed
          /\ map = [n \in Node |-> IF n = u THEN PipeDirectTo(FirstMap, l[1], l[2]) ELSE FirstMap]
  /\ ses = [n \in Node |-> {}]
  /\ out = [n \in Node |-> FALSE] /\ cmd = [n \in Node |-> FALSE]
  /\ net = {} /\ last \in [Pairs -> Node] /\ since = [p \in Pairs |-> Slack]
  /\ faults = 0 /\ connects = 0 /\ lines = 0 /\ links = 0

May == faults + connects + lines < MaxTogether

On(n, a) == \E s \in ses[n] : s.addr = a

------------------------------------------------------------------------------
(* Flows.  PipeFlow calls the callback of every pipe it leads to; those of *)
(* CmdMode and ChatMode flow on with a flag of their own.                  *)

SetFlag == [p \in {"CmdMode", "ChatMode"} |-> IF p = "CmdMode" THEN "CMD" ELSE "CHAT"]

PipeFlow(m, p) ==
  LET to == Directions(m, p)
  IN  (to \X {"DAT"}) \cup
      UNION {Directions(m, q) \X {SetFlag[q]} : q \in to \cap DOMAIN SetFlag}

Prompt(m) == PipeFlow(m, "UsualPrompt")

\* StdoutFlowCallbk, CmdFlowCallbk, and SessionFlowCallbk for what reaches them.
Reaches(F, p) == \E f \in F : f[1] = p
Sent(n, F)    == {[from |-> n, to |-> f[1], flag |-> f[2]] : f \in {g \in F : g[1] \in Node}}

\* What flows at a node whose buffer stdout fills, beside what else it sends.
Written(n, F, else) == /\ out' = [out EXCEPT ![n] = @ \/ Reaches(F, "stdout")]
                       /\ cmd' = [cmd EXCEPT ![n] = @ \/ Reaches(F, "cmd")]
                       /\ net' = else \cup Sent(n, F)

\* StdoutPipeFlush: what the buffer holds flows on, and it is empty.
StdoutPipeFlush(m, full) == IF full THEN PipeFlow(m, "stdout") ELSE {}

------------------------------------------------------------------------------
(* SessionMaintain and its process. *)

NewSession(a) == [addr |-> a, alive |-> FALSE, left |-> Retrys]

\* Mutant of SessionStart: whether or not there is one.
SessionStartAgain(n, a) ==
  /\ map' = [map EXCEPT ![n] = PipeMap(@, a)]
  /\ ses' = [ses EXCEPT ![n] = @ \cup {NewSession(a)}]

\* A session that exists, which is told by its pipe, is not started again.
SessionStart(n, a) ==
  IF a \in Pipes(map[n]) THEN UNCHANGED <<map, ses>>
  ELSE /\ map' = [map EXCEPT ![n] = PipeMap(@, a)]
       /\ ses' = [ses EXCEPT ![n] = @ \cup {NewSession(a)}]

\* "session proc starts."
Starts(n, a) == IF a \in Pipes(map[n]) THEN {} ELSE Prompt(PipeMap(map[n], a))

\* Mutant of DirectOnce: one more connection for every message.
DirectAgain(m, p, q) == PipeDirectTo(m, p, q)

DirectOnce(m, p, q) == IF ifPipeTo(m, p, q) THEN m ELSE PipeDirectTo(m, p, q)

\* "direct net pipe to cmd pipe" and "send the result back"; "enable the other
\* side to print recved" and "send stdin here".
Directed(m, a, flag) ==
  CASE flag = "CMD"  -> DirectOnce(DirectOnce(m, a, "cmd"), "stdout", a)
    [] flag = "CHAT" -> DirectOnce(DirectOnce(m, a, "stdout"), "stdin", a)
    [] OTHER -> m

\* Mutant of IfAlive: only data tells that the peer is there.
IfAliveData(s, heard) == s.alive \/ heard = "DAT"

IfAlive(s, heard) == s.alive \/ heard = "MAINTAIN"

\* Mutant of LastTime: it is alive for ever once it has been.
LastTimeKept(s) == [s EXCEPT !.left = Retrys]

\* The end of a period that has brought a keepalive.
LastTime(s) == [s EXCEPT !.alive = FALSE, !.left = Retrys]

\* A keepalive is printed; other messages flow on.
Flowing(m, a, heard) ==
  CASE heard = "MAINTAIN" -> Prompt(m) [] heard = "nothing" -> {} [] OTHER -> PipeFlow(m, a)

\* One round of n's main loop, in which session s hears of something, or of
\* nothing, in a timer state; a peer's lines end up in n's pipes.  That it ends
\* is told while its pipe is there (ProcessTraceSteps) and when it is gone.
After(n, s, heard, state, m, F) ==
  LET t  == [s EXCEPT !.alive = IfAlive(s, heard)]
      ends == state = "LAST" /\ ~t.alive
      m2 == IF ends THEN PipeDele(m, s.addr) ELSE m
      G  == F \cup IF ends THEN Prompt(m) \cup Prompt(m2) ELSE {}
      all == G \cup StdoutPipeFlush(m2, out[n] \/ Reaches(G, "stdout"))
  IN  [map  |-> m2,
       ses  |-> (ses[n] \ {s}) \cup
               IF ends THEN {}
               ELSE {CASE state = "OVERTIME" -> [t EXCEPT !.left = @ - 1]
                       [] state = "LAST" -> LastTime(t) [] OTHER -> t},
       cmd  |-> Reaches(all, "cmd"),
       sent |-> Sent(n, all) \cup
                IF state = "OVERTIME" THEN {[from |-> n, to |-> s.addr, flag |-> "MAINTAIN"]} ELSE {}]

Round(n, s, heard, state) ==
  /\ state = "OVERTIME" => s.left > 0
  /\ state = "LAST" => s.left = 0
  /\ \E m \in {Directed(map[n], s.addr, heard)} :
     \E r \in {After(n, s, heard, state, m, Flowing(m, s.addr, heard))} :
       /\ map' = [map EXCEPT ![n] = r.map] /\ ses' = [ses EXCEPT ![n] = r.ses]
       /\ cmd' = [cmd EXCEPT ![n] = @ \/ r.cmd] /\ out' = [out EXCEPT ![n] = FALSE]
       /\ net' = (net \ {[from |-> s.addr, to |-> n, flag |-> heard]}) \cup r.sent

------------------------------------------------------------------------------
(* What a node does. *)

\* A message for a session.
SessionHears(n) ==
  /\ \E s \in ses[n], x \in net :
       /\ x.to = n /\ x.from = s.addr /\ x.flag # "HELLO"
       /\ Round(n, s, x.flag, "NORMAL")
  /\ UNCHANGED <<clocks, counts>>

\* Without a session nothing reads it.
Unheard(n) ==
  /\ \E x \in net : x.to = n /\ x.flag # "HELLO" /\ ~On(n, x.from) /\ net' = net \ {x}
  /\ UNCHANGED <<local, clocks, counts>>

\* The timer of session s.  bounds: keepalives and HELLOs arrive before the
\* next tick of a clock, and the clocks run alike but for one tick in Slack.
SessionTick(n, s) ==
  LET a == s.addr
      p == {n, a}
  IN  /\ \A x \in net : {x.from, x.to} = p => x.flag \notin {"MAINTAIN", "HELLO"}
      /\ On(a, n) /\ last[p] = n => since[p] >= Slack
      /\ last' = [last EXCEPT ![p] = n]
      /\ since' = [since EXCEPT ![p] = IF ~On(a, n) THEN Slack ELSE IF last[p] = n THEN 0
                                       ELSE IF @ < Slack THEN @ + 1 ELSE @]
      /\ \E state \in {"OVERTIME", "LAST"} : Round(n, s, "nothing", state)
Tick(n) == (\E s \in ses[n] : SessionTick(n, s)) /\ UNCHANGED counts

\* A round in which no session has anything to do.
Flush(n) ==
  /\ out[n]
  /\ LET H == StdoutPipeFlush(map[n], TRUE)
     IN  /\ net' = net \cup Sent(n, H) /\ cmd' = [cmd EXCEPT ![n] = @ \/ Reaches(H, "cmd")]
  /\ out' = [out EXCEPT ![n] = FALSE]
  /\ UNCHANGED <<map, ses, clocks, counts>>

\* The bridge has connected n to a: the one that hears a HELLO first starts
\* its session and greets the other, which starts its own.
Connected(n, a) ==
  /\ connects < MaxConnects /\ May /\ connects' = connects + 1
  /\ SessionStart(n, a)
  /\ Written(n, Starts(n, a), net \cup {[from |-> n, to |-> a, flag |-> "HELLO"]})
  /\ UNCHANGED <<clocks, faults, lines, links>>

\* It is greeted several times (BdgClientMultiSendNotify).
Greeted(n) ==
  /\ \E x \in net : \E rest \in {net, net \ {x}} :
       /\ x.to = n /\ x.flag = "HELLO"
       /\ SessionStart(n, x.from) /\ Written(n, Starts(n, x.from), rest)
  /\ UNCHANGED <<clocks, counts>>

\* StdinThread: "control" leads stdin back to cmd, any other line flows.
StdinLine(n) ==
  /\ n \in Users /\ lines < MaxLines /\ May /\ lines' = lines + 1
  /\ \/ map' = [map EXCEPT ![n] = PipeDirectOnlyTo(@, "stdin", "cmd")] /\ UNCHANGED <<out, cmd, net>>
     \/ Written(n, PipeFlow(map[n], "stdin"), net) /\ UNCHANGED map
  /\ UNCHANGED <<ses, clocks, faults, connects, links>>

\* pipe, pipeonly and pipereset, whoever the line is from.
PipeCommand(n) ==
  /\ links < MaxLinks /\ links' = links + 1
  /\ \/ \E l \in UserLinks : /\ {l[1], l[2]} \subseteq Pipes(map[n])
                             /\ \/ map' = [map EXCEPT ![n] = PipeDirectTo(@, l[1], l[2])]
                                \/ map' = [map EXCEPT ![n] = PipeDirectOnlyTo(@, l[1], l[2])]
     \/ map' = [map EXCEPT ![n] = PipeReset(@)]

\* BackGround runs a line, and prints.
BackGround(n) ==
  /\ cmd[n]
  /\ PipeCommand(n) \/ UNCHANGED <<map, links>>
  /\ LET F == Prompt(map'[n])
     IN  /\ out' = [out EXCEPT ![n] = @ \/ Reaches(F, "stdout")]
         /\ cmd' = [cmd EXCEPT ![n] = FALSE]
         /\ net' = net \cup Sent(n, F)
  /\ UNCHANGED <<ses, clocks, faults, connects, lines>>

\* The program ends, or the machine; it is started again, and forgets.
Crash(n) ==
  /\ faults < MaxFaults /\ May /\ faults' = faults + 1
  /\ map' = [map EXCEPT ![n] = FirstMap] /\ ses' = [ses EXCEPT ![n] = {}]
  /\ out' = [out EXCEPT ![n] = FALSE] /\ cmd' = [cmd EXCEPT ![n] = FALSE]
  /\ UNCHANGED <<net, clocks, connects, lines, links>>

Lose ==
  /\ faults < MaxFaults /\ May /\ faults' = faults + 1
  /\ \E x \in net : net' = net \ {x}
  /\ UNCHANGED <<local, clocks, connects, lines, links>>

Main == \E n \in Node : Unheard(n) \/ Greeted(n) \/ SessionHears(n) \/ Tick(n)
Next == \/ Main \/ Lose
        \/ \E n \in Node : \/ Flush(n) \/ StdinLine(n) \/ BackGround(n) \/ Crash(n)
                           \/ \E a \in Node \ {n} : Connected(n, a)

\* The main loops run: time passes, and messages arrive.
Spec == Init /\ [][Next]_vars /\ WF_vars(Main)

------------------------------------------------------------------------------

\* Whatever users and peers direct and cut, and whichever sessions end.
PipesLinked == \A n \in Node : Linked(map[n])

\* A session's pipe is there exactly as long as its process: what flows into
\* it finds the process (pFlowPa), and a peer has one process only.
PipesTellSessions ==
  \A n \in Node :
    /\ Pipes(map[n]) = Fixed \cup {s.addr : s \in ses[n]}
    /\ \A s, t \in ses[n] : s.addr = t.addr => s = t

\* "make sure only pipe once" (session.c 77, 96, 117, 133): no round adds a
\* second connection between two pipes.
Connections(m, p, q) == Cardinality({c \in m.dirs[p] : m.to[c] = q})
PipesOnce ==
  [][ \A n \in Node : (SessionHears(n) \/ Tick(n)) =>
        \A p, q \in Pipes(map'[n]) :
          Connections(map'[n], p, q) <= 1 \/
          Connections(map'[n], p, q) <= Connections(map[n], p, q) ]_vars

\* With the retries of conditions 1 and 2, a session does not end while the
\* other side keeps its own, unless something was lost or restarted, and for
\* all the drift of the clocks.
KeptAlive ==
  [][ \A n \in Node, a \in Node :
        On(n, a) /\ ~On(n, a)' /\ On(a, n) => faults' > 0 ]_vars

\* A side whose peer has ended, or never started, ends as well, if the peer
\* does not start again.
HalfEnds == \A n \in Node : \A a \in Node \ {n} :
              On(n, a) /\ ~On(a, n) ~> ~On(n, a) \/ On(a, n)
=============================================================================
