--------------------------- MODULE SessionProofs ---------------------------
(***************************************************************************)
(* The pipes stay linked and tell the sessions, no round connects two of   *)
(* them again, and no session ends while the other side keeps its own and  *)
(* nothing is lost, for any number of nodes, sessions, users, losses and   *)
(* crashes.                                                                *)
(***************************************************************************)
EXTENDS Session, FiniteSetTheorems, TLAPS

\* A table of pipes of the right types, whose connections are whole.
Sound(m) == PipeTable(m) /\ Linked(m)

\* PipeMap adds the pipe and leaves the connections.
LEMMA PipeMapSound ==
  ASSUME NEW m, Sound(m), NEW p \in PipeName
  PROVE  Sound(PipeMap(m, p)) /\ Pipes(PipeMap(m, p)) = Pipes(m) \cup {p}
<1>1. Pipes(PipeMap(m, p)) = Pipes(m) \cup {p}
  BY DEF PipeMap, Pipes
<1>2. PipeTable(PipeMap(m, p))
  BY <1>1 DEF Sound, PipeTable, Linked, PipeMap, Pipes
<1>3. Linked(PipeMap(m, p))
  BY <1>1, PipeAssumption DEF Sound, PipeTable, Linked, PipeMap, Pipes
<1> QED BY <1>1, <1>2, <1>3 DEF Sound

\* MakeConnection takes a connection that is not in use.
LEMMA ConnectionSound ==
  ASSUME NEW m, Sound(m), NEW p \in Pipes(m), NEW q \in Pipes(m)
  PROVE  Sound(MakeConnection(m, p, q)) /\ Pipes(MakeConnection(m, p, q)) = Pipes(m)
<1>1. CASE Unused(m) = {}
  BY <1>1 DEF MakeConnection
<1>2. CASE Unused(m) # {}
  <2>1. PICK c \in ConnID : /\ m.from[c] = NoPipe
                            /\ MakeConnection(m, p, q) =
                                 [dirs |-> [m.dirs EXCEPT ![p] = @ \cup {c}],
                                  refs |-> [m.refs EXCEPT ![q] = @ \cup {c}],
                                  from |-> [m.from EXCEPT ![c] = p],
                                  to   |-> [m.to EXCEPT ![c] = q]]
    BY <1>2 DEF MakeConnection, Unused
  <2>2. PICK k : k = MakeConnection(m, p, q)
    OBVIOUS
  <2>3. Pipes(k) = Pipes(m)
    BY <2>1, <2>2 DEF Pipes
  <2>4. p \in PipeName /\ q \in PipeName /\ NoPipe \notin Pipes(m)
    BY PipeAssumption DEF Sound, PipeTable
  <2>5. PipeTable(k)
    BY <2>1, <2>2, <2>3, <2>4 DEF Sound, PipeTable, Pipes
  <2>6. /\ m.dirs \in [Pipes(m) -> SUBSET ConnID] /\ m.refs \in [Pipes(m) -> SUBSET ConnID]
        /\ m.from \in [ConnID -> PipeName \cup {NoPipe}] /\ m.to \in [ConnID -> PipeName \cup {NoPipe}]
    BY DEF Sound, PipeTable
  <2>7. Pipes(k) = DOMAIN k.refs
    BY <2>1, <2>2, <2>3, <2>6 DEF Sound, Linked
  <2>8. ASSUME NEW d \in ConnID
        PROVE  /\ k.from[d] \in Pipes(k) \cup {NoPipe} /\ k.to[d] \in Pipes(k) \cup {NoPipe}
               /\ k.from[d] = NoPipe <=> k.to[d] = NoPipe
               /\ \A r \in Pipes(k) : /\ d \in k.dirs[r] <=> r = k.from[d]
                                      /\ d \in k.refs[r] <=> r = k.to[d]
    <3>1. CASE d = c
      <4>1. k.from[d] = p /\ k.to[d] = q
        BY <2>1, <2>2, <2>6, <3>1
      <4>2. \A r \in Pipes(m) : d \notin m.dirs[r] /\ d \notin m.refs[r]
        BY <2>1, <2>4, <3>1 DEF Sound, Linked
      <4>3. \A r \in Pipes(m) : d \in k.dirs[r] <=> r = p
        BY <2>1, <2>2, <2>6, <3>1, <4>2
      <4>4. \A r \in Pipes(m) : d \in k.refs[r] <=> r = q
        <5>1. DOMAIN m.refs = Pipes(m)
          BY DEF Sound, Linked
        <5> QED BY <2>1, <2>2, <2>6, <3>1, <4>2, <5>1
      <4> QED BY <2>3, <2>4, <4>1, <4>3, <4>4
    <3>2. CASE d # c
      <4>1. k.from[d] = m.from[d] /\ k.to[d] = m.to[d]
        BY <2>1, <2>2, <2>6, <3>2
      <4>2. \A r \in Pipes(m) : d \in k.dirs[r] <=> d \in m.dirs[r]
        BY <2>1, <2>2, <2>6, <3>2
      <4>3. \A r \in Pipes(m) : d \in k.refs[r] <=> d \in m.refs[r]
        BY <2>1, <2>2, <2>6, <3>2 DEF Sound, Linked
      <4> QED BY <2>3, <4>1, <4>2, <4>3 DEF Sound, Linked
    <3> QED BY <3>1, <3>2
  <2>9. Linked(k)
    BY <2>7, <2>8 DEF Linked
  <2> QED BY <2>2, <2>3, <2>5, <2>9 DEF Sound
<1> QED BY <1>1, <1>2

\* Cutting a pipe's directions frees both halves of each.
LEMMA CutDirectionsSound ==
  ASSUME NEW m, Sound(m), NEW p \in Pipes(m)
  PROVE  /\ Sound(CutDirections(m, p)) /\ Pipes(CutDirections(m, p)) = Pipes(m)
         /\ \A c \in ConnID : CutDirections(m, p).from[c] # p
<1> DEFINE k == CutDirections(m, p)
<1>1. Pipes(k) = Pipes(m)
  BY DEF CutDirections, Pipes
<1>2. PipeTable(k)
  BY <1>1 DEF CutDirections, Sound, PipeTable, Linked, Pipes
<1>3. p # NoPipe
  BY PipeAssumption DEF Sound, PipeTable
<1>4. ASSUME NEW c \in ConnID
      PROVE  /\ k.from[c] \in Pipes(m) \cup {NoPipe} /\ k.to[c] \in Pipes(m) \cup {NoPipe}
             /\ k.from[c] = NoPipe <=> k.to[c] = NoPipe
             /\ \A r \in Pipes(m) : /\ c \in k.dirs[r] <=> r = k.from[c]
                                    /\ c \in k.refs[r] <=> r = k.to[c]
  <2>1. /\ m.from[c] \in Pipes(m) \cup {NoPipe} /\ m.to[c] \in Pipes(m) \cup {NoPipe}
        /\ m.from[c] = NoPipe <=> m.to[c] = NoPipe
        /\ \A r \in Pipes(m) : /\ c \in m.dirs[r] <=> r = m.from[c]
                               /\ c \in m.refs[r] <=> r = m.to[c]
    BY DEF Sound, Linked
  <2>2. NoPipe \notin Pipes(m)
    BY PipeAssumption DEF Sound, PipeTable
  <2>3. CASE m.from[c] = p
    <3>1. c \in m.dirs[p] /\ k.from[c] = NoPipe /\ k.to[c] = NoPipe
      BY <2>1, <2>3 DEF CutDirections
    <3>2. \A r \in Pipes(m) : c \notin k.dirs[r]
      BY <2>1, <2>3 DEF CutDirections, Pipes
    <3>3. \A r \in Pipes(m) : c \notin k.refs[r]
      BY <2>1, <3>1 DEF CutDirections
    <3> QED BY <2>2, <3>1, <3>2, <3>3
  <2>4. CASE m.from[c] # p
    <3>1. c \notin m.dirs[p] /\ k.from[c] = m.from[c] /\ k.to[c] = m.to[c]
      BY <2>1, <2>4 DEF CutDirections
    <3>2. \A r \in Pipes(m) : c \in k.dirs[r] <=> c \in m.dirs[r]
      BY <2>1, <3>1 DEF CutDirections, Pipes
    <3>3. \A r \in Pipes(m) : c \in k.refs[r] <=> c \in m.refs[r]
      BY <3>1 DEF CutDirections
    <3> QED BY <2>1, <3>1, <3>2, <3>3
  <2> QED BY <2>3, <2>4
<1>5. Linked(k)
  <2>1. Pipes(m) = DOMAIN k.refs
    BY DEF CutDirections
  <2> QED BY <1>1, <1>4, <2>1 DEF Linked
<1>6. \A c \in ConnID : k.from[c] # p
  BY <1>3 DEF CutDirections, Sound, Linked, Pipes
<1> QED BY <1>1, <1>2, <1>5, <1>6 DEF Sound

\* Cutting its references does, and brings back no direction.
LEMMA CutReferencesSound ==
  ASSUME NEW m, Sound(m), NEW p \in Pipes(m)
  PROVE  /\ Sound(CutReferences(m, p)) /\ Pipes(CutReferences(m, p)) = Pipes(m)
         /\ \A c \in ConnID : /\ CutReferences(m, p).to[c] # p
                              /\ m.from[c] # p => CutReferences(m, p).from[c] # p
<1> DEFINE k == CutReferences(m, p)
<1>1. Pipes(k) = Pipes(m)
  BY DEF CutReferences, Pipes, Sound, Linked
<1>2. PipeTable(k)
  BY <1>1 DEF CutReferences, Sound, PipeTable, Linked, Pipes
<1>3. p # NoPipe
  BY PipeAssumption DEF Sound, PipeTable
<1>4. ASSUME NEW c \in ConnID
      PROVE  /\ k.from[c] \in Pipes(m) \cup {NoPipe} /\ k.to[c] \in Pipes(m) \cup {NoPipe}
             /\ k.from[c] = NoPipe <=> k.to[c] = NoPipe
             /\ \A r \in Pipes(m) : /\ c \in k.dirs[r] <=> r = k.from[c]
                                    /\ c \in k.refs[r] <=> r = k.to[c]
  <2>1. /\ m.from[c] \in Pipes(m) \cup {NoPipe} /\ m.to[c] \in Pipes(m) \cup {NoPipe}
        /\ m.from[c] = NoPipe <=> m.to[c] = NoPipe
        /\ \A r \in Pipes(m) : /\ c \in m.dirs[r] <=> r = m.from[c]
                               /\ c \in m.refs[r] <=> r = m.to[c]
    BY DEF Sound, Linked
  <2>2. NoPipe \notin Pipes(m) /\ Pipes(m) = DOMAIN m.refs
    BY PipeAssumption DEF Sound, PipeTable, Linked
  <2>3. CASE m.to[c] = p
    <3>1. c \in m.refs[p] /\ k.from[c] = NoPipe /\ k.to[c] = NoPipe
      BY <2>1, <2>3 DEF CutReferences
    <3>2. \A r \in Pipes(m) : c \notin k.refs[r]
      BY <2>1, <2>2, <2>3 DEF CutReferences
    <3>3. \A r \in Pipes(m) : c \notin k.dirs[r]
      BY <2>1, <3>1 DEF CutReferences
    <3> QED BY <2>2, <3>1, <3>2, <3>3
  <2>4. CASE m.to[c] # p
    <3>1. c \notin m.refs[p] /\ k.from[c] = m.from[c] /\ k.to[c] = m.to[c]
      BY <2>1, <2>4 DEF CutReferences
    <3>2. \A r \in Pipes(m) : c \in k.refs[r] <=> c \in m.refs[r]
      BY <2>1, <2>2, <3>1 DEF CutReferences
    <3>3. \A r \in Pipes(m) : c \in k.dirs[r] <=> c \in m.dirs[r]
      BY <3>1 DEF CutReferences
    <3> QED BY <2>1, <3>1, <3>2, <3>3
  <2> QED BY <2>3, <2>4
<1>5. Linked(k)
  <2>1. Pipes(m) = DOMAIN k.refs
    BY DEF CutReferences, Sound, Linked
  <2> QED BY <1>1, <1>4, <2>1 DEF Linked
<1>6. \A c \in ConnID : k.to[c] # p /\ (m.from[c] # p => k.from[c] # p)
  BY <1>3 DEF CutReferences, Sound, Linked, Pipes
<1> QED BY <1>1, <1>2, <1>5, <1>6 DEF Sound

\* A pipe that no connection leads from or to can go.
LEMMA WithoutSound ==
  ASSUME NEW m, Sound(m), NEW p \in Pipes(m),
         \A c \in ConnID : m.from[c] # p /\ m.to[c] # p
  PROVE  Sound(Without(m, p)) /\ Pipes(Without(m, p)) = Pipes(m) \ {p}
<1>1. Pipes(Without(m, p)) = Pipes(m) \ {p}
  BY DEF Without, Pipes
<1>2. PipeTable(Without(m, p))
  BY <1>1 DEF Without, Sound, PipeTable, Linked, Pipes
<1>3. Linked(Without(m, p))
  BY <1>1 DEF Without, Sound, PipeTable, Linked, Pipes
<1> QED BY <1>1, <1>2, <1>3 DEF Sound

\* PipeDele leaves no half of a connection of the pipe that goes.
LEMMA PipeDeleSound ==
  ASSUME NEW m, Sound(m), NEW p \in Pipes(m)
  PROVE  Sound(PipeDele(m, p)) /\ Pipes(PipeDele(m, p)) = Pipes(m) \ {p}
<1> DEFINE d == CutDirections(m, p)
           r == CutReferences(d, p)
<1>1. Sound(d) /\ Pipes(d) = Pipes(m) /\ \A c \in ConnID : d.from[c] # p
  BY CutDirectionsSound
<1>2. Sound(r) /\ Pipes(r) = Pipes(m) /\ \A c \in ConnID : r.to[c] # p /\ r.from[c] # p
  <2> HIDE DEF d
  <2> QED BY <1>1, CutReferencesSound
<1>3. Sound(Without(r, p)) /\ Pipes(Without(r, p)) = Pipes(m) \ {p}
  <2> HIDE DEF r
  <2> QED BY <1>2, WithoutSound
<1> QED BY <1>3 DEF PipeDele

\* PipeDirectOnlyTo cuts first.
LEMMA DirectOnlySound ==
  ASSUME NEW m, Sound(m), NEW p \in Pipes(m), NEW q \in Pipes(m)
  PROVE  Sound(PipeDirectOnlyTo(m, p, q)) /\ Pipes(PipeDirectOnlyTo(m, p, q)) = Pipes(m)
<1> DEFINE d == CutDirections(m, p)
<1>1. Sound(d) /\ Pipes(d) = Pipes(m)
  BY CutDirectionsSound
<1>2. Sound(MakeConnection(d, p, q)) /\ Pipes(MakeConnection(d, p, q)) = Pipes(m)
  <2> HIDE DEF d
  <2> QED BY <1>1, ConnectionSound
<1> QED BY <1>2 DEF PipeDirectOnlyTo

\* PipeReset leaves the pipes and no connection.
LEMMA PipeResetSound ==
  ASSUME NEW m, Sound(m)
  PROVE  Sound(PipeReset(m)) /\ Pipes(PipeReset(m)) = Pipes(m)
<1>1. Pipes(PipeReset(m)) = Pipes(m)
  BY DEF PipeReset, Pipes
<1>2. PipeTable(PipeReset(m))
  BY <1>1 DEF PipeReset, Sound, PipeTable, Pipes
<1>3. Linked(PipeReset(m))
  BY <1>1, PipeAssumption DEF PipeReset, Sound, PipeTable, Linked, Pipes
<1> QED BY <1>1, <1>2, <1>3 DEF Sound

------------------------------------------------------------------------------
(* A node's pipes and sessions, which every step changes together. *)

Maintains(s) == DOMAIN s = {"addr", "alive", "left"} /\ s.addr \in Node

NodeInv(m, S) ==
  /\ Sound(m) /\ Pipes(m) = Fixed \cup {s.addr : s \in S}
  /\ \A s \in S : Maintains(s)
  /\ \A s, t \in S : s.addr = t.addr => s = t

IInv == /\ DOMAIN map = Node /\ DOMAIN ses = Node
        /\ \A n \in Node : NodeInv(map[n], ses[n])
        /\ \A x \in net : x.from \in Node

\* Directions between pipes that are there.
LEMMA DirectToSound ==
  ASSUME NEW m, Sound(m), NEW p \in Pipes(m), NEW q \in Pipes(m)
  PROVE  /\ Sound(PipeDirectTo(m, p, q)) /\ Pipes(PipeDirectTo(m, p, q)) = Pipes(m)
         /\ Sound(DirectOnce(m, p, q)) /\ Pipes(DirectOnce(m, p, q)) = Pipes(m)
BY ConnectionSound DEF DirectOnce, PipeDirectTo

\* The pipes every node starts with.
LEMMA FirstMapSound == NodeInv(FirstMap, {})
<1> DEFINE all == [NoPipes EXCEPT !.dirs = [p \in Fixed |-> {}], !.refs = [p \in Fixed |-> {}]]
<1>1. Fixed \subseteq PipeName
  BY SessionAssumption
<1>2. /\ all.dirs = [p \in Fixed |-> {}] /\ all.refs = [p \in Fixed |-> {}]
      /\ all.from = [c \in ConnID |-> NoPipe] /\ all.to = [c \in ConnID |-> NoPipe]
  BY DEF NoPipes
<1>3. Pipes(all) = Fixed
  BY <1>2 DEF Pipes
<1>4. Sound(all)
  BY <1>1, <1>2, <1>3, PipeAssumption DEF Sound, PipeTable, Linked
<1>5. {"UsualPrompt", "stdout", "stdin", "cmd"} \subseteq Fixed
  BY DEF Fixed
<1>6. PICK k : k = PipeDirectTo(all, "UsualPrompt", "stdout")
  OBVIOUS
<1>7. Sound(k) /\ Pipes(k) = Fixed
  <2> HIDE DEF all
  <2> QED BY <1>3, <1>4, <1>5, <1>6, DirectToSound
<1>8. Sound(PipeDirectTo(k, "stdin", "cmd")) /\ Pipes(PipeDirectTo(k, "stdin", "cmd")) = Fixed
  BY <1>5, <1>7, DirectToSound
<1> QED BY <1>6, <1>8 DEF FirstMap, NodeInv

\* A session starts with its pipe, and only when there is none.
LEMMA StartInv ==
  ASSUME IInv, NEW n \in Node, NEW a \in Node, SessionStart(n, a)
  PROVE  /\ DOMAIN map' = Node /\ DOMAIN ses' = Node
         /\ \A k \in Node : NodeInv(map'[k], ses'[k])
<1>1. CASE a \in Pipes(map[n])
  BY <1>1 DEF SessionStart, IInv
<1>2. CASE a \notin Pipes(map[n])
  <2>1. /\ map' = [map EXCEPT ![n] = PipeMap(@, a)]
        /\ ses' = [ses EXCEPT ![n] = @ \cup {NewSession(a)}]
    BY <1>2 DEF SessionStart
  <2>2. NodeInv(map[n], ses[n]) /\ a \in PipeName
    BY SessionAssumption DEF IInv
  <2>3. Sound(PipeMap(map[n], a)) /\ Pipes(PipeMap(map[n], a)) = Pipes(map[n]) \cup {a}
    BY <2>2, PipeMapSound DEF NodeInv
  <2>4. Maintains(NewSession(a)) /\ NewSession(a).addr = a
    BY DEF Maintains, NewSession
  <2>5. PICK s : s = NewSession(a)
    OBVIOUS
  <2>6. NodeInv(PipeMap(map[n], a), ses[n] \cup {s})
    BY <1>2, <2>2, <2>3, <2>4, <2>5 DEF NodeInv
  <2> QED BY <2>1, <2>5, <2>6 DEF IInv
<1> QED BY <1>1, <1>2

\* What a message directs is between pipes that are there.
LEMMA DirectedSound ==
  ASSUME NEW m, NEW S, NodeInv(m, S), NEW s \in S, NEW heard
  PROVE  NodeInv(Directed(m, s.addr, heard), S)
<1>1. Sound(m) /\ {s.addr, "cmd", "stdout", "stdin"} \subseteq Pipes(m)
  BY DEF NodeInv, Fixed
<1>2. ASSUME NEW p \in Pipes(m), NEW q \in Pipes(m), NEW r \in Pipes(m), NEW t \in Pipes(m)
      PROVE  /\ Sound(DirectOnce(DirectOnce(m, p, q), r, t))
             /\ Pipes(DirectOnce(DirectOnce(m, p, q), r, t)) = Pipes(m)
  <2>1. PICK k : k = DirectOnce(m, p, q)
    OBVIOUS
  <2>2. Sound(k) /\ Pipes(k) = Pipes(m)
    BY <1>1, <2>1, DirectToSound
  <2>3. Sound(DirectOnce(k, r, t)) /\ Pipes(DirectOnce(k, r, t)) = Pipes(m)
    BY <2>2, DirectToSound
  <2> QED BY <2>1, <2>3
<1>3. Sound(Directed(m, s.addr, heard)) /\ Pipes(Directed(m, s.addr, heard)) = Pipes(m)
  BY <1>1, <1>2 DEF Directed
<1> QED BY <1>3 DEF NodeInv

\* A session that ends takes its pipe with it.
LEMMA EndInv ==
  ASSUME NEW m, NEW S, NodeInv(m, S), NEW s \in S
  PROVE  NodeInv(PipeDele(m, s.addr), S \ {s})
<1>1. s.addr \in Node /\ s.addr \in Pipes(m) /\ s.addr \notin Fixed
  BY SessionAssumption DEF NodeInv, Maintains
<1>2. Sound(PipeDele(m, s.addr)) /\ Pipes(PipeDele(m, s.addr)) = Pipes(m) \ {s.addr}
  BY <1>1, PipeDeleSound DEF NodeInv
<1> QED BY <1>1, <1>2 DEF NodeInv

\* One that goes on is the session it was.
LEMMA GoesOnInv ==
  ASSUME NEW m, NEW S, NodeInv(m, S), NEW s \in S, NEW t, Maintains(t), t.addr = s.addr
  PROVE  NodeInv(m, (S \ {s}) \cup {t})
BY DEF NodeInv

\* A round changes one session, or ends it.
LEMMA RoundInv ==
  ASSUME IInv, NEW n \in Node, NEW s \in ses[n], NEW heard, NEW state, Round(n, s, heard, state)
  PROVE  IInv'
<1>1. NodeInv(map[n], ses[n])
  BY DEF IInv
<1>2. PICK m : m = Directed(map[n], s.addr, heard)
  OBVIOUS
<1>3. NodeInv(m, ses[n])
  BY <1>1, <1>2, DirectedSound
<1>4. PICK r : r = After(n, s, heard, state, m, Flowing(m, s.addr, heard))
  OBVIOUS
<1>5. /\ map' = [map EXCEPT ![n] = r.map] /\ ses' = [ses EXCEPT ![n] = r.ses]
      /\ net' = (net \ {[from |-> s.addr, to |-> n, flag |-> heard]}) \cup r.sent
  BY <1>2, <1>4 DEF Round
<1>6. NodeInv(r.map, r.ses)
  <2> DEFINE t == [s EXCEPT !.alive = IfAlive(s, heard)]
  <2>1. Maintains(t) /\ t.addr = s.addr
    BY <1>1 DEF NodeInv, Maintains
  <2>2. CASE state = "LAST" /\ ~t.alive
    <3>1. r.map = PipeDele(m, s.addr) /\ r.ses = ses[n] \ {s}
      BY <1>4, <2>2 DEF After
    <3> QED BY <1>3, <3>1, EndInv
  <2>3. CASE ~(state = "LAST" /\ ~t.alive)
    <3>1. PICK u : /\ u = CASE state = "OVERTIME" -> [t EXCEPT !.left = @ - 1]
                            [] state = "LAST" -> LastTime(t) [] OTHER -> t
                   /\ r.map = m /\ r.ses = (ses[n] \ {s}) \cup {u}
      BY <1>4, <2>3 DEF After
    <3>2. Maintains(u) /\ u.addr = s.addr
      <4> HIDE DEF t
      <4> QED BY <2>1, <3>1 DEF Maintains, LastTime
    <3>3. NodeInv(m, (ses[n] \ {s}) \cup {u})
      BY <1>3, <3>2, GoesOnInv
    <3> QED BY <3>1, <3>3
  <2> QED BY <2>2, <2>3
<1>7. \A x \in r.sent : x.from \in Node
  BY <1>4 DEF After, Sent
<1> QED BY <1>5, <1>6, <1>7 DEF IInv

\* A change of one node's directions leaves its pipes.
LEMMA LinksInv ==
  ASSUME IInv, NEW n \in Node, NEW m, Sound(m), Pipes(m) = Pipes(map[n]),
         map' = [map EXCEPT ![n] = m], ses' = ses
  PROVE  /\ DOMAIN map' = Node /\ DOMAIN ses' = Node
         /\ \A k \in Node : NodeInv(map'[k], ses'[k])
BY DEF IInv, NodeInv

\* The inductive invariant holds first, and every step keeps it.
LEMMA InitInv == Init => IInv
<1> SUFFICES ASSUME Init PROVE IInv
  OBVIOUS
<1>1. ses = [n \in Node |-> {}] /\ net = {}
  BY DEF Init
<1>2. CASE map = [n \in Node |-> FirstMap]
  BY <1>1, <1>2, FirstMapSound DEF IInv
<1>3. ASSUME NEW u \in Users, NEW l \in UserLinks, {l[1], l[2]} \subseteq Fixed,
             map = [n \in Node |-> IF n = u THEN PipeDirectTo(FirstMap, l[1], l[2]) ELSE FirstMap]
      PROVE  IInv
  <2>1. Sound(FirstMap) /\ Pipes(FirstMap) = Fixed
    BY FirstMapSound DEF NodeInv
  <2>2. NodeInv(PipeDirectTo(FirstMap, l[1], l[2]), {})
    BY <1>3, <2>1, DirectToSound DEF NodeInv
  <2> QED BY <1>1, <1>3, <2>2, FirstMapSound DEF IInv
<1> QED BY <1>2, <1>3 DEF Init

LEMMA NextInv == IInv /\ [Next]_vars => IInv'
<1> SUFFICES ASSUME IInv, [Next]_vars PROVE IInv'
  OBVIOUS
<1>1. CASE UNCHANGED vars
  BY <1>1 DEF IInv, vars, local
<1>2. ASSUME NEW n \in Node, Unheard(n) PROVE IInv'
  BY <1>2 DEF Unheard, local, IInv
<1>3. ASSUME NEW n \in Node, Greeted(n) PROVE IInv'
  <2>1. PICK x \in net, rest \in SUBSET net :
               SessionStart(n, x.from) /\ Written(n, Starts(n, x.from), rest)
    BY <1>3 DEF Greeted
  <2>2. \A y \in net' : y.from \in Node
    BY <2>1 DEF IInv, Written, Sent
  <2> QED BY <2>1, <2>2, StartInv DEF IInv
<1>4. ASSUME NEW n \in Node, SessionHears(n) PROVE IInv'
  BY <1>4, RoundInv DEF SessionHears
<1>5. ASSUME NEW n \in Node, Tick(n) PROVE IInv'
  BY <1>5, RoundInv DEF Tick, SessionTick
<1>6. CASE Lose
  BY <1>6 DEF Lose, local, IInv
<1>7. ASSUME NEW n \in Node, Flush(n) PROVE IInv'
  <2>1. PICK H : /\ net' = net \cup Sent(n, H) /\ UNCHANGED <<map, ses>>
    BY <1>7 DEF Flush
  <2>2. \A x \in Sent(n, H) : x.from = n
    BY DEF Sent
  <2> QED BY <2>1, <2>2 DEF IInv
<1>8. ASSUME NEW n \in Node, NEW a \in Node \ {n}, Connected(n, a) PROVE IInv'
  <2>1. SessionStart(n, a) /\ Written(n, Starts(n, a), net \cup {[from |-> n, to |-> a, flag |-> "HELLO"]})
    BY <1>8 DEF Connected
  <2>2. \A x \in net' : x.from \in Node
    BY <2>1 DEF IInv, Written, Sent
  <2> QED BY <2>1, <2>2, StartInv DEF IInv
<1>9. ASSUME NEW n \in Node, StdinLine(n) PROVE IInv'
  <2>1. CASE map' = [map EXCEPT ![n] = PipeDirectOnlyTo(@, "stdin", "cmd")] /\ UNCHANGED <<out, cmd, net>>
    <3>1. Sound(map[n]) /\ {"stdin", "cmd"} \subseteq Pipes(map[n])
      BY DEF IInv, NodeInv, Fixed
    <3>2. /\ Sound(PipeDirectOnlyTo(map[n], "stdin", "cmd"))
          /\ Pipes(PipeDirectOnlyTo(map[n], "stdin", "cmd")) = Pipes(map[n])
      BY <3>1, DirectOnlySound
    <3>3. /\ ses' = ses /\ net' = net
          /\ map' = [map EXCEPT ![n] = PipeDirectOnlyTo(map[n], "stdin", "cmd")]
      BY <1>9, <2>1 DEF StdinLine
    <3>4. PICK m : m = PipeDirectOnlyTo(map[n], "stdin", "cmd")
      OBVIOUS
    <3> QED BY <3>2, <3>3, <3>4, LinksInv DEF IInv
  <2>2. CASE Written(n, PipeFlow(map[n], "stdin"), net) /\ UNCHANGED map
    BY <1>9, <2>2 DEF StdinLine, Written, Sent, IInv
  <2> QED BY <1>9, <2>1, <2>2 DEF StdinLine
<1>10. ASSUME NEW n \in Node, BackGround(n) PROVE IInv'
  <2>1. ses' = ses /\ \A x \in net' : x.from \in Node
    BY <1>10 DEF BackGround, Sent, IInv
  <2>2. CASE UNCHANGED map
    BY <2>1, <2>2 DEF IInv
  <2>3. CASE PipeCommand(n)
    <3>1. Sound(map[n])
      BY DEF IInv, NodeInv
    <3>2. PICK m : Sound(m) /\ Pipes(m) = Pipes(map[n]) /\ map' = [map EXCEPT ![n] = m]
      BY <2>3, <3>1, DirectToSound, DirectOnlySound, PipeResetSound DEF PipeCommand
    <3> QED BY <2>1, <3>2, LinksInv DEF IInv
  <2> QED BY <1>10, <2>2, <2>3 DEF BackGround
<1>11. ASSUME NEW n \in Node, Crash(n) PROVE IInv'
  BY <1>11, FirstMapSound DEF Crash, IInv
<1> QED BY <1>1, <1>2, <1>3, <1>4, <1>5, <1>6, <1>7, <1>8, <1>9, <1>10, <1>11 DEF Next, Main

LEMMA Invariant == Spec => []IInv
<1> QED BY InitInv, NextInv, PTL DEF Spec

\* Every half of a connection is in its list as long as the other half is in
\* the other's (CutConnections, PipeDele), for any number of nodes and pipes.
THEOREM PipesStayLinked == Spec => []PipesLinked
<1>1. IInv => PipesLinked
  BY DEF IInv, NodeInv, Sound, PipesLinked
<1> QED BY <1>1, Invariant, PTL

\* A session has its pipe as long as it has its process, and there is one of
\* each to a peer (SessionStart, SessionOvertimeNotify).
THEOREM SessionsTold == Spec => []PipesTellSessions
<1>1. IInv => PipesTellSessions
  BY DEF IInv, NodeInv, PipesTellSessions
<1> QED BY <1>1, Invariant, PTL

------------------------------------------------------------------------------
(* No round connects two pipes again. *)

\* From m to k no pair of pipes of k has come to two connections, or more.
NoneAgain(m, k) ==
  \A p, q \in Pipes(k) : Connections(k, p, q) <= 1 \/ Connections(k, p, q) <= Connections(m, p, q)

Between(m, p, q) == {c \in m.dirs[p] : m.to[c] = q}

LEMMA ConnectionsNat ==
  ASSUME NEW m, Sound(m), NEW p \in Pipes(m), NEW q
  PROVE  /\ IsFiniteSet(Between(m, p, q)) /\ Connections(m, p, q) \in Nat
         /\ Connections(m, p, q) = Cardinality(Between(m, p, q))
<1>1. Between(m, p, q) \in SUBSET ConnID
  BY DEF Between, Sound, PipeTable
<1>2. IsFiniteSet(Between(m, p, q))
  BY <1>1, FS_Subset, PipeAssumption
<1>3. Connections(m, p, q) = Cardinality(Between(m, p, q))
  BY DEF Connections, Between
<1> QED BY <1>2, <1>3, FS_CardinalityType

LEMMA AgainTransitive ==
  ASSUME NEW m, NEW k, NEW l, Sound(m), Sound(k), Sound(l),
         Pipes(l) \subseteq Pipes(k), Pipes(k) \subseteq Pipes(m), NoneAgain(m, k), NoneAgain(k, l)
  PROVE  NoneAgain(m, l)
<1> SUFFICES ASSUME NEW p \in Pipes(l), NEW q \in Pipes(l)
             PROVE  Connections(l, p, q) <= 1 \/ Connections(l, p, q) <= Connections(m, p, q)
  BY DEF NoneAgain
<1>1. Connections(l, p, q) \in Nat /\ Connections(k, p, q) \in Nat /\ Connections(m, p, q) \in Nat
  BY ConnectionsNat
<1>2. Connections(l, p, q) <= 1 \/ Connections(l, p, q) <= Connections(k, p, q)
  BY DEF NoneAgain
<1>3. Connections(k, p, q) <= 1 \/ Connections(k, p, q) <= Connections(m, p, q)
  BY DEF NoneAgain
<1> QED BY <1>1, <1>2, <1>3

\* What has no connection more than before.
LEMMA FewerAgain ==
  ASSUME NEW m, NEW k, Sound(m), Sound(k), Pipes(k) \subseteq Pipes(m),
         \A p, q \in Pipes(k) : Between(k, p, q) \subseteq Between(m, p, q)
  PROVE  NoneAgain(m, k)
<1> SUFFICES ASSUME NEW p \in Pipes(k), NEW q \in Pipes(k)
             PROVE  Connections(k, p, q) <= Connections(m, p, q)
  BY DEF NoneAgain
<1>1. IsFiniteSet(Between(m, p, q)) /\ Between(k, p, q) \in SUBSET Between(m, p, q)
  BY ConnectionsNat
<1>2. Cardinality(Between(k, p, q)) <= Cardinality(Between(m, p, q))
  BY <1>1, FS_Subset
<1> QED BY <1>2, ConnectionsNat

\* DirectOnce connects two pipes that were not.
LEMMA DirectOnceOnce ==
  ASSUME NEW m, Sound(m), NEW p \in Pipes(m), NEW q \in Pipes(m)
  PROVE  NoneAgain(m, DirectOnce(m, p, q))
<1>1. PICK k : k = DirectOnce(m, p, q)
  OBVIOUS
<1>2. Sound(k) /\ Pipes(k) = Pipes(m)
  BY <1>1, DirectToSound
<1>3. CASE k = m
  BY <1>3, FewerAgain, <1>1
<1>4. CASE k # m
  <2>1. k = MakeConnection(m, p, q) /\ Unused(m) # {} /\ ~ifPipeTo(m, p, q)
    BY <1>1, <1>4 DEF DirectOnce, PipeDirectTo, MakeConnection
  <2>2. PICK c \in ConnID : /\ m.from[c] = NoPipe
                            /\ k = [dirs |-> [m.dirs EXCEPT ![p] = @ \cup {c}],
                                    refs |-> [m.refs EXCEPT ![q] = @ \cup {c}],
                                    from |-> [m.from EXCEPT ![c] = p],
                                    to   |-> [m.to EXCEPT ![c] = q]]
    BY <2>1 DEF MakeConnection, Unused
  <2>3. /\ m.dirs \in [Pipes(m) -> SUBSET ConnID]
        /\ m.to \in [ConnID -> PipeName \cup {NoPipe}]
    BY DEF Sound, PipeTable
  <2>4. Between(m, p, q) = {}
    BY <2>1 DEF Between, ifPipeTo, Directions
  <2>5. Between(k, p, q) \subseteq {c}
    BY <2>2, <2>3, <2>4 DEF Between
  <2>6. ASSUME NEW r \in Pipes(m), NEW t \in Pipes(m), r # p \/ t # q
        PROVE  Between(k, r, t) \subseteq Between(m, r, t)
    <3>1. \A d \in ConnID : d # c => k.to[d] = m.to[d]
      BY <2>2, <2>3
    <3>2. \A d \in k.dirs[r] : d \in ConnID /\ ((d = c /\ r = p) \/ d \in m.dirs[r])
      BY <2>2, <2>3
    <3>3. c \notin m.dirs[r]
      BY <2>2, PipeAssumption DEF Sound, Linked, PipeTable
    <3>4. k.to[c] = q
      BY <2>2, <2>3
    <3> QED BY <2>6, <3>1, <3>2, <3>3, <3>4 DEF Between
  <2>7. Connections(k, p, q) <= 1
    <3>1. IsFiniteSet({c}) /\ Cardinality({c}) = 1
      BY FS_Singleton
    <3>2. Cardinality(Between(k, p, q)) <= 1
      BY <2>5, <3>1, FS_Subset
    <3> QED BY <1>2, <3>2, ConnectionsNat
  <2>8. ASSUME NEW r \in Pipes(m), NEW t \in Pipes(m), r # p \/ t # q
        PROVE  Connections(k, r, t) <= Connections(m, r, t)
    <3>1. IsFiniteSet(Between(m, r, t)) /\ Between(k, r, t) \in SUBSET Between(m, r, t)
      BY <2>6, <2>8, ConnectionsNat
    <3>2. Cardinality(Between(k, r, t)) <= Cardinality(Between(m, r, t))
      BY <3>1, FS_Subset
    <3> QED BY <1>2, <3>2, ConnectionsNat
  <2> QED BY <1>1, <1>2, <2>7, <2>8 DEF NoneAgain
<1> QED BY <1>3, <1>4

\* A message directs two pairs of pipes at most.
LEMMA DirectedOnce ==
  ASSUME NEW m, NEW S, NodeInv(m, S), NEW s \in S, NEW heard
  PROVE  NoneAgain(m, Directed(m, s.addr, heard))
<1>1. Sound(m) /\ {s.addr, "cmd", "stdout", "stdin"} \subseteq Pipes(m)
  BY DEF NodeInv, Fixed
<1>2. ASSUME NEW p \in Pipes(m), NEW q \in Pipes(m), NEW r \in Pipes(m), NEW t \in Pipes(m)
      PROVE  NoneAgain(m, DirectOnce(DirectOnce(m, p, q), r, t))
  <2>1. PICK k : k = DirectOnce(m, p, q)
    OBVIOUS
  <2>2. PICK l : l = DirectOnce(k, r, t)
    OBVIOUS
  <2>3. Sound(k) /\ Pipes(k) = Pipes(m) /\ NoneAgain(m, k)
    BY <1>1, <2>1, DirectToSound, DirectOnceOnce
  <2>4. Sound(l) /\ Pipes(l) = Pipes(m) /\ NoneAgain(k, l)
    BY <2>2, <2>3, DirectToSound, DirectOnceOnce
  <2>5. NoneAgain(m, l)
    BY <1>1, <2>3, <2>4, AgainTransitive
  <2> QED BY <2>1, <2>2, <2>5
<1>3. NoneAgain(m, m)
  BY <1>1, FewerAgain
<1> QED BY <1>1, <1>2, <1>3 DEF Directed

\* A pipe that goes adds none.
LEMMA PipeDeleOnce ==
  ASSUME NEW m, Sound(m), NEW p \in Pipes(m)
  PROVE  NoneAgain(m, PipeDele(m, p))
<1> DEFINE k == PipeDele(m, p)
<1>1. Sound(k) /\ Pipes(k) = Pipes(m) \ {p}
  BY PipeDeleSound
<1>2. ASSUME NEW r \in Pipes(k), NEW t \in Pipes(k)
      PROVE  Between(k, r, t) \subseteq Between(m, r, t)
  <2>1. r \in Pipes(m) /\ r # p /\ t \in Pipes(m)
    BY <1>1
  <2>2. PICK d : d = CutDirections(m, p)
    OBVIOUS
  <2>3. PICK e : e = CutReferences(d, p)
    OBVIOUS
  <2>4. Sound(d) /\ Sound(e) /\ Pipes(d) = Pipes(m) /\ Pipes(e) = Pipes(m)
    BY <2>2, <2>3, CutDirectionsSound, CutReferencesSound
  <2>5. /\ d.dirs = [m.dirs EXCEPT ![p] = {}]
        /\ d.to = [c \in ConnID |-> IF c \in m.dirs[p] THEN NoPipe ELSE m.to[c]]
    BY <2>2 DEF CutDirections
  <2>6. /\ e.dirs = [q \in Pipes(d) |-> d.dirs[q] \ {c \in d.refs[p] : d.from[c] = q}]
        /\ e.to = [c \in ConnID |-> IF c \in d.refs[p] THEN NoPipe ELSE d.to[c]]
    BY <2>3 DEF CutReferences
  <2>7. k = Without(e, p)
    BY <2>2, <2>3 DEF PipeDele
  <2>8. k.dirs[r] = e.dirs[r] /\ k.to = e.to
    BY <2>1, <2>4, <2>7 DEF Without
  <2>9. e.dirs[r] \subseteq d.dirs[r] /\ d.dirs[r] = m.dirs[r] /\ m.dirs[r] \subseteq ConnID
    BY <2>1, <2>4, <2>5, <2>6 DEF Sound, PipeTable
  <2>10. t # NoPipe
    BY <2>1, PipeAssumption DEF Sound, PipeTable
  <2>11. \A c \in ConnID : e.to[c] = t => m.to[c] = t
    BY <2>5, <2>6, <2>10
  <2> QED BY <2>8, <2>9, <2>11 DEF Between
<1> QED BY <1>1, <1>2, FewerAgain

\* A round directs, and may end the session.
LEMMA RoundOnce ==
  ASSUME IInv, NEW n \in Node, NEW s \in ses[n], NEW heard, NEW state, Round(n, s, heard, state)
  PROVE  NoneAgain(map[n], map'[n])
<1>1. NodeInv(map[n], ses[n]) /\ DOMAIN map = Node
  BY DEF IInv
<1>2. PICK m : m = Directed(map[n], s.addr, heard)
  OBVIOUS
<1>3. NodeInv(m, ses[n]) /\ NoneAgain(map[n], m)
  BY <1>1, <1>2, DirectedSound, DirectedOnce
<1>4. Sound(map[n]) /\ Sound(m) /\ Pipes(m) = Pipes(map[n]) /\ s.addr \in Pipes(m)
  BY <1>1, <1>3 DEF NodeInv
<1>5. map'[n] = m \/ map'[n] = PipeDele(m, s.addr)
  BY <1>1, <1>2 DEF Round, After
<1>6. CASE map'[n] = PipeDele(m, s.addr)
  <2>1. PICK k : k = PipeDele(m, s.addr)
    OBVIOUS
  <2>2. Sound(k) /\ Pipes(k) \subseteq Pipes(m) /\ NoneAgain(m, k)
    BY <1>4, <2>1, PipeDeleSound, PipeDeleOnce
  <2>3. NoneAgain(map[n], k)
    BY <1>3, <1>4, <2>2, AgainTransitive
  <2> QED BY <1>6, <2>1, <2>3
<1> QED BY <1>3, <1>5, <1>6

\* "make sure only pipe once": in no round of the main loop do messages, however
\* many, give two pipes a second connection (SessionMaintain).
THEOREM ConnectedOnce == Spec => PipesOnce
<1>1. IInv /\ [Next]_vars =>
        [\A n \in Node : (SessionHears(n) \/ Tick(n)) =>
            \A p, q \in Pipes(map'[n]) :
              Connections(map'[n], p, q) <= 1 \/
              Connections(map'[n], p, q) <= Connections(map[n], p, q)]_vars
  <2> SUFFICES ASSUME IInv, NEW n \in Node, SessionHears(n) \/ Tick(n)
               PROVE  NoneAgain(map[n], map'[n])
    BY DEF NoneAgain
  <2>1. CASE SessionHears(n)
    BY <2>1, RoundOnce DEF SessionHears
  <2>2. CASE Tick(n)
    BY <2>2, RoundOnce DEF Tick, SessionTick
  <2> QED BY <2>1, <2>2
<1> QED BY <1>1, Invariant, PTL DEF Spec, PipesOnce

------------------------------------------------------------------------------
(* Neither side of a session ends while the other is there.                *)

Carried(n, a, f) == [from |-> n, to |-> a, flag |-> f] \in net

\* Keepalives and HELLOs, which are no user's.
Kept == {"MAINTAIN", "HELLO"}

\* n's session s with t's node has heard nothing in its period.  h of its ticks
\* have gone by: at most one more than the other side had, which is one after
\* the end of its own period, and one that overtook it.
Nearly(s, t, n) ==
  LET p == {n, s.addr}
      h == Retrys - s.left
  IN  \/ h = 0 /\ last[p] = n
      \/ h = 1 /\ last[p] = n /\ since[p] = 0
      \/ /\ t.left = Retrys
         /\ \/ h = 0
            \/ h = 1 /\ (last[p] = n \/ since[p] <= 1)
            \/ h = 2 /\ last[p] = n /\ since[p] <= 2

Sessions == [addr : Node, alive : BOOLEAN, left : 0..Retrys]

Kinds ==
  /\ \A n \in Node : \A s \in ses[n] : s \in Sessions /\ s.addr # n
  /\ \A x \in net : x.flag = "HELLO" =>
       x.from # x.to /\ x = [from |-> x.from, to |-> x.to, flag |-> "HELLO"]
  /\ last \in [Pairs -> Node] /\ since \in [Pairs -> 0..Slack]
  /\ faults \in Nat

\* As long as nothing was lost and nobody crashed.
Greets == \A n, a \in Node : Carried(n, a, "HELLO") => On(n, a)

Waits == \A n \in Node : \A s \in ses[n] :
           ~On(s.addr, n) => s.left = Retrys /\ Carried(n, s.addr, "HELLO")

Hears == \A n \in Node : \A s \in ses[n] : \A t \in ses[s.addr] :
           t.addr = n => s.alive \/ Carried(s.addr, n, "MAINTAIN") \/ Nearly(s, t, n)

Keeps   == Greets /\ Waits /\ Hears
Keeping == faults = 0 => Keeps

OnStays == \A n, a \in Node : On(n, a) => On(n, a)'

\* What flows is data, a command or chat.
LEMMA FlowIsPlain ==
  ASSUME NEW m, NEW p, NEW f \in PipeFlow(m, p)
  PROVE  f[2] \notin Kept
<1>1. SetFlag["CmdMode"] = "CMD" /\ SetFlag["ChatMode"] = "CHAT" /\ DOMAIN SetFlag = {"CmdMode", "ChatMode"}
  BY DEF SetFlag
<1>2. CASE f \in Directions(m, p) \X {"DAT"}
  BY <1>2 DEF Kept
<1>3. CASE \E q \in Directions(m, p) \cap DOMAIN SetFlag : f \in Directions(m, q) \X {SetFlag[q]}
  <2>1. PICK q \in DOMAIN SetFlag : f \in Directions(m, q) \X {SetFlag[q]}
    BY <1>3
  <2>2. f[2] = SetFlag[q]
    BY <2>1
  <2>3. SetFlag[q] \in {"CMD", "CHAT"}
    BY <1>1, <2>1
  <2> QED BY <2>2, <2>3 DEF Kept
<1> QED BY <1>2, <1>3 DEF PipeFlow

LEMMA SentIsPlain ==
  ASSUME NEW n, NEW F, \A f \in F : f[2] \notin Kept, NEW x \in Sent(n, F)
  PROVE  x.flag \notin Kept
<1>1. PICK f \in F : x = [from |-> n, to |-> f[1], flag |-> f[2]]
  BY DEF Sent
<1> QED BY <1>1

\* What is told of a session that starts is data.
LEMMA StartIsPlain == \A n, a : \A x \in Sent(n, Starts(n, a)) : x.flag \notin Kept
<1> SUFFICES ASSUME NEW n, NEW a PROVE \A x \in Sent(n, Starts(n, a)) : x.flag \notin Kept
  OBVIOUS
<1>1. \A f \in Starts(n, a) : f[2] \notin Kept
  BY FlowIsPlain DEF Starts, Prompt
<1> QED BY <1>1, SentIsPlain

LEMMA PlainAdds ==
  ASSUME NEW X, \A x \in X : x.flag \notin Kept, net' = net \cup X, NEW n, NEW a, NEW f \in Kept
  PROVE  Carried(n, a, f)' <=> Carried(n, a, f)
<1>1. [from |-> n, to |-> a, flag |-> f].flag = f
  OBVIOUS
<1> QED BY <1>1 DEF Carried

\* What a round takes from the net and gives to it.
LEMMA RoundCarries ==
  ASSUME NEW n, NEW s, NEW heard, NEW state, Round(n, s, heard, state), heard # "HELLO"
  PROVE  /\ \A b, c : Carried(b, c, "HELLO")' <=> Carried(b, c, "HELLO")
         /\ \A b, c : Carried(b, c, "MAINTAIN")' <=>
              \/ Carried(b, c, "MAINTAIN") /\ ~(heard = "MAINTAIN" /\ b = s.addr /\ c = n)
              \/ state = "OVERTIME" /\ b = n /\ c = s.addr
         /\ \A x \in net' : x.flag = "HELLO" => x \in net
<1>1. PICK m : m = Directed(map[n], s.addr, heard)
  OBVIOUS
<1>2. PICK F : F = Flowing(m, s.addr, heard)
  OBVIOUS
<1>3. PICK r : r = After(n, s, heard, state, m, F)
  OBVIOUS
<1>4. net' = (net \ {[from |-> s.addr, to |-> n, flag |-> heard]}) \cup r.sent
  BY <1>1, <1>2, <1>3 DEF Round
<1>5. \A f \in F : f[2] \notin Kept
  BY <1>2, FlowIsPlain DEF Flowing, Prompt
<1>6. PICK all : /\ \A f \in all : f[2] \notin Kept
                 /\ r.sent = Sent(n, all) \cup
                      IF state = "OVERTIME" THEN {[from |-> n, to |-> s.addr, flag |-> "MAINTAIN"]} ELSE {}
  <2> DEFINE t  == [s EXCEPT !.alive = IfAlive(s, heard)]
             ends == state = "LAST" /\ ~t.alive
             m2 == IF ends THEN PipeDele(m, s.addr) ELSE m
             G  == F \cup IF ends THEN Prompt(m) \cup Prompt(m2) ELSE {}
             all == G \cup StdoutPipeFlush(m2, out[n] \/ Reaches(G, "stdout"))
  <2>1. r.sent = Sent(n, all) \cup
                   IF state = "OVERTIME" THEN {[from |-> n, to |-> s.addr, flag |-> "MAINTAIN"]} ELSE {}
    BY <1>3 DEF After
  <2> HIDE DEF m2, ends
  <2>2. \A f \in G : f[2] \notin Kept
    BY <1>5, FlowIsPlain DEF Prompt
  <2>3. \A f \in StdoutPipeFlush(m2, out[n] \/ Reaches(G, "stdout")) : f[2] \notin Kept
    BY FlowIsPlain DEF StdoutPipeFlush
  <2>4. \A f \in all : f[2] \notin Kept
    BY <2>2, <2>3
  <2> HIDE DEF all
  <2> QED BY <2>1, <2>4
<1>7. \A x \in Sent(n, all) : x.flag \notin Kept
  BY <1>6, SentIsPlain
<1>8. ASSUME NEW b, NEW c, NEW f \in Kept
      PROVE  Carried(b, c, f)' <=>
               \/ Carried(b, c, f) /\ ~(heard = f /\ b = s.addr /\ c = n)
               \/ state = "OVERTIME" /\ b = n /\ c = s.addr /\ f = "MAINTAIN"
  <2> DEFINE x == [from |-> b, to |-> c, flag |-> f]
  <2>1. x.flag = f /\ x.from = b /\ x.to = c
    OBVIOUS
  <2>2. x = [from |-> s.addr, to |-> n, flag |-> heard] <=> heard = f /\ b = s.addr /\ c = n
    OBVIOUS
  <2>3. x = [from |-> n, to |-> s.addr, flag |-> "MAINTAIN"] <=> b = n /\ c = s.addr /\ f = "MAINTAIN"
    OBVIOUS
  <2>4. Carried(b, c, f) <=> x \in net
    BY DEF Carried
  <2>5. Carried(b, c, f)' <=> x \in net'
    BY DEF Carried
  <2>6. x \notin Sent(n, all)
    BY <1>7, <2>1
  <2> HIDE DEF x
  <2> QED BY <1>4, <1>6, <2>2, <2>3, <2>4, <2>5, <2>6
<1>9. \A x \in net' : x.flag = "HELLO" => x \in net
  BY <1>4, <1>6, <1>7 DEF Kept
<1> QED BY <1>8, <1>9 DEF Kept

LEMMA AliveSet ==
  ASSUME NEW s \in Sessions, NEW f \in BOOLEAN, NEW t, t = [s EXCEPT !.alive = f]
  PROVE  t \in Sessions /\ t.addr = s.addr /\ t.alive = f /\ t.left = s.left
BY DEF Sessions

LEMMA LeftSet ==
  ASSUME NEW s \in Sessions, NEW l \in 0..Retrys, NEW t, t = [s EXCEPT !.left = l]
  PROVE  t \in Sessions /\ t.addr = s.addr /\ t.alive = s.alive /\ t.left = l
BY DEF Sessions

\* What a round makes of the session.
LEMMA RoundSession ==
  ASSUME Kinds, NEW n \in Node, NEW s \in ses[n], NEW heard,
         NEW state \in {"NORMAL", "OVERTIME", "LAST"}, Round(n, s, heard, state)
  PROVE  \/ state = "LAST" /\ ~IfAlive(s, heard)
         \/ \E u \in Sessions :
              /\ u.addr = s.addr /\ ses' = [ses EXCEPT ![n] = (@ \ {s}) \cup {u}]
              /\ state = "NORMAL" => u.alive = IfAlive(s, heard) /\ u.left = s.left
              /\ state = "OVERTIME" => u.alive = IfAlive(s, heard) /\ u.left = s.left - 1
              /\ state = "LAST" => u.left = Retrys
<1> SUFFICES ASSUME ~(state = "LAST" /\ ~IfAlive(s, heard))
             PROVE  \E u \in Sessions :
              /\ u.addr = s.addr /\ ses' = [ses EXCEPT ![n] = (@ \ {s}) \cup {u}]
              /\ state = "NORMAL" => u.alive = IfAlive(s, heard) /\ u.left = s.left
              /\ state = "OVERTIME" => u.alive = IfAlive(s, heard) /\ u.left = s.left - 1
              /\ state = "LAST" => u.left = Retrys
  OBVIOUS
<1>1. s \in Sessions /\ s.alive \in BOOLEAN /\ s.left \in 0..Retrys /\ Retrys \in Nat
  BY SessionAssumption DEF Kinds, Sessions
<1>2. PICK f \in BOOLEAN : f = IfAlive(s, heard)
  BY <1>1 DEF IfAlive
<1>3. PICK t : t = [s EXCEPT !.alive = f]
  OBVIOUS
<1>4. t \in Sessions /\ t.addr = s.addr /\ t.alive = f /\ t.left = s.left
  BY <1>1, <1>3, AliveSet
<1>5. PICK m : m = Directed(map[n], s.addr, heard)
  OBVIOUS
<1>6. PICK r : r = After(n, s, heard, state, m, Flowing(m, s.addr, heard))
  OBVIOUS
<1>7. ses' = [ses EXCEPT ![n] = r.ses]
  BY <1>5, <1>6 DEF Round
<1>8. PICK u : u = CASE state = "OVERTIME" -> [t EXCEPT !.left = @ - 1]
                     [] state = "LAST" -> LastTime(t) [] OTHER -> t
  OBVIOUS
<1>9. r.ses = (ses[n] \ {s}) \cup {u}
  BY <1>2, <1>3, <1>4, <1>6, <1>8 DEF After
<1>10. ses' = [ses EXCEPT ![n] = (@ \ {s}) \cup {u}]
  BY <1>7, <1>9
<1>11. state = "OVERTIME" => s.left > 0
  BY DEF Round
<1>12. CASE state = "NORMAL"
  BY <1>2, <1>4, <1>8, <1>10, <1>12
<1>13. CASE state = "OVERTIME"
  <2>1. u = [t EXCEPT !.left = t.left - 1]
    BY <1>4, <1>8, <1>13 DEF Sessions
  <2>2. t.left - 1 \in 0..Retrys
    BY <1>1, <1>4, <1>11, <1>13
  <2>3. u \in Sessions /\ u.addr = s.addr /\ u.alive = f /\ u.left = t.left - 1
    BY <1>4, <2>1, <2>2, LeftSet
  <2> QED BY <1>2, <1>4, <1>10, <1>13, <2>3
<1>14. CASE state = "LAST"
  <2>1. u = LastTime(t)
    BY <1>8, <1>14
  <2>2. \A g \in BOOLEAN : [t EXCEPT !.alive = g] \in Sessions /\ [t EXCEPT !.alive = g].addr = t.addr
    BY <1>4, AliveSet
  <2>3. u = [[t EXCEPT !.alive = FALSE] EXCEPT !.left = Retrys]
    BY <2>1, Zenon DEF LastTime
  <2>4. FALSE \in BOOLEAN
    BY Zenon
  <2>5. PICK v \in Sessions : v.addr = t.addr /\ u = [v EXCEPT !.left = Retrys]
    BY <2>2, <2>3, <2>4, Zenon
  <2>6. u \in Sessions /\ u.addr = t.addr /\ u.left = Retrys
    BY <1>1, <2>5, LeftSet
  <2> QED BY <1>4, <1>10, <1>14, <2>6
<1> QED BY <1>12, <1>13, <1>14

\* One session replaced by itself, changed.
LEMMA Replaced ==
  ASSUME IInv, NEW n \in Node, NEW s \in ses[n], NEW u, u.addr = s.addr,
         ses' = [ses EXCEPT ![n] = (@ \ {s}) \cup {u}]
  PROVE  /\ \A k \in Node : \A a : On(k, a)' <=> On(k, a)
         /\ \A k \in Node : k # n => ses'[k] = ses[k]
         /\ ses'[n] = (ses[n] \ {s}) \cup {u}
         /\ \A v \in ses[n] : v.addr = s.addr => v = s
<1>1. /\ DOMAIN ses = Node
      /\ \A v, w \in ses[n] : v.addr = w.addr => v = w
  BY DEF IInv, NodeInv
<1>2. /\ ses'[n] = (ses[n] \ {s}) \cup {u}
      /\ \A k \in Node : k # n => ses'[k] = ses[k]
  BY <1>1
<1>3. ASSUME NEW k \in Node, NEW a
      PROVE  On(k, a)' <=> On(k, a)
  <2>1. On(k, a) <=> \E v \in ses[k] : v.addr = a
    BY DEF On
  <2>2. On(k, a)' <=> \E v \in ses'[k] : v.addr = a
    BY DEF On
  <2> QED BY <1>2, <2>1, <2>2
<1> QED BY <1>1, <1>2, <1>3

\* A node has a session with another as long as it has the pipe.
LEMMA PipesOn ==
  ASSUME IInv, NEW n \in Node, NEW a \in Node
  PROVE  a \in Pipes(map[n]) <=> On(n, a)
<1>1. Pipes(map[n]) = Fixed \cup {s.addr : s \in ses[n]}
  BY DEF IInv, NodeInv
<1>2. a \notin Fixed
  BY SessionAssumption
<1> QED BY <1>1, <1>2 DEF On

\* No session starts, ends or ticks.
LEMMA SameSessions ==
  ASSUME Keeps, ses' = ses, UNCHANGED clocks,
         \A b, c : Carried(b, c, "HELLO")' <=> Carried(b, c, "HELLO"),
         \A b, c : Carried(b, c, "MAINTAIN") /\ On(c, b) => Carried(b, c, "MAINTAIN")'
  PROVE  Keeps' /\ OnStays
<1>1. \A n, a : On(n, a)' <=> On(n, a)
  BY DEF On
<1>2. Greets'
  BY <1>1 DEF Keeps, Greets
<1>3. Waits'
  BY <1>1 DEF Keeps, Waits
<1>4. ASSUME NEW n \in Node, NEW s \in ses[n], NEW t \in ses[s.addr], t.addr = n
      PROVE  s.alive \/ Carried(s.addr, n, "MAINTAIN")' \/ Nearly(s, t, n)'
  <2>1. s.alive \/ Carried(s.addr, n, "MAINTAIN") \/ Nearly(s, t, n)
    BY <1>4 DEF Keeps, Hears
  <2>2. On(n, s.addr)
    BY DEF On
  <2>3. Nearly(s, t, n)' <=> Nearly(s, t, n)
    BY DEF Nearly, clocks
  <2> QED BY <2>1, <2>2, <2>3
<1>5. Hears'
  BY <1>4 DEF Hears
<1> QED BY <1>1, <1>2, <1>3, <1>5 DEF Keeps, OnStays

\* A session that starts, if there is none.
LEMMA StartKeeps ==
  ASSUME IInv, Keeps, NEW n \in Node, NEW b \in Node, b # n, SessionStart(n, b), UNCHANGED clocks,
         \A c, d : Carried(c, d, "MAINTAIN")' <=> Carried(c, d, "MAINTAIN"),
         \A c, d : Carried(c, d, "HELLO")' => Carried(c, d, "HELLO") \/ (c = n /\ d = b),
         \A c, d : Carried(c, d, "HELLO") => Carried(c, d, "HELLO")' \/ (c = b /\ d = n),
         On(b, n) \/ Carried(n, b, "HELLO")'
  PROVE  Keeps' /\ OnStays
<1>1. CASE On(n, b)
  <2>1. ses' = ses
    BY <1>1, PipesOn DEF SessionStart
  <2>2. \A k, a : On(k, a)' <=> On(k, a)
    BY <2>1 DEF On
  <2>3. Greets'
    BY <1>1, <2>2 DEF Keeps, Greets
  <2>4. Waits'
    BY <1>1, <2>1, <2>2 DEF Keeps, Waits
  <2>5. \A k \in Node : \A s \in ses[k] : \A t \in ses[s.addr] : Nearly(s, t, k)' <=> Nearly(s, t, k)
    BY DEF Nearly, clocks
  <2>6. Hears'
    BY <2>1, <2>5 DEF Keeps, Hears
  <2> QED BY <2>2, <2>3, <2>4, <2>6 DEF Keeps, OnStays
<1>2. CASE ~On(n, b)
  <2>1. ses' = [ses EXCEPT ![n] = @ \cup {NewSession(b)}]
    BY <1>2, PipesOn DEF SessionStart
  <2>2. PICK v : v = NewSession(b)
    OBVIOUS
  <2>3. v.addr = b /\ v.left = Retrys
    BY <2>2 DEF NewSession
  <2>4. DOMAIN ses = Node
    BY DEF IInv
  <2>5. ses'[n] = ses[n] \cup {v} /\ \A k \in Node : k # n => ses'[k] = ses[k]
    BY <2>1, <2>2, <2>4
  <2>6. \A k \in Node : \A a : On(k, a)' <=> On(k, a) \/ (k = n /\ a = b)
    <3>1. ASSUME NEW k \in Node, NEW a
          PROVE  On(k, a)' <=> On(k, a) \/ (k = n /\ a = b)
      <4>1. On(k, a) <=> \E s \in ses[k] : s.addr = a
        BY DEF On
      <4>2. On(k, a)' <=> \E s \in ses'[k] : s.addr = a
        BY DEF On
      <4> QED BY <2>3, <2>5, <4>1, <4>2
    <3> QED BY <3>1
  <2>7. Greets'
    BY <2>6 DEF Keeps, Greets
  <2>8. ASSUME NEW k \in Node, NEW s \in ses'[k], ~On(s.addr, k)'
        PROVE  s.left = Retrys /\ Carried(k, s.addr, "HELLO")'
    <3>1. CASE k = n /\ s = v
      BY <2>3, <2>6, <2>8, <3>1
    <3>2. CASE s \in ses[k]
      <4>1. s.addr \in Node
        BY <3>2 DEF IInv, NodeInv, Maintains
      <4>2. ~On(s.addr, k) /\ ~(s.addr = n /\ k = b)
        BY <2>6, <2>8, <4>1
      <4> QED BY <3>2, <4>2 DEF Keeps, Waits
    <3> QED BY <2>5, <3>1, <3>2
  <2>9. Waits'
    BY <2>8 DEF Waits
  <2>10. ASSUME NEW k \in Node, NEW s \in ses'[k], NEW t \in ses'[s.addr], t.addr = k
         PROVE  s.alive \/ Carried(s.addr, k, "MAINTAIN")' \/ Nearly(s, t, k)'
    <3>1. s.addr \in Node
      BY <2>3, <2>5 DEF IInv, NodeInv, Maintains
    <3>2. CASE k = n /\ s = v
      <4>1. t \in ses[b] /\ t.addr = n
        BY <2>3, <2>5, <2>10, <3>2
      <4>2. t.left = Retrys
        BY <1>2, <4>1 DEF Keeps, Waits
      <4> QED BY <2>3, <3>2, <4>2, SessionAssumption DEF Nearly
    <3>3. CASE s \in ses[k] /\ t \in ses[s.addr]
      <4>1. s.alive \/ Carried(s.addr, k, "MAINTAIN") \/ Nearly(s, t, k)
        BY <2>10, <3>3 DEF Keeps, Hears
      <4>2. Nearly(s, t, k)' <=> Nearly(s, t, k)
        BY DEF Nearly, clocks
      <4> QED BY <4>1, <4>2
    <3>4. CASE s \in ses[k] /\ s.addr = n /\ t = v
      <4>1. k = b
        BY <2>3, <2>10, <3>4
      <4>2. s.left = Retrys
        BY <1>2, <3>4, <4>1 DEF Keeps, Waits
      <4> QED BY <2>3, <3>4, <4>2, SessionAssumption DEF Nearly
    <3> QED BY <2>5, <3>1, <3>2, <3>3, <3>4
  <2>11. Hears'
    BY <2>10 DEF Hears
  <2> QED BY <2>6, <2>7, <2>9, <2>11 DEF Keeps, OnStays
<1> QED BY <1>1, <1>2

\* A message of a session, which may be the keepalive.
LEMMA HearingKeeps ==
  ASSUME IInv, Kinds, Keeps, NEW n \in Node, SessionHears(n)
  PROVE  Keeps' /\ OnStays
<1>1. PICK s \in ses[n], x \in net : x.flag # "HELLO" /\ Round(n, s, x.flag, "NORMAL")
  BY DEF SessionHears
<1>2. PICK u \in Sessions : /\ u.addr = s.addr /\ ses' = [ses EXCEPT ![n] = (@ \ {s}) \cup {u}]
                            /\ u.alive = IfAlive(s, x.flag) /\ u.left = s.left
  BY <1>1, RoundSession
<1>3. /\ \A b, c : Carried(b, c, "HELLO")' <=> Carried(b, c, "HELLO")
      /\ \A b, c : Carried(b, c, "MAINTAIN")' <=>
           Carried(b, c, "MAINTAIN") /\ ~(x.flag = "MAINTAIN" /\ b = s.addr /\ c = n)
  BY <1>1, RoundCarries
<1>4. /\ \A k \in Node : \A a : On(k, a)' <=> On(k, a)
      /\ \A k \in Node : k # n => ses'[k] = ses[k]
      /\ ses'[n] = (ses[n] \ {s}) \cup {u}
      /\ \A v \in ses[n] : v.addr = s.addr => v = s
  <2>1. u.addr = s.addr /\ ses' = [ses EXCEPT ![n] = (@ \ {s}) \cup {u}]
    BY <1>2
  <2>2. \A k \in Node : \A a : On(k, a)' <=> On(k, a)
    BY <2>1, Replaced
  <2>3. \A k \in Node : k # n => ses'[k] = ses[k]
    BY <2>1, Replaced
  <2>4. ses'[n] = (ses[n] \ {s}) \cup {u}
    BY <2>1 DEF IInv
  <2>5. \A v \in ses[n] : v.addr = s.addr => v = s
    BY DEF IInv, NodeInv
  <2> QED BY <2>2, <2>3, <2>4, <2>5
<1>5. last' = last /\ since' = since
  BY DEF SessionHears, clocks
<1>6. \A k \in Node : \A v \in ses[k] : v.addr \in Node /\ v.addr # k
  BY DEF Kinds, Sessions
<1>7. Greets'
  BY <1>3, <1>4 DEF Keeps, Greets
<1>8. ASSUME NEW k \in Node, NEW v \in ses'[k], ~On(v.addr, k)'
      PROVE  v.left = Retrys /\ Carried(k, v.addr, "HELLO")'
  <2>1. PICK w \in ses[k] : w.addr = v.addr /\ w.left = v.left
    BY <1>1, <1>2, <1>4
  <2>2. ~On(w.addr, k)
    BY <1>4, <1>6, <1>8, <2>1
  <2> QED BY <1>3, <2>1, <2>2 DEF Keeps, Waits
<1>9. Waits'
  BY <1>8 DEF Waits
<1>10. ASSUME NEW k \in Node, NEW v \in ses'[k], NEW w \in ses'[v.addr], w.addr = k
       PROVE  v.alive \/ Carried(v.addr, k, "MAINTAIN")' \/ Nearly(v, w, k)'
  <2>1. PICK v0 \in ses[k] : /\ v0.addr = v.addr /\ v0.left = v.left /\ (v0.alive => v.alive)
                             /\ (v = u /\ k = n) \/ v.addr # s.addr \/ k # n
                             /\ v = u /\ k = n => v.alive = IfAlive(s, x.flag)
    BY <1>1, <1>2, <1>4 DEF IfAlive
  <2>2. v.addr \in Node
    BY <1>6, <2>1
  <2>3. PICK w0 \in ses[v.addr] : w0.addr = w.addr /\ w0.left = w.left
    BY <1>1, <1>2, <1>4, <2>2
  <2>4. v0.alive \/ Carried(v0.addr, k, "MAINTAIN") \/ Nearly(v0, w0, k)
    BY <1>10, <2>1, <2>3 DEF Keeps, Hears
  <2>5. Nearly(v0, w0, k) => Nearly(v, w, k)'
    BY <1>5, <2>1, <2>3 DEF Nearly
  <2>6. Carried(v0.addr, k, "MAINTAIN") => v.alive \/ Carried(v.addr, k, "MAINTAIN")'
    BY <1>3, <2>1 DEF IfAlive
  <2> QED BY <2>1, <2>4, <2>5, <2>6
<1>11. Hears'
  BY <1>10 DEF Hears
<1> QED BY <1>4, <1>7, <1>9, <1>11 DEF Keeps, OnStays

\* A tick of s, whose peer's session is t: s is not at its end, and each of
\* them has heard, or is to hear, or is nearly there.
LEMMA TickNearly ==
  ASSUME Retrys \in Nat, Slack \in Nat, Retrys >= 2, Slack >= 3,
         NEW n, NEW s, NEW t, NEW a, a # n, s.addr = a, t.addr = n,
         s.left \in 0..Retrys, t.left \in 0..Retrys, since[{n, a}] \in 0..Slack,
         last[{n, a}] = n => since[{n, a}] >= Slack,
         last'[{n, a}] = n,
         since'[{n, a}] = IF last[{n, a}] = n THEN 0
                          ELSE IF since[{n, a}] < Slack THEN since[{n, a}] + 1 ELSE since[{n, a}]
  PROVE  /\ s.left = 0 => ~Nearly(s, t, n)
         /\ \A u : u.addr = a /\ u.left = s.left - 1 /\ Nearly(s, t, n) => Nearly(u, t, n)'
         /\ \A u : u.addr = a /\ u.left = Retrys => Nearly(u, t, n)'
         /\ \A u : s.left = 0 /\ u.addr = a /\ u.left = Retrys /\ Nearly(t, s, a) => Nearly(t, u, a)'
<1> DEFINE p == {n, a}
<1>1. {a, n} = p
  OBVIOUS
<1>2. PICK c \in 0..Slack : c = since[p]
  OBVIOUS
<1>3. last[p] = n => c >= Slack
  BY <1>2
<1>4. since'[p] = IF last[p] = n THEN 0 ELSE IF c < Slack THEN c + 1 ELSE c
  BY <1>2
<1>5. last'[p] = n
  OBVIOUS
<1>6. Nearly(s, t, n) <=> \/ Retrys - s.left = 0 /\ last[p] = n
                          \/ Retrys - s.left = 1 /\ last[p] = n /\ c = 0
                          \/ /\ t.left = Retrys
                             /\ \/ Retrys - s.left = 0
                                \/ Retrys - s.left = 1 /\ (last[p] = n \/ c <= 1)
                                \/ Retrys - s.left = 2 /\ last[p] = n /\ c <= 2
  BY <1>2 DEF Nearly
<1>7. Nearly(t, s, a) <=> \/ Retrys - t.left = 0 /\ last[p] = a
                          \/ Retrys - t.left = 1 /\ last[p] = a /\ c = 0
                          \/ /\ s.left = Retrys
                             /\ \/ Retrys - t.left = 0
                                \/ Retrys - t.left = 1 /\ (last[p] = a \/ c <= 1)
                                \/ Retrys - t.left = 2 /\ last[p] = a /\ c <= 2
  BY <1>1, <1>2 DEF Nearly
<1>8. \A u : u.addr = a =>
        (Nearly(u, t, n)' <=> \/ Retrys - u.left = 0 /\ last'[p] = n
                              \/ Retrys - u.left = 1 /\ last'[p] = n /\ since'[p] = 0
                              \/ /\ t.left = Retrys
                                 /\ \/ Retrys - u.left = 0
                                    \/ Retrys - u.left = 1 /\ (last'[p] = n \/ since'[p] <= 1)
                                    \/ Retrys - u.left = 2 /\ last'[p] = n /\ since'[p] <= 2)
  BY DEF Nearly
<1>9. \A u : Nearly(t, u, a)' <=> \/ Retrys - t.left = 0 /\ last'[p] = a
                                  \/ Retrys - t.left = 1 /\ last'[p] = a /\ since'[p] = 0
                                  \/ /\ u.left = Retrys
                                     /\ \/ Retrys - t.left = 0
                                        \/ Retrys - t.left = 1 /\ (last'[p] = a \/ since'[p] <= 1)
                                        \/ Retrys - t.left = 2 /\ last'[p] = a /\ since'[p] <= 2
  BY <1>1 DEF Nearly
<1> HIDE DEF p
<1>10. s.left = 0 => ~Nearly(s, t, n)
  BY <1>3, <1>6
<1>11. ASSUME NEW u, u.addr = a, u.left = s.left - 1, Nearly(s, t, n)
       PROVE  Nearly(u, t, n)'
  <2>1. PICK h \in 0..Retrys : h = Retrys - s.left
    OBVIOUS
  <2>2. Retrys - u.left = h + 1
    BY <1>11, <2>1
  <2>3. /\ last[p] = n => h = 0 \/ (h = 1 /\ t.left = Retrys)
        /\ last[p] # n => t.left = Retrys /\ (h = 0 \/ (h = 1 /\ c <= 1))
    BY <1>3, <1>6, <1>11, <2>1
  <2>4. /\ last[p] = n => since'[p] = 0
        /\ c <= 1 => since'[p] <= 2
    BY <1>4
  <2> QED BY <1>5, <1>8, <1>11, <2>2, <2>3, <2>4
<1>12. ASSUME NEW u, u.addr = a, u.left = Retrys
       PROVE  Nearly(u, t, n)'
  BY <1>5, <1>8, <1>12
<1>13. ASSUME NEW u, s.left = 0, u.addr = a, u.left = Retrys, Nearly(t, s, a)
       PROVE  Nearly(t, u, a)'
  BY <1>3, <1>4, <1>5, <1>7, <1>9, <1>13
<1> QED BY <1>10, <1>11, <1>12, <1>13

\* A tick that ends a period or sends a keepalive, with the retries and the
\* drift of the clocks that the bounds allow.
LEMMA TickKeeps ==
  ASSUME Retrys >= 2, Slack >= 3, IInv, Kinds, Keeps, NEW n \in Node, Tick(n)
  PROVE  Keeps' /\ OnStays
<1>0. Retrys \in Nat /\ Slack \in Nat
  BY SessionAssumption
<1>1. PICK s \in ses[n] : SessionTick(n, s)
  BY DEF Tick
<1>2. PICK a : a = s.addr
  OBVIOUS
<1>3. \A k \in Node : \A v \in ses[k] :
        v \in Sessions /\ v.addr \in Node /\ v.addr # k /\ v.left \in 0..Retrys
  BY DEF Kinds, Sessions
<1>4. a \in Node /\ a # n
  BY <1>2, <1>3
<1>5. PICK p : p = {n, a}
  OBVIOUS
<1>6. ~Carried(n, a, "HELLO") /\ ~Carried(a, n, "MAINTAIN") /\ ~Carried(n, a, "MAINTAIN")
  <2>1. \A x \in net : {x.from, x.to} = p => x.flag \notin {"MAINTAIN", "HELLO"}
    BY <1>1, <1>2, <1>5 DEF SessionTick
  <2>2. ASSUME NEW f \in {"MAINTAIN", "HELLO"} PROVE ~Carried(n, a, f) /\ ~Carried(a, n, f)
    <3>1. /\ [from |-> n, to |-> a, flag |-> f] \notin net
          /\ [from |-> a, to |-> n, flag |-> f] \notin net
      BY <1>5, <2>1
    <3> QED BY <3>1 DEF Carried
  <2> QED BY <2>2
<1>7. On(a, n)
  BY <1>2, <1>6 DEF Keeps, Waits
<1>8. PICK t \in ses[a] : t.addr = n
  BY <1>7 DEF On
<1>9. /\ last[p] = n => since[p] >= Slack
      /\ last' = [last EXCEPT ![p] = n]
      /\ since' = [since EXCEPT ![p] = IF last[p] = n THEN 0
                                       ELSE IF since[p] < Slack THEN since[p] + 1 ELSE since[p]]
      /\ \E state \in {"OVERTIME", "LAST"} : Round(n, s, "nothing", state)
  BY <1>1, <1>2, <1>5, <1>7 DEF SessionTick
<1>10. PICK state \in {"OVERTIME", "LAST"} : Round(n, s, "nothing", state)
  BY <1>9
<1>11. /\ p \in Pairs /\ last \in [Pairs -> Node] /\ since \in [Pairs -> 0..Slack]
  <2>1. p \in Pairs
    BY <1>4, <1>5 DEF Pairs
  <2> QED BY <2>1 DEF Kinds
<1>12. /\ last'[p] = n
       /\ since'[p] = IF last[p] = n THEN 0
                      ELSE IF since[p] < Slack THEN since[p] + 1 ELSE since[p]
       /\ since[p] \in 0..Slack
       /\ \A q : q # p => last'[q] = last[q] /\ since'[q] = since[q]
  BY <1>9, <1>11
<1>13. /\ s.left = 0 => ~Nearly(s, t, n)
       /\ \A u : u.addr = a /\ u.left = s.left - 1 /\ Nearly(s, t, n) => Nearly(u, t, n)'
       /\ \A u : u.addr = a /\ u.left = Retrys => Nearly(u, t, n)'
       /\ \A u : s.left = 0 /\ u.addr = a /\ u.left = Retrys /\ Nearly(t, s, a) => Nearly(t, u, a)'
  <2>1. /\ s.addr = a /\ s.left \in 0..Retrys /\ t.left \in 0..Retrys
        /\ since[{n, a}] \in 0..Slack
        /\ last[{n, a}] = n => since[{n, a}] >= Slack
        /\ last'[{n, a}] = n
        /\ since'[{n, a}] = IF last[{n, a}] = n THEN 0
                            ELSE IF since[{n, a}] < Slack THEN since[{n, a}] + 1 ELSE since[{n, a}]
    BY <1>2, <1>3, <1>4, <1>5, <1>8, <1>9, <1>12
  <2>2. s.left = 0 => ~Nearly(s, t, n)
    BY <1>0, <1>4, <1>8, <2>1, TickNearly
  <2>3. \A u : u.addr = a /\ u.left = s.left - 1 /\ Nearly(s, t, n) => Nearly(u, t, n)'
    BY <1>0, <1>4, <1>8, <2>1, TickNearly
  <2>4. \A u : u.addr = a /\ u.left = Retrys => Nearly(u, t, n)'
    BY <1>0, <1>4, <1>8, <2>1, TickNearly
  <2>5. \A u : s.left = 0 /\ u.addr = a /\ u.left = Retrys /\ Nearly(t, s, a) => Nearly(t, u, a)'
    BY <1>0, <1>4, <1>8, <2>1, TickNearly
  <2> QED BY <2>2, <2>3, <2>4, <2>5
<1>14. s.alive \/ Nearly(s, t, n)
  BY <1>2, <1>6, <1>8 DEF Keeps, Hears
<1>15. t.alive \/ Nearly(t, s, a)
  BY <1>2, <1>4, <1>6, <1>8 DEF Keeps, Hears
<1>16. state = "LAST" => s.alive /\ s.left = 0
  BY <1>10, <1>13, <1>14 DEF Round
<1>17. IfAlive(s, "nothing") <=> s.alive
  BY DEF IfAlive
<1>18. PICK u \in Sessions :
         /\ u.addr = s.addr /\ ses' = [ses EXCEPT ![n] = (@ \ {s}) \cup {u}]
         /\ state = "OVERTIME" => u.alive = IfAlive(s, "nothing") /\ u.left = s.left - 1
         /\ state = "LAST" => u.left = Retrys
  BY <1>10, <1>16, <1>17, RoundSession
<1>19. /\ \A k \in Node : \A b : On(k, b)' <=> On(k, b)
       /\ \A k \in Node : k # n => ses'[k] = ses[k]
       /\ ses'[n] = (ses[n] \ {s}) \cup {u}
       /\ \A v \in ses[n] : v.addr = a => v = s
       /\ \A v \in ses[a] : v.addr = n => v = t
  <2>1. u.addr = s.addr /\ ses' = [ses EXCEPT ![n] = (@ \ {s}) \cup {u}]
    BY <1>18
  <2>2. \A k \in Node : \A b : On(k, b)' <=> On(k, b)
    BY <2>1, Replaced
  <2>3. \A k \in Node : k # n => ses'[k] = ses[k]
    BY <2>1, Replaced
  <2>4. ses'[n] = (ses[n] \ {s}) \cup {u}
    BY <2>1 DEF IInv
  <2>5. \A v \in ses[n] : v.addr = a => v = s
    BY <1>2 DEF IInv, NodeInv
  <2>6. \A v \in ses[a] : v.addr = n => v = t
    BY <1>4, <1>8 DEF IInv, NodeInv
  <2> QED BY <2>2, <2>3, <2>4, <2>5, <2>6
<1>20. /\ \A b, c : Carried(b, c, "HELLO")' <=> Carried(b, c, "HELLO")
       /\ \A b, c : Carried(b, c, "MAINTAIN") => Carried(b, c, "MAINTAIN")'
       /\ state = "OVERTIME" => Carried(n, a, "MAINTAIN")'
  BY <1>2, <1>10, RoundCarries
<1>21. Greets'
  BY <1>19, <1>20 DEF Keeps, Greets
<1>22. ASSUME NEW k \in Node, NEW v \in ses'[k], ~On(v.addr, k)'
       PROVE  v.left = Retrys /\ Carried(k, v.addr, "HELLO")'
  <2>1. v \in ses[k]
    BY <1>2, <1>4, <1>7, <1>18, <1>19, <1>22
  <2>2. ~On(v.addr, k)
    BY <1>3, <1>19, <1>22, <2>1
  <2> QED BY <1>20, <2>1, <2>2 DEF Keeps, Waits
<1>23. Waits'
  BY <1>22 DEF Waits
<1>24. u.alive \/ Nearly(u, t, n)'
  <2>1. CASE state = "OVERTIME"
    BY <1>2, <1>13, <1>14, <1>17, <1>18, <2>1
  <2>2. CASE state = "LAST"
    BY <1>2, <1>13, <1>18, <2>2
  <2> QED BY <2>1, <2>2
<1>25. t.alive \/ Carried(n, a, "MAINTAIN")' \/ Nearly(t, u, a)'
  <2>1. CASE state = "OVERTIME"
    BY <1>20, <2>1
  <2>2. CASE state = "LAST"
    BY <1>2, <1>13, <1>15, <1>16, <1>18, <2>2
  <2> QED BY <2>1, <2>2
<1>26. ASSUME NEW k \in Node, NEW v \in ses'[k], NEW w \in ses'[v.addr], w.addr = k
       PROVE  v.alive \/ Carried(v.addr, k, "MAINTAIN")' \/ Nearly(v, w, k)'
  <2>1. v.addr \in Node /\ v.addr # k
    BY <1>2, <1>3, <1>4, <1>18, <1>19
  <2>2. CASE {k, v.addr} = p
    <3>1. CASE k = n
      <4>1. v.addr = a /\ v = u
        BY <1>2, <1>4, <1>5, <1>18, <1>19, <2>1, <2>2, <3>1
      <4>2. w = t
        BY <1>4, <1>19, <1>26, <3>1, <4>1
      <4> QED BY <1>24, <3>1, <4>1, <4>2
    <3>2. CASE k = a
      <4>1. v.addr = n /\ v = t
        BY <1>4, <1>5, <1>19, <2>1, <2>2, <3>2
      <4>2. w = u
        BY <1>4, <1>19, <1>26, <3>2, <4>1
      <4> QED BY <1>25, <3>2, <4>1, <4>2
    <3> QED BY <1>5, <2>1, <2>2, <3>1, <3>2
  <2>3. CASE {k, v.addr} # p
    <3>1. v \in ses[k]
      BY <1>2, <1>5, <1>18, <1>19, <2>3
    <3>2. w \in ses[v.addr]
      <4>1. {v.addr, k} = {k, v.addr}
        OBVIOUS
      <4> QED BY <1>2, <1>5, <1>18, <1>19, <1>26, <2>1, <2>3, <4>1
    <3>3. v.alive \/ Carried(v.addr, k, "MAINTAIN") \/ Nearly(v, w, k)
      BY <1>26, <3>1, <3>2 DEF Keeps, Hears
    <3>4. Nearly(v, w, k) => Nearly(v, w, k)'
      <4>1. PICK q : q = {k, v.addr}
        OBVIOUS
      <4>2. last'[q] = last[q] /\ since'[q] = since[q]
        BY <1>12, <2>3, <4>1
      <4> QED BY <4>1, <4>2 DEF Nearly
    <3> QED BY <1>20, <3>3, <3>4
  <2> QED BY <2>2, <2>3
<1>27. Hears'
  BY <1>26 DEF Hears
<1> QED BY <1>19, <1>21, <1>23, <1>27 DEF Keeps, OnStays

------------------------------------------------------------------------------
(* The kinds of sessions, messages and clocks, whatever is lost. *)

Types(S) == \A n \in Node : \A s \in S[n] : s \in Sessions /\ s.addr # n
Hellos(N) == \A x \in N : x.flag = "HELLO" =>
               x.from # x.to /\ x = [from |-> x.from, to |-> x.to, flag |-> "HELLO"]

LEMMA NewSessionKind ==
  ASSUME NEW a \in Node
  PROVE  NewSession(a) \in Sessions /\ NewSession(a).addr = a
<1>1. \A f \in BOOLEAN : [addr |-> a, alive |-> f, left |-> Retrys] \in Sessions
  BY SessionAssumption DEF Sessions
<1>2. FALSE \in BOOLEAN
  BY Zenon
<1>3. NewSession(a) \in Sessions
  BY <1>1, <1>2, Zenon DEF NewSession
<1> QED BY <1>3 DEF NewSession

LEMMA StartKinds ==
  ASSUME IInv, Types(ses), NEW n \in Node, NEW a \in Node, a # n, SessionStart(n, a)
  PROVE  Types(ses')
<1>1. CASE ses' = ses
  BY <1>1
<1>2. CASE ses' = [ses EXCEPT ![n] = @ \cup {NewSession(a)}]
  <2>1. PICK u : u = NewSession(a)
    OBVIOUS
  <2>2. u \in Sessions /\ u.addr = a
    BY <2>1, NewSessionKind
  <2>3. ses' = [ses EXCEPT ![n] = @ \cup {u}] /\ DOMAIN ses = Node
    BY <1>2, <2>1 DEF IInv
  <2> QED BY <2>2, <2>3 DEF Types
<1> QED BY <1>1, <1>2 DEF SessionStart

\* A session that a period brought nothing ends.
LEMMA RoundEnds ==
  ASSUME Kinds, NEW n \in Node, NEW s \in ses[n], NEW heard,
         Round(n, s, heard, "LAST"), ~IfAlive(s, heard)
  PROVE  ses' = [ses EXCEPT ![n] = @ \ {s}]
<1>1. s \in Sessions /\ s.alive \in BOOLEAN
  BY DEF Kinds, Sessions
<1>2. PICK f \in BOOLEAN : f = IfAlive(s, heard)
  BY <1>1 DEF IfAlive
<1>3. PICK m : m = Directed(map[n], s.addr, heard)
  OBVIOUS
<1>4. PICK r : r = After(n, s, heard, "LAST", m, Flowing(m, s.addr, heard))
  OBVIOUS
<1>5. ses' = [ses EXCEPT ![n] = r.ses]
  BY <1>3, <1>4 DEF Round
<1>6. PICK t : t = [s EXCEPT !.alive = f]
  OBVIOUS
<1>7. ~t.alive
  BY <1>1, <1>2, <1>6, AliveSet
<1>8. r.ses = ses[n] \ {s}
  BY <1>2, <1>4, <1>6, <1>7 DEF After
<1> QED BY <1>5, <1>8

LEMMA RoundKinds ==
  ASSUME IInv, Kinds, NEW n \in Node, NEW s \in ses[n], NEW heard, heard # "HELLO",
         NEW state \in {"NORMAL", "OVERTIME", "LAST"}, Round(n, s, heard, state)
  PROVE  Types(ses') /\ Hellos(net')
<1>1. Types(ses) /\ Hellos(net) /\ DOMAIN ses = Node
  BY DEF Kinds, Types, Hellos, IInv
<1>2. \A x \in net' : x.flag = "HELLO" => x \in net
  BY RoundCarries
<1>3. Hellos(net')
  BY <1>1, <1>2 DEF Hellos
<1>4. CASE state = "LAST" /\ ~IfAlive(s, heard)
  <2>1. ses' = [ses EXCEPT ![n] = @ \ {s}]
    BY <1>4, RoundEnds
  <2> QED BY <1>1, <1>3, <2>1 DEF Types
<1>5. CASE \E u \in Sessions : u.addr = s.addr /\ ses' = [ses EXCEPT ![n] = (@ \ {s}) \cup {u}]
  BY <1>1, <1>3, <1>5 DEF Types
<1> QED BY <1>4, <1>5, RoundSession

LEMMA KindsNext == IInv /\ Kinds /\ [Next]_vars => Kinds'
<1> SUFFICES ASSUME IInv, Kinds, [Next]_vars PROVE Kinds'
  OBVIOUS
<1>1. Types(ses) /\ Hellos(net)
  BY DEF Kinds, Types, Hellos
<1>2. last \in [Pairs -> Node] /\ since \in [Pairs -> 0..Slack] /\ faults \in Nat /\ Slack \in Nat
  BY SessionAssumption DEF Kinds
<1>3. ASSUME Types(ses'), Hellos(net'), UNCHANGED clocks, faults' \in Nat PROVE Kinds'
  BY <1>2, <1>3 DEF Kinds, Types, Hellos, clocks
<1>4. ASSUME NEW X, \A x \in X : x.flag \notin Kept, net' = net \cup X PROVE Hellos(net')
  BY <1>1, <1>4 DEF Hellos, Kept
<1>5. CASE UNCHANGED vars
  BY <1>1, <1>2, <1>3, <1>5 DEF vars, local, counts
<1>6. ASSUME NEW n \in Node, Unheard(n) PROVE Kinds'
  BY <1>1, <1>2, <1>3, <1>6 DEF Unheard, local, counts, Hellos
<1>7. ASSUME NEW n \in Node, Greeted(n) PROVE Kinds'
  <2>1. PICK x \in net, rest \in SUBSET net :
               /\ net \ {x} \subseteq rest
               /\ x.to = n /\ x.flag = "HELLO" /\ SessionStart(n, x.from)
               /\ net' = rest \cup Sent(n, Starts(n, x.from))
    BY <1>7 DEF Greeted, Written
  <2>2. x.from \in Node /\ x.from # n
    BY <1>1, <2>1 DEF IInv, Hellos
  <2>3. Types(ses')
    BY <1>1, <2>1, <2>2, StartKinds
  <2>4. Hellos(net')
    BY <1>1, <2>1, StartIsPlain DEF Hellos, Kept
  <2> QED BY <1>2, <1>3, <1>7, <2>3, <2>4 DEF Greeted, counts
<1>8. ASSUME NEW n \in Node, SessionHears(n) PROVE Kinds'
  <2>1. PICK s \in ses[n], x \in net : x.flag # "HELLO" /\ Round(n, s, x.flag, "NORMAL")
    BY <1>8 DEF SessionHears
  <2>2. Types(ses') /\ Hellos(net')
    BY <2>1, RoundKinds
  <2> QED BY <1>2, <1>3, <1>8, <2>2 DEF SessionHears, counts
<1>9. ASSUME NEW n \in Node, Tick(n) PROVE Kinds'
  <2>1. PICK s \in ses[n] : SessionTick(n, s)
    BY <1>9 DEF Tick
  <2>2. PICK state \in {"OVERTIME", "LAST"} : Round(n, s, "nothing", state)
    BY <2>1 DEF SessionTick
  <2>3. Types(ses') /\ Hellos(net')
    BY <2>2, RoundKinds
  <2>4. PICK p : /\ last' = [last EXCEPT ![p] = n]
                 /\ since' = [since EXCEPT ![p] = IF ~On(s.addr, n) THEN Slack ELSE IF last[p] = n THEN 0
                                                  ELSE IF @ < Slack THEN @ + 1 ELSE @]
    BY <2>1 DEF SessionTick
  <2>5. last' \in [Pairs -> Node]
    BY <1>2, <2>4
  <2>6. since' \in [Pairs -> 0..Slack]
    <3>1. PICK c : /\ c = IF ~On(s.addr, n) THEN Slack ELSE IF last[p] = n THEN 0
                          ELSE IF since[p] < Slack THEN since[p] + 1 ELSE since[p]
                   /\ since' = [since EXCEPT ![p] = c]
      BY <2>4
    <3>2. p \in Pairs => c \in 0..Slack
      BY <1>2, <3>1
    <3> QED BY <1>2, <3>1, <3>2
  <2>7. faults' \in Nat
    BY <1>2, <1>9 DEF Tick, counts
  <2> QED BY <2>3, <2>5, <2>6, <2>7 DEF Kinds, Types, Hellos
<1>10. CASE Lose
  BY <1>1, <1>2, <1>3, <1>10 DEF Lose, local, Hellos
<1>11. ASSUME NEW n \in Node, Flush(n) PROVE Kinds'
  <2>1. PICK H : H = StdoutPipeFlush(map[n], TRUE)
    OBVIOUS
  <2>2. \A f \in H : f[2] \notin Kept
    BY <2>1, FlowIsPlain DEF StdoutPipeFlush
  <2>3. net' = net \cup Sent(n, H)
    BY <1>11, <2>1 DEF Flush
  <2>4. \A x \in Sent(n, H) : x.flag \notin Kept
    BY <2>2, SentIsPlain
  <2>5. Hellos(net')
    BY <1>4, <2>3, <2>4
  <2> QED BY <1>1, <1>2, <1>3, <1>11, <2>5 DEF Flush, counts
<1>12. ASSUME NEW n \in Node, NEW a \in Node \ {n}, Connected(n, a) PROVE Kinds'
  <2>1. /\ SessionStart(n, a)
        /\ net' = (net \cup {[from |-> n, to |-> a, flag |-> "HELLO"]}) \cup Sent(n, Starts(n, a))
    BY <1>12 DEF Connected, Written
  <2>2. Types(ses')
    BY <1>1, <2>1, StartKinds
  <2>3. Hellos(net')
    BY <1>1, <2>1, StartIsPlain DEF Hellos, Kept
  <2> QED BY <1>2, <1>3, <1>12, <2>2, <2>3 DEF Connected
<1>13. ASSUME NEW n \in Node, StdinLine(n) PROVE Kinds'
  <2>1. PICK F : /\ F = PipeFlow(map[n], "stdin")
                 /\ net' = net \/ net' = net \cup Sent(n, F)
    BY <1>13 DEF StdinLine, Written
  <2>2. \A x \in Sent(n, F) : x.flag \notin Kept
    BY <2>1, FlowIsPlain, SentIsPlain
  <2>3. Hellos(net')
    BY <1>1, <1>4, <2>1, <2>2
  <2> QED BY <1>1, <1>2, <1>3, <1>13, <2>3 DEF StdinLine
<1>14. ASSUME NEW n \in Node, BackGround(n) PROVE Kinds'
  <2>1. PICK F : F = Prompt(map'[n])
    OBVIOUS
  <2>2. net' = net \cup Sent(n, F)
    BY <1>14, <2>1 DEF BackGround
  <2>3. \A x \in Sent(n, F) : x.flag \notin Kept
    BY <2>1, FlowIsPlain, SentIsPlain DEF Prompt
  <2>4. Hellos(net')
    BY <1>4, <2>2, <2>3
  <2> QED BY <1>1, <1>2, <1>3, <1>14, <2>4 DEF BackGround
<1>15. ASSUME NEW n \in Node, Crash(n) PROVE Kinds'
  <2>1. Types(ses')
    BY <1>1, <1>15 DEF Crash, IInv, Types
  <2> QED BY <1>1, <1>2, <1>3, <1>15, <2>1 DEF Crash
<1> QED BY <1>5, <1>6, <1>7, <1>8, <1>9, <1>10, <1>11, <1>12, <1>13, <1>14, <1>15 DEF Next, Main

\* Every step that loses nothing keeps what is agreed.
LEMMA KeepsNext ==
  ASSUME Retrys >= 2, Slack >= 3, IInv, Kinds, Keeps, [Next]_vars
  PROVE  faults' > 0 \/ (Keeps' /\ OnStays)
<1>1. Hellos(net) /\ faults \in Nat
  BY DEF Kinds, Hellos
<1>2. ASSUME NEW X, \A x \in X : x.flag \notin Kept, net' = net \cup X, ses' = ses, UNCHANGED clocks
      PROVE  Keeps' /\ OnStays
  <2>1. /\ \A b, c : Carried(b, c, "HELLO")' <=> Carried(b, c, "HELLO")
        /\ \A b, c : Carried(b, c, "MAINTAIN") /\ On(c, b) => Carried(b, c, "MAINTAIN")'
    BY <1>2, PlainAdds DEF Kept
  <2> QED BY <1>2, <2>1, SameSessions
<1>3. ASSUME net' = net, ses' = ses, UNCHANGED clocks PROVE Keeps' /\ OnStays
  <2>1. \A b, c, f : Carried(b, c, f)' <=> Carried(b, c, f)
    BY <1>3 DEF Carried
  <2> QED BY <1>3, <2>1, SameSessions
<1>14. ASSUME UNCHANGED vars PROVE Keeps' /\ OnStays
  BY <1>3, <1>14 DEF vars, local
<1>4. ASSUME NEW n \in Node, Unheard(n) PROVE Keeps' /\ OnStays
  <2>1. PICK x \in net : x.to = n /\ x.flag # "HELLO" /\ ~On(n, x.from) /\ net' = net \ {x}
    BY <1>4 DEF Unheard
  <2>2. ses' = ses /\ UNCHANGED clocks
    BY <1>4 DEF Unheard, local
  <2>3. \A b, c : Carried(b, c, "HELLO")' <=> Carried(b, c, "HELLO")
    BY <2>1 DEF Carried
  <2>4. \A b, c : Carried(b, c, "MAINTAIN") /\ On(c, b) => Carried(b, c, "MAINTAIN")'
    BY <2>1 DEF Carried
  <2> QED BY <2>2, <2>3, <2>4, SameSessions
<1>5. ASSUME NEW n \in Node, Greeted(n) PROVE Keeps' /\ OnStays
  <2>1. PICK x \in net, rest \in SUBSET net :
               /\ net \ {x} \subseteq rest
               /\ x.to = n /\ x.flag = "HELLO" /\ SessionStart(n, x.from)
               /\ net' = rest \cup Sent(n, Starts(n, x.from))
    BY <1>5 DEF Greeted, Written
  <2>2. PICK b : b = x.from
    OBVIOUS
  <2>3. b \in Node /\ b # n /\ x = [from |-> b, to |-> n, flag |-> "HELLO"] /\ SessionStart(n, b)
    BY <1>1, <2>1, <2>2 DEF IInv, Hellos
  <2>4. On(b, n)
    BY <2>3 DEF Keeps, Greets, Carried
  <2>5. UNCHANGED clocks
    BY <1>5 DEF Greeted
  <2>6. \A c, d : Carried(c, d, "MAINTAIN")' <=> Carried(c, d, "MAINTAIN")
    BY <2>1, <2>3, StartIsPlain DEF Carried, Kept
  <2>7. \A c, d : Carried(c, d, "HELLO")' => Carried(c, d, "HELLO") \/ (c = n /\ d = b)
    BY <2>1, StartIsPlain DEF Carried, Kept
  <2>8. \A c, d : Carried(c, d, "HELLO") => Carried(c, d, "HELLO")' \/ (c = b /\ d = n)
    BY <2>1, <2>3 DEF Carried
  <2> QED BY <2>3, <2>4, <2>5, <2>6, <2>7, <2>8, StartKeeps
<1>6. ASSUME NEW n \in Node, NEW a \in Node \ {n}, Connected(n, a) PROVE Keeps' /\ OnStays
  <2>1. /\ SessionStart(n, a) /\ UNCHANGED clocks
        /\ net' = (net \cup {[from |-> n, to |-> a, flag |-> "HELLO"]}) \cup Sent(n, Starts(n, a))
    BY <1>6 DEF Connected, Written
  <2>2. \A c, d : Carried(c, d, "MAINTAIN")' <=> Carried(c, d, "MAINTAIN")
    BY <2>1, StartIsPlain DEF Carried, Kept
  <2>3. \A c, d : Carried(c, d, "HELLO")' => Carried(c, d, "HELLO") \/ (c = n /\ d = a)
    BY <2>1, StartIsPlain DEF Carried, Kept
  <2>4. \A c, d : Carried(c, d, "HELLO") => Carried(c, d, "HELLO")' \/ (c = a /\ d = n)
    BY <2>1 DEF Carried
  <2>5. On(a, n) \/ Carried(n, a, "HELLO")'
    BY <2>1 DEF Carried
  <2>6. a \in Node /\ a # n
    OBVIOUS
  <2> QED BY <2>1, <2>2, <2>3, <2>4, <2>5, <2>6, StartKeeps
<1>7. ASSUME NEW n \in Node, SessionHears(n) PROVE Keeps' /\ OnStays
  BY <1>7, HearingKeeps
<1>8. ASSUME NEW n \in Node, Tick(n) PROVE Keeps' /\ OnStays
  BY <1>8, TickKeeps
<1>9. ASSUME NEW n \in Node, Flush(n) PROVE Keeps' /\ OnStays
  <2>1. PICK H : H = StdoutPipeFlush(map[n], TRUE)
    OBVIOUS
  <2>2. \A f \in H : f[2] \notin Kept
    BY <2>1, FlowIsPlain DEF StdoutPipeFlush
  <2>3. net' = net \cup Sent(n, H) /\ ses' = ses /\ UNCHANGED clocks
    BY <1>9, <2>1 DEF Flush
  <2>4. \A x \in Sent(n, H) : x.flag \notin Kept
    BY <2>2, SentIsPlain
  <2> QED BY <1>2, <2>3, <2>4
<1>10. ASSUME NEW n \in Node, StdinLine(n) PROVE Keeps' /\ OnStays
  <2>1. PICK F : /\ F = PipeFlow(map[n], "stdin")
                 /\ net' = net \/ net' = net \cup Sent(n, F)
    BY <1>10 DEF StdinLine, Written
  <2>2. \A x \in Sent(n, F) : x.flag \notin Kept
    BY <2>1, FlowIsPlain, SentIsPlain
  <2>3. ses' = ses /\ UNCHANGED clocks
    BY <1>10 DEF StdinLine
  <2>4. CASE net' = net
    BY <1>3, <2>3, <2>4
  <2>5. CASE net' = net \cup Sent(n, F)
    BY <1>2, <2>2, <2>3, <2>5
  <2> QED BY <2>1, <2>4, <2>5
<1>11. ASSUME NEW n \in Node, BackGround(n) PROVE Keeps' /\ OnStays
  <2>1. PICK F : F = Prompt(map'[n])
    OBVIOUS
  <2>2. net' = net \cup Sent(n, F) /\ ses' = ses /\ UNCHANGED clocks
    BY <1>11, <2>1 DEF BackGround
  <2>3. \A x \in Sent(n, F) : x.flag \notin Kept
    BY <2>1, FlowIsPlain, SentIsPlain DEF Prompt
  <2> QED BY <1>2, <2>2, <2>3
<1>12. ASSUME Lose PROVE faults' > 0
  BY <1>1, <1>12 DEF Lose
<1>13. ASSUME NEW n \in Node, Crash(n) PROVE faults' > 0
  BY <1>1, <1>13 DEF Crash
<1> QED BY <1>14, <1>4, <1>5, <1>6, <1>7, <1>8, <1>9, <1>10, <1>11, <1>12, <1>13 DEF Next, Main

LEMMA KeepingNext ==
  ASSUME Retrys >= 2, Slack >= 3
  PROVE  IInv /\ Kinds /\ Keeping /\ [Next]_vars => Kinds' /\ Keeping' /\ (faults' > 0 \/ OnStays)
<1> SUFFICES ASSUME IInv, Kinds, Keeping, [Next]_vars
             PROVE  Kinds' /\ Keeping' /\ (faults' > 0 \/ OnStays)
  OBVIOUS
<1>1. Kinds'
  BY KindsNext
<1>2. faults \in Nat /\ faults' \in Nat /\ faults' >= faults
  <2>1. faults \in Nat /\ faults' \in Nat
    BY <1>1 DEF Kinds
  <2>2. faults' = faults \/ faults' = faults + 1
    BY DEF Next, Main, vars, counts, Unheard, Greeted, SessionHears, Tick, Lose, Flush, StdinLine,
           BackGround, Crash, Connected
  <2> QED BY <2>1, <2>2
<1>3. CASE faults' = 0
  <2>1. Keeps
    BY <1>2, <1>3 DEF Keeping
  <2>2. Keeps' /\ OnStays
    BY <1>2, <1>3, <2>1, KeepsNext
  <2> QED BY <1>1, <2>2 DEF Keeping
<1>4. CASE faults' > 0
  BY <1>1, <1>4 DEF Keeping
<1> QED BY <1>1, <1>2, <1>3, <1>4

\* A session ends (SessionMaintain, at LAST_TIME) while the other side keeps
\* its own only after a loss or a restart, for any number of nodes: with two
\* retries or more, as conditions 1 and 2 have, and clocks of which none gains
\* more than one tick in three.
THEOREM KeepsAlive ==
  ASSUME Retrys >= 2, Slack >= 3
  PROVE  Spec => KeptAlive
<1>1. Init => Kinds /\ Keeping
  <2> SUFFICES ASSUME Init PROVE Kinds /\ Keeping
    OBVIOUS
  <2>1. \A n \in Node : ses[n] = {}
    BY DEF Init
  <2>2. net = {} /\ last \in [Pairs -> Node] /\ since = [p \in Pairs |-> Slack] /\ faults = 0
    BY DEF Init
  <2>3. Kinds
    BY <2>1, <2>2, SessionAssumption DEF Kinds
  <2>4. Keeping
    BY <2>1, <2>2 DEF Keeping, Keeps, Greets, Waits, Hears, Carried
  <2> QED BY <2>3, <2>4
<1>2. IInv /\ Kinds /\ Keeping /\ [Next]_vars => Kinds' /\ Keeping'
  BY KeepingNext
<1>3. IInv /\ Kinds /\ Keeping /\ [Next]_vars =>
        [ \A n \in Node, a \in Node :
            On(n, a) /\ ~On(n, a)' /\ On(a, n) => faults' > 0 ]_vars
  BY KeepingNext DEF OnStays
<1> QED BY <1>1, <1>2, <1>3, Invariant, PTL DEF Spec, KeptAlive
=============================================================================
