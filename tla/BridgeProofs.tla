---------------------------- MODULE BridgeProofs ----------------------------
(***************************************************************************)
(* The bridge keeps its types, never asks for a connection without a name, *)
(* never picks a seed that has gone, and connects nobody to a stranger.    *)
(* What it reports as bridged was reached by sides that were told to, and  *)
(* relays join whom their number was given to.  Both kinds of process only *)
(* ever come nearer to their wait step.  All this is for any number of     *)
(* peers and names, any retries, losses, duplicates, commands and restarts.*)
(***************************************************************************)
EXTENDS Bridge, SequenceTheorems, FiniteSetTheorems, TLAPS

(***************************************************************************)
(* The messages.                                                           *)
(***************************************************************************)

PlainInfo == {"RGST_OK", "NAMEID_EXIST", "ECHO", "NO_NAMEID", "CONNECT_BEGIN",
              "NO_SEED_TO_RELAY", "ERROR", "PUNCHING_FINISH", "ACKNOWLEDGE",
              "ESTABLISHED", "ERR_CONNECT_ADDR"}

\* What a program may write: a register message tells the NAT of its sender.
Msgs ==
  [info : PlainInfo, from : Node, to : Node]
  \cup {RegisterMsg(p, Server, n, NATOf[p]) : p \in Peer, n \in Name}
  \cup [info : {"WAITING"}, from : Node, to : Node, relays : Nat]
  \cup [info : {"CONNECT"}, from : Node, to : Node, name : Name]
  \cup [info : {"PUNCHING"}, from : Node, to : Node, addr : Node]
  \cup [info : {"CONNECT_ADDR"}, from : Node, to : Node, addr : Peer, rid : 0..MaxRelayID]
  \cup [info : {"HELLO"}, from : Node, to : Node, rid : RelayIDs]

WireOK == dups \in 0..MaxDups /\ net \subseteq Msgs

LEMMA MsgFields ==
  ASSUME NEW m \in Msgs
  PROVE  /\ m.from \in Node /\ m.to \in Node
         /\ m.info = "REGISTER" => m.from \in Peer /\ m.name \in Name /\ m.nat = NATOf[m.from]
         /\ m.info = "WAITING" => m.relays \in Nat
         /\ m.info = "CONNECT_ADDR" => m.addr \in Peer /\ m.rid \in 0..MaxRelayID
         /\ m.info = "HELLO" => m.rid \in RelayIDs
  BY DEF Msgs, RegisterMsg, Node, PlainInfo

\* What is written without reading stays among the messages.
LEMMA WriteKeeps ==
  ASSUME NEW G, net \subseteq G, NEW S, S \subseteq G, Write(S)
  PROVE  net' \subseteq G /\ dups' = dups
  BY DEF Write, Lossy

LEMMA ReadWriteKeeps ==
  ASSUME NEW G, net \subseteq G, NEW m, NEW S, S \subseteq G, ReadWrite(m, S),
         dups \in 0..MaxDups
  PROVE  net' \subseteq G /\ dups' \in 0..MaxDups
<1>1. MaxDups \in Nat
  BY BridgeAssumption
<1>2. CASE net' \in Lossy(net \ {m}, S) /\ UNCHANGED dups
  BY <1>2 DEF Lossy
<1>3. CASE dups < MaxDups /\ dups' = dups + 1 /\ net' \in Lossy(net, S)
  <2>1. net' \subseteq G
    BY <1>3 DEF Lossy
  <2> QED BY <1>1, <1>3, <2>1
<1> QED BY <1>2, <1>3 DEF ReadWrite

(***************************************************************************)
(* The types, and the seeds.                                               *)
(***************************************************************************)

SubRec ==
  [step : SubStep, retrys : 0..SubRetrys, first : BOOLEAN,
   a : Peer, b : Peer \cup {NoAddr}, s : Peer \cup {NoAddr},
   flag : Flag, rid : 0..MaxRelayID,
   pun : Peer \cup {NoAddr}, con : Peer \cup {NoAddr}, err : SubErr]

\* A sub server that leads two peers together knows which, and how; one that
\* is to lead the other side too knows the seed and the peers.
LedSubs == {d \in SubRec :
  /\ d.step \in {"Punching", "ConnectAddr"} =>
       d.pun \in Peer /\ d.con \in Peer /\ d.flag \in {"DIRECT", "A_SIDE_RELAY", "B_SIDE_RELAY"}
  /\ d.step \in {"Punching", "ConnectAddr", "Decision"} /\ d.flag = "A_SIDE_RELAY" =>
       d.b \in Peer /\ d.s \in Peer /\ d.rid # 0
  /\ d.step = "Decision" /\ d.flag = "BEGIN" => d.b \in Peer}

SubsOK == sub \in [Name -> LedSubs \cup {NoSub}] /\ accRelayID \in 1..MaxRelayID

CliRec ==
  [step : CliStep, retrys : Nat, first : BOOLEAN, connected : BOOLEAN, fast : BOOLEAN,
   target : Name \cup {NoName}, direct : Addr, sx : Addr, b : Addr, rid : RelayIDs, to : Addr,
   info : {"HELLO", "ESTABLISHED", "ERR_CONNECT_ADDR"}]

\* A client that was told to hurry has not polled its wait step yet.
GoodClients(p) == {c \in CliRec :
  /\ c.step = "Register" => p \in Peer
  /\ c.retrys \in 0..Retrys(c.step)
  /\ c.step = "Require" => c.target # NoName
  /\ c.step = "Wait" /\ c.fast => c.first
  /\ c.step = "DoConnect" => c.b \in Node}

ClientsOK ==
  /\ cli \in [Node -> CliRec] /\ \A p \in Node : cli[p] \in GoodClients(p)
  /\ nrelays \in [Node -> 0..(UintSize - 1)]

SeedRec == [name : Name, relays : Nat]

SeedsOK == seeds \in Seq(SeedRec) /\ SeedsAlive

(***************************************************************************)
(* The server.                                                             *)
(***************************************************************************)

\* The steps a sub server may enter without knowing anything.
FreeStep == {"Begin", "RequireServer", "RequireReply", "ErrReturn"}

LEMMA SubFacts ==
  /\ NoSub \notin SubRec /\ LedSubs \subseteq SubRec
  /\ \A a \in Peer : NewSub(a) \in LedSubs /\ NewSub(a).a = a
<1>1. NoSub \notin SubRec
  BY DEF NoSub, SubRec, SubStep
<1>2. ASSUME NEW a \in Peer
      PROVE  NewSub(a) \in LedSubs /\ NewSub(a).a = a
  BY BdgServerAssumption DEF NewSub, LedSubs, SubRec, SubStep, Flag, SubErr
<1> QED BY <1>1, <1>2 DEF LedSubs

LEMMA AtFacts ==
  ASSUME NEW d \in SubRec, NEW s \in SubStep
  PROVE  /\ At(d, s) \in SubRec /\ At(d, s).step = s
         /\ s \in FreeStep => At(d, s) \in LedSubs
         /\ At(d, s).a = d.a /\ At(d, s).b = d.b /\ At(d, s).s = d.s
         /\ At(d, s).pun = d.pun /\ At(d, s).con = d.con
         /\ At(d, s).flag = d.flag /\ At(d, s).rid = d.rid
<1> DEFINE e == At(d, s)
<1>1. SubRetrys \in 0..SubRetrys
  BY BdgServerAssumption
<1>2. e \in SubRec
  BY <1>1 DEF At, SubRec
<1>3. /\ e.step = s /\ e.a = d.a /\ e.b = d.b /\ e.s = d.s /\ e.pun = d.pun /\ e.con = d.con
      /\ e.flag = d.flag /\ e.rid = d.rid
  BY DEF At, SubRec
<1> HIDE DEF e
<1>4. s \in FreeStep => e \in LedSubs
  BY <1>2, <1>3 DEF LedSubs, FreeStep
<1> QED BY <1>2, <1>3, <1>4 DEF e

\* Whatever a sub server hears, it works for the same peer.
LEMMA SubHearsOK ==
  ASSUME SubsOK, NEW d \in LedSubs, NEW m
  PROVE  SubHears(d, m) \in LedSubs /\ SubHears(d, m).a = d.a
<1>1. \A n \in Registered : sub[n] \in SubRec /\ sub[n].a \in Peer
  BY SubFacts DEF Registered, SubsOK, SubRec
<1>2. d \in SubRec
  BY DEF LedSubs
<1>3. \A s \in FreeStep : At(d, s) \in LedSubs /\ At(d, s).a = d.a
  BY <1>2, AtFacts DEF FreeStep, SubStep
<1>4. RequireServerHears(d, m) \in LedSubs /\ RequireServerHears(d, m).a = d.a
  <2> DEFINE bb == IF m.name \in Registered THEN sub[m.name].a ELSE NoAddr
  <2>1. bb \in Peer \cup {NoAddr}
    BY <1>1
  <2> HIDE DEF bb
  <2>2. PICK e : e = At(d, "RequireReply")
    OBVIOUS
  <2>3. e \in SubRec /\ e.a = d.a /\ e.step = "RequireReply"
    BY <1>2, <2>2, AtFacts DEF SubStep
  <2>4. [e EXCEPT !.b = bb] \in LedSubs /\ [e EXCEPT !.b = bb].a = d.a
    BY <2>1, <2>3 DEF SubRec, LedSubs
  <2> QED BY <1>3, <2>2, <2>4 DEF RequireServerHears, FreeStep, bb
<1>5. RequireReplyHears(d, m) \in LedSubs /\ RequireReplyHears(d, m).a = d.a
  <2>1. PICK e : e = At(d, "Decision")
    OBVIOUS
  <2>2. e \in SubRec /\ e.a = d.a /\ (d.b # NoAddr => e.b \in Peer) /\ e.step = "Decision"
    BY <1>2, <2>1, AtFacts DEF SubStep, SubRec
  <2>3. d.b # NoAddr =>
          [e EXCEPT !.flag = "BEGIN"] \in LedSubs /\ [e EXCEPT !.flag = "BEGIN"].a = d.a
    <3> DEFINE x == [e EXCEPT !.flag = "BEGIN"]
    <3>1. x \in SubRec /\ x.flag = "BEGIN" /\ x.a = d.a /\ x.b = e.b /\ x.step = "Decision"
      BY <2>2 DEF SubRec, Flag
    <3> HIDE DEF x
    <3>2. d.b # NoAddr => x \in LedSubs /\ x.a = d.a
      BY <2>2, <3>1 DEF LedSubs
    <3> QED BY <3>2 DEF x
  <2> QED BY <1>3, <2>1, <2>3 DEF RequireReplyHears, FreeStep
<1>6. d.step = "Punching" => PunchingHears(d, m) \in LedSubs /\ PunchingHears(d, m).a = d.a
  <2>1. PICK e : e = At(d, "ConnectAddr")
    OBVIOUS
  <2>2. d.step = "Punching" => e \in LedSubs /\ e.a = d.a
    BY <1>2, <2>1, AtFacts DEF SubStep, LedSubs
  <2> QED BY <2>1, <2>2 DEF PunchingHears
<1>7. d.step = "ConnectAddr" => ConnectAddrHears(d, m) \in LedSubs /\ ConnectAddrHears(d, m).a = d.a
  <2>1. PICK e : e = At(d, "Decision")
    OBVIOUS
  <2>2. d.step = "ConnectAddr" => e \in LedSubs /\ e.a = d.a
    BY <1>2, <2>1, AtFacts DEF SubStep, LedSubs
  <2> QED BY <2>1, <2>2 DEF ConnectAddrHears
<1>8. /\ BeginHears(d, m) \in LedSubs /\ BeginHears(d, m).a = d.a
      /\ ErrReturnHears(d, m) \in LedSubs /\ ErrReturnHears(d, m).a = d.a
  BY <1>3 DEF BeginHears, ErrReturnHears, FreeStep
<1> QED BY <1>4, <1>5, <1>6, <1>7, <1>8 DEF SubHears

\* A sub server that moves on keeps its peer, and its seed.
LEMMA SubMoves ==
  ASSUME SubsOK, SeedsOK, NEW n \in Registered, NEW d \in LedSubs, d.a = sub[n].a,
         sub' = [sub EXCEPT ![n] = d], seeds' = seeds, accRelayID' \in 1..MaxRelayID
  PROVE  SubsOK' /\ SeedsOK'
<1>1. n \in Name /\ sub'[n] = d /\ sub'[n].a = sub[n].a
  BY DEF Registered, SubsOK
<1>2. \A k \in Name : sub'[k].a = sub[k].a /\ (sub'[k] # NoSub <=> sub[k] # NoSub)
  BY <1>1, SubFacts DEF Registered, SubsOK
<1>3. SubsOK'
  BY <1>1 DEF SubsOK
<1>4. SeedsOK'
  BY <1>2 DEF SeedsOK, SeedsAlive, Registered
<1> QED BY <1>3, <1>4

\* Taking a seed off the list.
LEMMA RemoveAtOK ==
  ASSUME NEW S, NEW q \in Seq(S), NEW k \in DOMAIN q
  PROVE  /\ RemoveAt(q, k) \in Seq(S)
         /\ \A i \in DOMAIN RemoveAt(q, k) :
              LET o == IF i < k THEN i ELSE i + 1
              IN  o \in DOMAIN q \ {k} /\ RemoveAt(q, k)[i] = q[o]
<1>1. /\ Len(q) \in Nat /\ DOMAIN q = 1..Len(q) /\ \A i \in DOMAIN q : q[i] \in S
  BY LenProperties, ElementOfSeq
<1> DEFINE l == SubSeq(q, 1, k - 1)
           r == SubSeq(q, k + 1, Len(q))
<1>2. /\ l \in Seq(S) /\ Len(l) = k - 1 /\ \A i \in 1..(k - 1) : l[i] = q[i]
  <2>1. \A i \in 1..(k - 1) : q[i] \in S
    BY <1>1
  <2>2. /\ l \in Seq(S) /\ Len(l) = IF 1 <= k - 1 THEN k - 1 - 1 + 1 ELSE 0
        /\ \A i \in 1..(k - 1 - 1 + 1) : l[i] = q[1 + i - 1]
    BY <1>1, <2>1, SubSeqProperties
  <2> HIDE DEF l
  <2> QED BY <1>1, <2>2
<1>3. /\ r \in Seq(S) /\ Len(r) = Len(q) - k /\ \A i \in 1..(Len(q) - k) : r[i] = q[k + i]
  <2>1. \A i \in (k + 1)..Len(q) : q[i] \in S
    BY <1>1
  <2>2. /\ r \in Seq(S) /\ Len(r) = IF k + 1 <= Len(q) THEN Len(q) - (k + 1) + 1 ELSE 0
        /\ \A i \in 1..(Len(q) - (k + 1) + 1) : r[i] = q[k + 1 + i - 1]
    BY <1>1, <2>1, SubSeqProperties
  <2>3. /\ k \in Nat /\ Len(q) \in Nat /\ k <= Len(q)
        /\ \A i \in 1..(Len(q) - k) : i \in 1..(Len(q) - (k + 1) + 1) /\ k + 1 + i - 1 = k + i
    BY <1>1
  <2> HIDE DEF r
  <2>4. Len(r) = Len(q) - k
    BY <2>2, <2>3
  <2>5. \A i \in 1..(Len(q) - k) : r[i] = q[k + i]
    BY <2>2, <2>3
  <2> QED BY <2>2, <2>4, <2>5
<1> HIDE DEF l, r
<1>4. /\ l \o r \in Seq(S) /\ Len(l \o r) = Len(l) + Len(r)
      /\ \A i \in 1..(Len(l) + Len(r)) :
           (l \o r)[i] = IF i <= Len(l) THEN l[i] ELSE r[i - Len(l)]
  BY <1>2, <1>3, ConcatProperties
<1>5. k \in Nat \ {0} /\ k <= Len(q) /\ Len(l) + Len(r) = Len(q) - 1
  BY <1>1, <1>2, <1>3
<1>7. DOMAIN (l \o r) = 1..(Len(q) - 1)
  BY <1>4, <1>5, LenProperties
<1>8. ASSUME NEW i \in 1..(Len(q) - 1)
      PROVE  /\ (IF i < k THEN i ELSE i + 1) \in DOMAIN q \ {k}
             /\ (l \o r)[i] = q[IF i < k THEN i ELSE i + 1]
  <2>1. CASE i < k
    <3>1. i <= Len(l) /\ i \in 1..(k - 1) /\ i \in 1..(Len(l) + Len(r)) /\ i \in 1..Len(q) /\ i # k
      BY <1>1, <1>2, <1>5, <2>1
    <3>2. (l \o r)[i] = q[i]
      BY <1>2, <1>4, <3>1
    <3> QED BY <1>1, <2>1, <3>1, <3>2
  <2>2. CASE ~(i < k)
    <3>1. ~(i <= Len(l)) /\ i \in 1..(Len(l) + Len(r)) /\ i + 1 \in 1..Len(q) /\ i + 1 # k
          /\ i - Len(l) \in 1..(Len(q) - k) /\ k + (i - Len(l)) = i + 1
      BY <1>1, <1>2, <1>5, <2>2
    <3>2. (l \o r)[i] = q[i + 1]
      BY <1>3, <1>4, <3>1
    <3> QED BY <1>1, <2>2, <3>1, <3>2
  <2> QED BY <2>1, <2>2
<1>6. RemoveAt(q, k) = l \o r
  BY DEF RemoveAt, l, r
<1> QED BY <1>4, <1>6, <1>7, <1>8

\* A name leaves the registry together with its seed.
LEMMA SubEndsOK ==
  ASSUME SubsOK, SeedsOK, WireOK, NEW n \in Name, SubEnds(n)
  PROVE  SubsOK' /\ SeedsOK' /\ WireOK'
<1>1. sub' = [sub EXCEPT ![n] = NoSub]
  BY DEF SubEnds
<1>2. SubsOK' /\ WireOK'
  BY <1>1 DEF SubsOK, WireOK, SubEnds, wire
<1>3. \A k \in Name \ {n} : sub'[k] = sub[k]
  BY <1>1 DEF SubsOK
<1>4. /\ seeds \in Seq(SeedRec) /\ DOMAIN seeds = 1..Len(seeds) /\ Len(seeds) \in Nat
      /\ \A i \in DOMAIN seeds : seeds[i] \in SeedRec /\ seeds[i].name \in Name
  <2>1. seeds \in Seq(SeedRec)
    BY DEF SeedsOK
  <2>2. /\ DOMAIN seeds = 1..Len(seeds) /\ Len(seeds) \in Nat
        /\ \A i \in DOMAIN seeds : seeds[i] \in SeedRec
    BY <2>1, LenProperties, ElementOfSeq
  <2> QED BY <2>1, <2>2 DEF SeedRec
<1>5. \A i \in DOMAIN seeds : seeds[i].name # n =>
        seeds[i].name \in Registered' /\ NATOf[sub'[seeds[i].name].a] \in {0, 1}
  BY <1>3, <1>4 DEF SeedsOK, SeedsAlive, Registered
<1>6. CASE SeedAt(n) = {}
  <2>1. seeds' = seeds /\ \A i \in DOMAIN seeds : seeds[i].name # n
    BY <1>6 DEF SubEnds, SeedAt
  <2> QED BY <1>2, <1>5, <2>1 DEF SeedsOK, SeedsAlive
<1>7. CASE SeedAt(n) # {}
  <2>1. PICK k \in DOMAIN seeds : seeds[k].name = n /\ seeds' = RemoveAt(seeds, k)
    BY <1>7 DEF SubEnds, SeedAt
  <2>2. \A i \in DOMAIN seeds : seeds[i].name = n => i = k
    BY <2>1 DEF SeedsOK, SeedsAlive
  <2> DEFINE Old(i) == IF i < k THEN i ELSE i + 1
  <2>3. /\ seeds' \in Seq(SeedRec) /\ DOMAIN seeds' = 1..Len(seeds')
        /\ \A i \in DOMAIN seeds' : Old(i) \in DOMAIN seeds \ {k} /\ seeds'[i] = seeds[Old(i)]
    <3>1. /\ seeds' \in Seq(SeedRec)
          /\ \A i \in DOMAIN seeds' : Old(i) \in DOMAIN seeds \ {k} /\ seeds'[i] = seeds[Old(i)]
      BY <1>4, <2>1, RemoveAtOK
    <3> QED BY <3>1, LenProperties
  <2>4. \A i, j \in DOMAIN seeds' : Old(i) = Old(j) => i = j
    BY <1>4, <2>1, <2>3
  <2>5. \A i \in DOMAIN seeds' : seeds'[i].name \in Registered'
                               /\ NATOf[sub'[seeds'[i].name].a] \in {0, 1}
    <3> HIDE DEF Old
    <3> QED BY <1>5, <2>2, <2>3
  <2>6. \A i, j \in DOMAIN seeds' : seeds'[i].name = seeds'[j].name => i = j
    <3> HIDE DEF Old
    <3> QED BY <2>3, <2>4 DEF SeedsOK, SeedsAlive
  <2> QED BY <1>2, <2>3, <2>5, <2>6 DEF SeedsOK, SeedsAlive
<1> QED BY <1>6, <1>7

\* A name that is new gets a sub server, and one seed if others can reach it.
LEMMA RegisterOK ==
  ASSUME SubsOK, SeedsOK, WireOK, NEW m \in net, m.info = "REGISTER", Register(m)
  PROVE  SubsOK' /\ SeedsOK' /\ WireOK'
<1>1. m.from \in Peer /\ m.from \in Node /\ m.name \in Name /\ m.nat = NATOf[m.from] /\ Server \in Node
  BY MsgFields DEF WireOK, Node
<1>2. CASE m.name \in Registered
  <2>1. ReadWrite(m, {Plain("NAMEID_EXIST", Server, m.from)}) /\ UNCHANGED server
    BY <1>2 DEF Register
  <2>2. {Plain("NAMEID_EXIST", Server, m.from)} \subseteq Msgs
    BY <1>1 DEF Plain, Msgs, PlainInfo
  <2>3. WireOK'
    BY <2>1, <2>2, ReadWriteKeeps DEF WireOK
  <2>4. SubsOK' /\ SeedsOK'
    BY <2>1 DEF server, SubsOK, SeedsOK, SeedsAlive, Registered
  <2> QED BY <2>3, <2>4
<1>3. CASE m.name \notin Registered
  <2>1. /\ ReadWrite(m, {}) /\ sub' = [sub EXCEPT ![m.name] = NewSub(m.from)]
        /\ seeds' = IF m.nat \in {0, 1}
                    THEN Append(seeds, [name |-> m.name, relays |-> 0]) ELSE seeds
        /\ accRelayID' = accRelayID
    BY <1>3 DEF Register, SubGoes
  <2>2. WireOK'
    BY <2>1, ReadWriteKeeps DEF WireOK
  <2>3. /\ sub'[m.name] = NewSub(m.from) /\ sub'[m.name] # NoSub /\ sub'[m.name].a = m.from
        /\ \A k \in Name \ {m.name} : sub'[k] = sub[k]
    BY <1>1, <2>1, SubFacts DEF SubsOK
  <2>4. SubsOK'
    BY <1>1, <2>1, SubFacts DEF SubsOK
  <2>5. \A i \in DOMAIN seeds : /\ seeds[i].name # m.name /\ seeds[i].name \in Registered'
                                /\ NATOf[sub'[seeds[i].name].a] \in {0, 1}
    BY <1>3, <2>3 DEF SeedsOK, SeedsAlive, Registered
  <2>6. CASE m.nat \notin {0, 1}
    BY <2>1, <2>4, <2>2, <2>5, <2>6 DEF SeedsOK, SeedsAlive
  <2>7. CASE m.nat \in {0, 1}
    <3> DEFINE e == [name |-> m.name, relays |-> 0]
    <3>1. e \in SeedRec /\ e.name = m.name
      BY <1>1 DEF SeedRec
    <3>2. seeds' = Append(seeds, e)
      BY <2>1, <2>7
    <3> HIDE DEF e
    <3>3. /\ seeds' \in Seq(SeedRec) /\ Len(seeds') = Len(seeds) + 1 /\ Len(seeds) \in Nat
          /\ \A i \in 1..Len(seeds) : seeds'[i] = seeds[i]
          /\ seeds'[Len(seeds) + 1] = e
      BY <3>1, <3>2, AppendProperties, LenProperties DEF SeedsOK
    <3>4. DOMAIN seeds' = 1..(Len(seeds) + 1) /\ DOMAIN seeds = 1..Len(seeds)
      BY <3>3, LenProperties DEF SeedsOK
    <3>5. \A i \in DOMAIN seeds' : \/ i \in DOMAIN seeds /\ seeds'[i] = seeds[i]
                                   \/ i = Len(seeds) + 1 /\ seeds'[i].name = m.name
      BY <3>1, <3>3, <3>4
    <3>6. m.name \in Registered' /\ NATOf[sub'[m.name].a] \in {0, 1}
      BY <1>1, <2>3, <2>7 DEF Registered
    <3> QED BY <2>2, <2>4, <2>5, <3>3, <3>5, <3>6 DEF SeedsOK, SeedsAlive
  <2> QED BY <2>6, <2>7
<1> QED BY <1>2, <1>3

\* Everybody reads the message; seeds report how many relays they run.
LEMMA SubsHearOK ==
  ASSUME SubsOK, SeedsOK, WireOK, NEW m \in net, SubsHear(m)
  PROVE  SubsOK' /\ SeedsOK' /\ WireOK'
<1>1. \A n \in Name : \/ sub[n] \in LedSubs /\ sub'[n] \in LedSubs /\ sub'[n].a = sub[n].a
                      \/ sub[n] = NoSub /\ sub'[n] = NoSub
  <2>1. SubHears(NoSub, m) = NoSub
    BY DEF SubHears, NoSub
  <2>2. \A n \in Name : sub'[n] = SubHears(sub[n], m)
    BY DEF SubsHear
  <2> QED BY <2>1, <2>2, SubHearsOK DEF SubsOK
<1>2. SubsOK'
  <2>1. sub' = [n \in Name |-> SubHears(sub[n], m)] /\ accRelayID' = accRelayID
    BY DEF SubsHear
  <2> QED BY <1>1, <2>1 DEF SubsOK
<1>3. WireOK'
  <2>1. {Plain("ECHO", Server, m.from)} \subseteq Msgs
    BY MsgFields DEF Plain, Msgs, PlainInfo, Node, WireOK
  <2> DEFINE S == IF Echoes(m) # {} THEN {Plain("ECHO", Server, m.from)} ELSE {}
  <2>2. S \subseteq Msgs /\ ReadWrite(m, S)
    BY <2>1 DEF SubsHear
  <2> HIDE DEF S
  <2> QED BY <2>2, ReadWriteKeeps DEF WireOK
<1>4. /\ seeds \in Seq(SeedRec) /\ DOMAIN seeds = 1..Len(seeds) /\ Len(seeds) \in Nat
      /\ \A i \in DOMAIN seeds : seeds[i] \in SeedRec
  BY LenProperties, ElementOfSeq DEF SeedsOK
<1>5. \A i \in DOMAIN seeds : seeds'[i] \in SeedRec /\ seeds'[i].name = seeds[i].name
  <2> SUFFICES ASSUME NEW i \in DOMAIN seeds
               PROVE  seeds'[i] \in SeedRec /\ seeds'[i].name = seeds[i].name
    OBVIOUS
  <2>1. seeds'[i] = IF seeds[i].name \in Echoes(m)
                    THEN [seeds[i] EXCEPT !.relays = m.relays] ELSE seeds[i]
    BY DEF SubsHear
  <2>2. seeds[i].name \in Echoes(m) => m.relays \in Nat
    BY MsgFields DEF Echoes, WireOK
  <2> QED BY <1>4, <2>1, <2>2 DEF SeedRec
<1>6. DOMAIN seeds' = 1..Len(seeds) /\ seeds' \in Seq(SeedRec)
  <2>1. seeds' \in [1..Len(seeds) -> SeedRec]
    BY <1>4, <1>5 DEF SubsHear
  <2> QED BY <1>4, <2>1
<1>7. \A n \in Registered : n \in Registered' /\ sub'[n].a = sub[n].a
  BY <1>1, SubFacts DEF Registered
<1> QED BY <1>2, <1>3, <1>4, <1>5, <1>6, <1>7 DEF SeedsOK, SeedsAlive

\* A poll that sends uses up a retry at most.
LEMMA SubCharges ==
  ASSUME NEW n, sub[n] \in LedSubs, MaySend(n)
  PROVE  SubCharge(n) \in LedSubs /\ SubCharge(n).a = sub[n].a
<1>1. sub[n] \in SubRec
  BY SubFacts
<1>2. SubCharge(n) \in SubRec
  <2>1. CASE sub[n].first
    BY <1>1, <2>1 DEF SubCharge, SubRec
  <2>2. CASE ~sub[n].first
    <3>1. sub[n].retrys - 1 \in 0..SubRetrys
      BY <1>1, <2>2, BdgServerAssumption DEF MaySend, SubRec
    <3> QED BY <1>1, <2>2, <3>1 DEF SubCharge, SubRec
  <2> QED BY <2>1, <2>2
<1>3. /\ SubCharge(n).a = sub[n].a /\ SubCharge(n).b = sub[n].b /\ SubCharge(n).s = sub[n].s
      /\ SubCharge(n).pun = sub[n].pun /\ SubCharge(n).con = sub[n].con
      /\ SubCharge(n).flag = sub[n].flag /\ SubCharge(n).rid = sub[n].rid
      /\ SubCharge(n).step = sub[n].step
  BY <1>1 DEF SubCharge, SubRec
<1> QED BY <1>2, <1>3 DEF LedSubs

LEMMA SubSendsOK ==
  ASSUME SubsOK, SeedsOK, WireOK, NEW n \in Registered, NEW S, S \subseteq Msgs, SubSends(n, S)
  PROVE  SubsOK' /\ SeedsOK' /\ WireOK'
<1>1. sub[n] \in LedSubs
  BY DEF Registered, SubsOK
<1>2. SubCharge(n) \in LedSubs /\ SubCharge(n).a = sub[n].a
  BY <1>1, SubCharges DEF SubSends
<1>3. WireOK'
  BY WriteKeeps DEF SubSends, WireOK
<1>4. sub' = [sub EXCEPT ![n] = SubCharge(n)] /\ seeds' = seeds /\ accRelayID' \in 1..MaxRelayID
  BY DEF SubSends, SubGoes, SubsOK
<1> QED BY <1>2, <1>3, <1>4, SubMoves

LEMMA SubGivesUpOK ==
  ASSUME SubsOK, SeedsOK, WireOK, NEW n \in Registered, NEW d \in LedSubs, d.a = sub[n].a,
         SubGivesUp(n, d)
  PROVE  SubsOK' /\ SeedsOK' /\ WireOK'
<1>1. sub' = [sub EXCEPT ![n] = d] /\ seeds' = seeds /\ accRelayID' \in 1..MaxRelayID
  BY DEF SubGivesUp, SubGoes, SubsOK
<1>2. WireOK'
  BY DEF SubGivesUp, WireOK, wire
<1> QED BY <1>1, <1>2, SubMoves

\* Every set of indices has a least.
Less == {ss \in Nat \X Nat : ss[1] < ss[2]}

LEMMA LeastOf ==
  ASSUME NEW T, T \subseteq Nat, T # {}
  PROVE  \E x \in T : \A y \in T : x <= y
<1>1. IsWellFoundedOn(Less, Nat)
  <2>1. OpToRel(<, Nat) = Less
    BY DEF OpToRel, Less
  <2> QED BY <2>1, NatLessThanWellFounded
<1>2. PICK x \in T : \A y \in T : ~(<<y, x>> \in Less)
  BY <1>1, WFMin
<1>3. ASSUME NEW y \in T, y < x
      PROVE  FALSE
  <2>1. <<y, x>> \in Nat \X Nat /\ <<y, x>>[1] = y /\ <<y, x>>[2] = x
    OBVIOUS
  <2>2. <<y, x>> \in Less
    BY <1>3, <2>1 DEF Less
  <2> QED BY <1>2, <2>2
<1>4. \A y \in T : ~(y < x)
  BY <1>3
<1> QED BY <1>4

\* SeedPeerSelectOne finds a peer that is registered and can be reached.
LEMMA SeedSelected ==
  ASSUME SubsOK, SeedsOK, SeedsWith(1) # {}
  PROVE  SeedPeerSelectOne \in Peer
<1> DEFINE best == IF SeedsWith(0) # {} THEN SeedsWith(0) ELSE SeedsWith(1)
<1>1. best # {} /\ best \subseteq DOMAIN seeds
  BY DEF SeedsWith
<1>2. DOMAIN seeds \subseteq Nat
  BY LenProperties DEF SeedsOK
<1> HIDE DEF best
<1>3. \E i \in best : \A j \in best : i <= j
  BY <1>1, <1>2, LeastOf
<1>4. PICK i \in DOMAIN seeds : SeedPeerSelectOne = sub[seeds[i].name].a
  BY <1>1, <1>3 DEF SeedPeerSelectOne, best
<1>5. seeds[i].name \in Registered
  BY DEF SeedsOK, SeedsAlive
<1> QED BY <1>4, <1>5, SubFacts DEF Registered, SubsOK, SubRec

\* Every decision leads on, with a seed that exists.
LEMMA DecisionOK ==
  ASSUME SubsOK, SeedsOK, WireOK, NEW n \in Registered, Decision(n)
  PROVE  SubsOK' /\ SeedsOK' /\ WireOK'
<1>1. sub[n] \in LedSubs /\ sub[n] \in SubRec /\ sub[n].step = "Decision" /\ seeds' = seeds
  BY SubFacts DEF Registered, SubsOK, Decision, SubAt
<1>2. WireOK'
  BY DEF Decision, WireOK, wire
<1>3. PICK p : p = At(sub[n], "Punching")
  OBVIOUS
<1>4. PICK e : e = At(sub[n], "ErrReturn")
  OBVIOUS
<1>5. /\ p \in SubRec /\ p.a = sub[n].a /\ p.b = sub[n].b /\ p.s = sub[n].s
      /\ p.step = "Punching" /\ p.rid = sub[n].rid
      /\ e \in SubRec /\ e.a = sub[n].a /\ e.step = "ErrReturn"
      /\ At(sub[n], "RequireServer") \in LedSubs /\ At(sub[n], "RequireServer").a = sub[n].a
  BY <1>1, <1>3, <1>4, AtFacts DEF SubStep, FreeStep
<1>6. /\ sub[n].a \in Peer /\ sub[n].b \in Peer \cup {NoAddr} /\ sub[n].s \in Peer \cup {NoAddr}
      /\ accRelayID \in 1..MaxRelayID /\ accRelayID \in 0..MaxRelayID /\ accRelayID # 0
      /\ 0 \in 0..MaxRelayID
  BY <1>1, BdgServerAssumption DEF SubRec, SubsOK
<1>7. /\ sub[n].flag = "BEGIN" => sub[n].b \in Peer
      /\ sub[n].flag = "A_SIDE_RELAY" => sub[n].b \in Peer /\ sub[n].s \in Peer
  BY <1>1 DEF LedSubs
<1>8. \E d \in LedSubs : /\ d.a = sub[n].a /\ sub' = [sub EXCEPT ![n] = d]
                         /\ accRelayID' \in 1..MaxRelayID
  <2>1. CASE DecideRelay(n)
    <3>1. PICK q : q = SeedPeerSelectOne
      OBVIOUS
    <3>2. q \in Peer
      BY <2>1, <3>1, SeedSelected DEF DecideRelay
    <3> DEFINE d == [p EXCEPT !.s = q, !.pun = q, !.con = sub[n].a,
                              !.flag = "A_SIDE_RELAY", !.rid = accRelayID]
    <3>3. sub' = [sub EXCEPT ![n] = d] /\ accRelayID' = NextRelayID
      BY <1>3, <2>1, <3>1 DEF DecideRelay, SubGoes
    <3>4. d \in SubRec
      BY <1>5, <1>6, <3>2 DEF SubRec, Flag
    <3>5. /\ d.a = sub[n].a /\ d.b = sub[n].b /\ d.s = q /\ d.pun = q /\ d.con = sub[n].a
          /\ d.flag = "A_SIDE_RELAY" /\ d.rid = accRelayID /\ d.step = "Punching"
      BY <1>5 DEF SubRec
    <3> HIDE DEF d
    <3>6. d \in LedSubs
      BY <1>6, <1>7, <2>1, <3>2, <3>4, <3>5 DEF LedSubs, DecideRelay
    <3>7. NextRelayID \in 1..MaxRelayID
      BY <1>6, BdgServerAssumption DEF NextRelayID
    <3> QED BY <3>3, <3>5, <3>6, <3>7
  <2>2. CASE DecideNoSeed(n)
    <3> DEFINE d == [e EXCEPT !.err = "NO_SEED_TO_RELAY"]
    <3>1. d \in LedSubs /\ d.a = sub[n].a
      BY <1>5 DEF SubRec, LedSubs, SubErr
    <3>2. sub' = [sub EXCEPT ![n] = d] /\ accRelayID' = accRelayID
      BY <1>4, <2>2 DEF DecideNoSeed, SubGoes
    <3> HIDE DEF d
    <3> QED BY <1>6, <3>1, <3>2
  <2>3. CASE DecideDirect(n)
    <3> DEFINE aFirst == NATOf[sub[n].a] < NATOf[sub[n].b]
               x == IF aFirst THEN sub[n].a ELSE sub[n].b
               y == IF aFirst THEN sub[n].b ELSE sub[n].a
               d == [p EXCEPT !.pun = x, !.con = y, !.flag = "DIRECT", !.rid = 0]
    <3>1. x \in Peer /\ y \in Peer
      BY <1>6, <1>7, <2>3 DEF DecideDirect
    <3>2. sub' = [sub EXCEPT ![n] = d] /\ accRelayID' = accRelayID
      BY <1>3, <2>3 DEF DecideDirect, SubGoes
    <3> HIDE DEF x, y
    <3>3. d \in LedSubs /\ d.a = sub[n].a
      BY <1>5, <1>6, <3>1 DEF SubRec, LedSubs, Flag
    <3> HIDE DEF d
    <3> QED BY <1>6, <3>2, <3>3
  <2>4. CASE DecideBSide(n)
    <3> DEFINE d == [p EXCEPT !.pun = sub[n].s, !.con = sub[n].b, !.flag = "B_SIDE_RELAY"]
    <3>1. sub' = [sub EXCEPT ![n] = d] /\ accRelayID' = accRelayID
      BY <1>3, <2>4 DEF DecideBSide, SubGoes
    <3>2. sub[n].b \in Peer /\ sub[n].s \in Peer
      BY <1>7, <2>4 DEF DecideBSide
    <3>3. d \in LedSubs /\ d.a = sub[n].a
      BY <1>5, <1>6, <3>2 DEF SubRec, LedSubs, Flag
    <3> HIDE DEF d
    <3> QED BY <1>6, <3>1, <3>3
  <2>5. CASE DecideBridged(n)
    <3>1. sub' = [sub EXCEPT ![n] = At(sub[n], "RequireServer")] /\ accRelayID' = accRelayID
      BY <2>5 DEF DecideBridged, SubGoes
    <3> QED BY <1>5, <1>6, <3>1
  <2>6. CASE DecideErr(n)
    <3> DEFINE d == [e EXCEPT !.err = "ERROR"]
    <3>1. d \in LedSubs /\ d.a = sub[n].a
      BY <1>5 DEF SubRec, LedSubs, SubErr
    <3>2. sub' = [sub EXCEPT ![n] = d] /\ accRelayID' = accRelayID
      BY <1>4, <2>6 DEF DecideErr, SubGoes
    <3> HIDE DEF d
    <3> QED BY <1>6, <3>1, <3>2
  <2> QED BY <2>1, <2>2, <2>3, <2>4, <2>5, <2>6 DEF Decision
<1>9. SubsOK' /\ SeedsOK'
  BY <1>1, <1>8, SubMoves
<1> QED BY <1>2, <1>9

\* Each poll sends what a sub server may send, or moves it on.
LEMMA SubPolledOK ==
  ASSUME SubsOK, SeedsOK, WireOK, NEW n \in Name, SubPolled(n)
  PROVE  SubsOK' /\ SeedsOK' /\ WireOK'
<1>1. n \in Registered
  BY DEF SubPolled, BeginPolled, RequireServerPolled, RequireReplyPolled, Decision,
         PunchingPolled, ConnectAddrPolled, ErrReturnPolled, SubAt, Registered
<1>2. sub[n] \in LedSubs /\ sub[n] \in SubRec
  BY <1>1, SubFacts DEF Registered, SubsOK
<1>3. /\ sub[n].a \in Node /\ Server \in Node /\ sub[n].err \in PlainInfo
      /\ sub[n].rid \in 0..MaxRelayID
  BY <1>2 DEF SubRec, Node, SubErr, PlainInfo
<1>4. \A i \in PlainInfo : {Plain(i, Server, sub[n].a)} \subseteq Msgs
  BY <1>3 DEF Plain, Msgs
<1>5. sub[n].step \in {"Punching", "ConnectAddr"} =>
        /\ {PunchingMsg(Server, sub[n].pun, sub[n].con)} \subseteq Msgs
        /\ {ConnectAddrMsg(Server, sub[n].con, sub[n].pun, sub[n].rid)} \subseteq Msgs
  BY <1>2, <1>3 DEF LedSubs, PunchingMsg, ConnectAddrMsg, Msgs, Node
<1>6. [At(sub[n], "Decision") EXCEPT !.flag = "ERR"] \in LedSubs
      /\ [At(sub[n], "Decision") EXCEPT !.flag = "ERR"].a = sub[n].a
  <2>1. PICK e : e = At(sub[n], "Decision")
    OBVIOUS
  <2>2. e \in SubRec /\ e.a = sub[n].a /\ e.step = "Decision"
    BY <1>2, <2>1, AtFacts DEF SubStep
  <2> QED BY <2>1, <2>2 DEF SubRec, LedSubs, Flag
<1>7. CASE BeginPolled(n)
  BY <1>1, <1>4, <1>7, SubSendsOK, SubEndsOK DEF BeginPolled, PlainInfo
<1>8. CASE RequireServerPolled(n)
  BY <1>1, <1>8, SubSendsOK, SubEndsOK DEF RequireServerPolled
<1>9. CASE RequireReplyPolled(n)
  <2>1. At(sub[n], "RequireServer") \in LedSubs /\ At(sub[n], "RequireServer").a = sub[n].a
    BY <1>2, AtFacts DEF SubStep, FreeStep
  <2> DEFINE i == IF sub[n].b = NoAddr THEN "NO_NAMEID" ELSE "CONNECT_BEGIN"
  <2>2. i \in PlainInfo
    BY DEF PlainInfo
  <2>3. SubSends(n, {Plain(i, Server, sub[n].a)}) \/ SubGivesUp(n, At(sub[n], "RequireServer"))
    BY <1>9 DEF RequireReplyPolled
  <2> HIDE DEF i
  <2> QED BY <1>1, <1>4, <2>1, <2>2, <2>3, SubSendsOK, SubGivesUpOK
<1>10. CASE Decision(n)
  BY <1>1, <1>10, DecisionOK
<1>11. CASE PunchingPolled(n)
  BY <1>1, <1>5, <1>6, <1>11, SubSendsOK, SubGivesUpOK DEF PunchingPolled, SubAt
<1>12. CASE ConnectAddrPolled(n)
  BY <1>1, <1>5, <1>6, <1>12, SubSendsOK, SubGivesUpOK DEF ConnectAddrPolled, SubAt
<1>13. CASE ErrReturnPolled(n)
  BY <1>1, <1>3, <1>4, <1>13, SubSendsOK, SubEndsOK DEF ErrReturnPolled
<1> QED BY <1>7, <1>8, <1>9, <1>10, <1>11, <1>12, <1>13 DEF SubPolled

LEMMA ServerStepOK ==
  ASSUME SubsOK, SeedsOK, WireOK, ServerHears \/ \E n \in Name : SubPolled(n)
  PROVE  SubsOK' /\ SeedsOK' /\ WireOK'
<1>1. CASE \E m \in Mail(Server, {"REGISTER"}) : Register(m)
  BY <1>1, RegisterOK DEF Mail
<1>2. CASE \E m \in net : SubsHear(m)
  BY <1>2, SubsHearOK
<1>3. CASE \E n \in Name : SubPolled(n)
  BY <1>3, SubPolledOK
<1> QED BY <1>1, <1>2, <1>3 DEF ServerHears, Mail

LEMMA ServerForgetsOK ==
  ASSUME ServerForgets
  PROVE  SubsOK' /\ SeedsOK'
<1>1. SubsOK'
  BY BdgServerAssumption DEF ServerForgets, SubsOK
<1>2. SeedsOK'
  <2>1. seeds' = <<>> /\ <<>> \in Seq(SeedRec) /\ DOMAIN <<>> = {}
    BY EmptySeq DEF ServerForgets
  <2> QED BY <2>1 DEF SeedsOK, SeedsAlive
<1> QED BY <1>1, <1>2

(***************************************************************************)
(* The clients.                                                            *)
(***************************************************************************)

LEMMA ModIn == \A i \in Int, n \in Nat \ {0} : i % n \in 0..(n - 1)
  OBVIOUS

LEMMA CliAtFacts ==
  ASSUME NEW c \in CliRec, NEW s \in CliStep, NEW p \in Node
  PROVE  /\ CliAt(c, s) \in CliRec /\ CliAt(c, s).step = s
         /\ CliAt(c, s).first = TRUE /\ CliAt(c, s).retrys \in 0..Retrys(s)
         /\ CliAt(c, s).target = c.target /\ CliAt(c, s).b = c.b /\ CliAt(c, s).direct = c.direct
         /\ CliAt(c, s).to = c.to /\ CliAt(c, s).info = c.info
         /\ s \in {"Wait", "MultiSend", "Ended"} => CliAt(c, s) \in GoodClients(p)
<1> DEFINE e == CliAt(c, s)
<1>1. Retrys(s) \in Nat /\ Retrys(s) \in 0..Retrys(s)
  BY BdgClientAssumption DEF Retrys
<1>2. e \in CliRec
  BY <1>1 DEF CliAt, CliRec
<1>3. /\ e.step = s /\ e.first = TRUE /\ e.retrys = Retrys(s) /\ e.target = c.target
      /\ e.b = c.b /\ e.direct = c.direct /\ e.to = c.to /\ e.info = c.info
  BY DEF CliAt, CliRec
<1> HIDE DEF e
<1>4. s \in {"Wait", "MultiSend", "Ended"} => e \in GoodClients(p)
  BY <1>1, <1>2, <1>3 DEF GoodClients
<1> QED BY <1>1, <1>2, <1>3, <1>4 DEF e

LEMMA CliMoves ==
  ASSUME ClientsOK, NEW p \in Node, NEW c \in GoodClients(p), cli' = [cli EXCEPT ![p] = c],
         nrelays' = nrelays
  PROVE  ClientsOK'
  BY DEF ClientsOK, GoodClients

LEMMA CliStarts ==
  ASSUME NEW p \in Node
  PROVE  StartCli(p) \in GoodClients(p)
<1> DEFINE s == IF Skips(p) THEN "Wait" ELSE "Register"
           c == NewCli(s)
<1>1. s \in CliStep /\ (s = "Register" => p \in Peer) /\ s \in {"Wait", "Register"}
  BY DEF Skips, Node, CliStep
<1> HIDE DEF s
<1>2. Retrys(s) \in Nat
  BY BdgClientAssumption DEF Retrys
<1>3. /\ c \in CliRec /\ c.step = s /\ c.fast = FALSE /\ c.retrys = Retrys(s)
  BY <1>1, <1>2, BdgClientAssumption DEF NewCli, CliRec, Addr
<1> HIDE DEF c
<1>4. c \in GoodClients(p)
  BY <1>1, <1>2, <1>3 DEF GoodClients
<1> QED BY <1>4 DEF StartCli, c, s

LEMMA CliEnds ==
  ASSUME NEW p \in Node, NEW c \in GoodClients(p), c.step # "MultiSend"
  PROVE  CliEnd(c) \in GoodClients(p)
<1> DEFINE e == CliEnd(c)
<1>1. c \in CliRec /\ c.retrys \in 0..Retrys(c.step) /\ Retrys(c.step) = Retrys("Ended")
  BY DEF GoodClients, Retrys
<1>2. e \in CliRec /\ e.step = "Ended" /\ e.retrys = c.retrys
  BY <1>1 DEF CliEnd, CliRec, CliStep
<1> HIDE DEF e
<1>3. e \in GoodClients(p)
  BY <1>1, <1>2 DEF GoodClients
<1> QED BY <1>3 DEF e

\* A poll that stays in its step uses up a retry at most.
LEMMA CliCharges ==
  ASSUME NEW p \in Node, NEW c \in GoodClients(p), NEW st \in PollStates(c)
  PROVE  /\ CliCharge(c, st) \in CliRec
         /\ CliCharge(c, st).retrys \in 0..Retrys(c.step) /\ CliCharge(c, st).step = c.step
         /\ CliCharge(c, st).target = c.target /\ CliCharge(c, st).b = c.b
         /\ CliCharge(c, st).fast = c.fast /\ CliCharge(c, st).direct = c.direct
         /\ CliCharge(c, st).to = c.to /\ CliCharge(c, st).info = c.info
         /\ ~(c.step = "Wait" /\ c.fast) => CliCharge(c, st) \in GoodClients(p)
<1> DEFINE e == CliCharge(c, st)
<1>1. c \in CliRec /\ c.retrys \in Nat /\ c.retrys \in 0..Retrys(c.step) /\ Retrys(c.step) \in Nat
  BY BdgClientAssumption DEF GoodClients, CliRec, Retrys
<1>2. st = "OVERTIME" => c.retrys - 1 \in Nat /\ c.retrys - 1 \in 0..Retrys(c.step)
  BY <1>1 DEF PollStates
<1>3. /\ e \in CliRec /\ e.retrys \in 0..Retrys(c.step)
  BY <1>1, <1>2 DEF CliCharge, CliRec
<1>4. /\ e.step = c.step /\ e.target = c.target /\ e.b = c.b /\ e.fast = c.fast
      /\ e.direct = c.direct /\ e.to = c.to /\ e.info = c.info
  BY <1>1 DEF CliCharge, CliRec
<1> HIDE DEF e
<1>5. ~(c.step = "Wait" /\ c.fast) => e \in GoodClients(p)
  BY <1>1, <1>3, <1>4 DEF GoodClients
<1> QED BY <1>3, <1>4, <1>5 DEF e

LEMMA CliSendsOK ==
  ASSUME ClientsOK, WireOK, NEW p \in Node, cli[p].step # "Wait", NEW S, S \subseteq Msgs,
         CliSends(p, S)
  PROVE  ClientsOK' /\ WireOK'
<1>1. cli[p] \in GoodClients(p)
  BY DEF ClientsOK
<1>2. PICK st \in PollStates(cli[p]) : cli' = [cli EXCEPT ![p] = CliCharge(cli[p], st)]
  BY DEF CliSends, CliGoes
<1>3. CliCharge(cli[p], st) \in GoodClients(p)
  BY <1>1, CliCharges
<1>4. Write(S) /\ nrelays' = nrelays
  BY DEF CliSends, Same
<1> QED BY <1>2, <1>3, <1>4, CliMoves, WriteKeeps DEF WireOK

LEMMA CliLastOK ==
  ASSUME ClientsOK, WireOK, NEW p \in Node, NEW c \in GoodClients(p), CliLast(p, c)
  PROVE  ClientsOK' /\ WireOK'
<1>1. cli' = [cli EXCEPT ![p] = c] /\ nrelays' = nrelays
  BY DEF CliLast, CliGoes, Same
<1>2. WireOK'
  BY DEF CliLast, WireOK, wire
<1> QED BY <1>1, <1>2, CliMoves

\* The wait step goes on to a good client, and never to ask for no name.
LEMMA WaitGoesOnOK ==
  ASSUME ClientsOK, NEW p \in Node, cli[p].step = "Wait", NEW st \in PollStates(cli[p])
  PROVE  WaitGoesOn(p, st).c \in GoodClients(p) /\ WaitGoesOn(p, st).S \subseteq Msgs
<1>1. PICK c : c = cli[p]
  OBVIOUS
<1>2. /\ c \in GoodClients(p) /\ c \in CliRec /\ c.direct \in Addr /\ c.step = "Wait"
      /\ st \in PollStates(c) /\ (c.fast => c.first)
  BY <1>1 DEF ClientsOK, GoodClients, CliRec
<1>3. \A s \in {"Wait", "MultiSend", "Ended"} : CliAt(c, s) \in GoodClients(p)
  BY <1>2, CliAtFacts DEF CliStep
<1> DEFINE w == WaitGoesOn(p, st)
<1>4. CASE c.target # NoName
  <2>1. CliAt(c, "Require") \in GoodClients(p)
    <3>1. /\ CliAt(c, "Require") \in CliRec /\ CliAt(c, "Require").step = "Require"
          /\ CliAt(c, "Require").target = c.target
          /\ CliAt(c, "Require").retrys \in 0..Retrys("Require")
      BY <1>2, CliAtFacts DEF CliStep
    <3> QED BY <1>4, <3>1 DEF GoodClients
  <2>2. w = [c |-> CliAt(c, "Require"), S |-> {}]
    BY <1>1, <1>4 DEF WaitGoesOn
  <2> QED BY <2>1, <2>2
<1>5. CASE c.target = NoName /\ c.direct # NoAddr
  <2>1. PICK e : e = CliAt(c, "DoConnect")
    OBVIOUS
  <2>2. e \in CliRec /\ e.step = "DoConnect" /\ e.retrys \in 0..Retrys("DoConnect")
    BY <1>2, <2>1, CliAtFacts DEF CliStep
  <2> DEFINE d == [e EXCEPT !.sx = NoAddr, !.b = c.direct, !.rid = 0]
  <2>3. /\ d \in CliRec /\ d.step = "DoConnect" /\ d.retrys = e.retrys /\ d.b = c.direct
    <3>1. NoAddr \in Addr /\ c.direct \in Addr /\ 0 \in RelayIDs
      BY <1>2, BdgClientAssumption DEF Addr
    <3>2. d \in CliRec
      BY <2>2, <3>1 DEF CliRec
    <3> QED BY <2>2, <3>2 DEF CliRec
  <2>4. w = [c |-> d, S |-> {}]
    BY <1>1, <1>5, <2>1 DEF WaitGoesOn
  <2> HIDE DEF d
  <2>5. d \in GoodClients(p)
    BY <1>2, <1>5, <2>2, <2>3 DEF GoodClients, Addr
  <2> QED BY <2>4, <2>5
<1>6. CASE c.target = NoName /\ c.direct = NoAddr /\ Skips(p)
  <2>1. w = [c |-> CliAt(c, "Wait"), S |-> {}]
    BY <1>1, <1>6 DEF WaitGoesOn
  <2> QED BY <1>3, <2>1
<1>7. CASE c.target = NoName /\ c.direct = NoAddr /\ ~Skips(p) /\ (st = "OVERTIME" \/ c.fast)
  <2>1. st # "LAST"
    BY <1>2, <1>7 DEF PollStates
  <2>2. PICK e : e = CliCharge(c, st)
    OBVIOUS
  <2>3. e \in CliRec /\ e.step = "Wait" /\ e.retrys \in 0..Retrys("Wait")
    BY <1>2, <2>2, CliCharges
  <2> DEFINE d == [e EXCEPT !.fast = FALSE]
  <2>4. d \in CliRec /\ d.step = "Wait" /\ d.retrys = e.retrys /\ d.fast = FALSE
    BY <2>3 DEF CliRec
  <2>5. w = [c |-> d, S |-> {WaitingMsg(p, Server, nrelays[p] % UcharSize)}]
    BY <1>1, <1>7, <2>1, <2>2 DEF WaitGoesOn
  <2> HIDE DEF d, w
  <2>6. d \in GoodClients(p)
    BY <2>3, <2>4 DEF GoodClients
  <2>7. nrelays[p] % UcharSize \in Nat /\ Server \in Node
    BY ModIn, BdgClientAssumption DEF ClientsOK, Node
  <2>8. {WaitingMsg(p, Server, nrelays[p] % UcharSize)} \subseteq Msgs
    BY <2>7 DEF WaitingMsg, Msgs
  <2>9. w.c = d /\ w.S = {WaitingMsg(p, Server, nrelays[p] % UcharSize)}
    BY <2>5
  <2>10. w.c \in GoodClients(p) /\ w.S \subseteq Msgs
    BY <2>6, <2>8, <2>9
  <2> QED BY <2>10 DEF w
<1>8. CASE c.target = NoName /\ c.direct = NoAddr /\ ~Skips(p) /\ ~(st = "OVERTIME" \/ c.fast)
  <2>1. CASE st = "LAST"
    <3>1. w = [c |-> CliEnd(c), S |-> {}]
      BY <1>1, <1>8, <2>1 DEF WaitGoesOn
    <3> QED BY <1>2, <3>1, CliEnds
  <2>2. CASE st # "LAST"
    <3>1. w = [c |-> CliCharge(c, st), S |-> {}]
      BY <1>1, <1>8, <2>2 DEF WaitGoesOn
    <3> QED BY <1>2, <1>8, <3>1, CliCharges
  <2> QED BY <2>1, <2>2
<1> QED BY <1>4, <1>5, <1>6, <1>7, <1>8

\* What a step that read m does to the client and the wire.
LEMMA CliHeardOK ==
  ASSUME ClientsOK, WireOK, NEW p \in Node, NEW c \in GoodClients(p), NEW m, NEW S, S \subseteq Msgs,
         cli' = [cli EXCEPT ![p] = c], ReadWrite(m, S), nrelays' \in [Node -> 0..(UintSize - 1)]
  PROVE  ClientsOK' /\ WireOK'
<1>1. ClientsOK'
  BY DEF ClientsOK, GoodClients
<1>2. WireOK'
  BY ReadWriteKeeps DEF WireOK
<1> QED BY <1>1, <1>2

\* RelayProcMerge and RelayProcNotify keep g_Relays a number of its width.
LEMMA RelaysCounted ==
  ASSUME ClientsOK, NEW p \in Node
  PROVE  /\ \A id, q : RelayProcMerge(p, id, q) => nrelays' \in [Node -> 0..(UintSize - 1)]
         /\ \A i : RelayEnds(p, i) => nrelays' \in [Node -> 0..(UintSize - 1)]
<1>1. /\ nrelays[p] \in Int /\ UintSize \in Nat \ {0} /\ nrelays \in [Node -> 0..(UintSize - 1)]
      /\ nrelays[p] + 1 \in Int /\ nrelays[p] - 1 \in Int
  BY BdgClientAssumption DEF ClientsOK
<1>2. /\ (nrelays[p] + 1) % UintSize \in 0..(UintSize - 1)
      /\ (nrelays[p] - 1) % UintSize \in 0..(UintSize - 1)
  BY <1>1, ModIn
<1>3. /\ [nrelays EXCEPT ![p] = (@ + 1) % UintSize] \in [Node -> 0..(UintSize - 1)]
      /\ [nrelays EXCEPT ![p] = (@ - 1) % UintSize] \in [Node -> 0..(UintSize - 1)]
  BY <1>1, <1>2
<1>4. ASSUME NEW id, NEW q, RelayProcMerge(p, id, q)
      PROVE  \/ nrelays' = nrelays
             \/ nrelays' = [nrelays EXCEPT ![p] = (@ + 1) % UintSize]
  BY <1>4 DEF RelayProcMerge
<1>5. ASSUME NEW i, RelayEnds(p, i)
      PROVE  nrelays' = [nrelays EXCEPT ![p] = (@ - 1) % UintSize]
  BY <1>5 DEF RelayEnds
<1> QED BY <1>1, <1>3, <1>4, <1>5

LEMMA RegisterHearsOK ==
  ASSUME ClientsOK, WireOK, NEW p \in Node, RegisterHears(p)
  PROVE  ClientsOK' /\ WireOK'
<1>1. cli[p] \in GoodClients(p) /\ cli[p] \in CliRec /\ cli[p].step = "Register"
  BY DEF ClientsOK, GoodClients, RegisterHears
<1>2. PICK e : e = CliAt(cli[p], "Wait")
  OBVIOUS
<1>3. e \in CliRec /\ e.step = "Wait" /\ e.first = TRUE /\ e.retrys \in 0..Retrys("Wait")
  BY <1>1, <1>2, CliAtFacts DEF CliStep
<1> DEFINE d == [e EXCEPT !.connected = TRUE, !.fast = TRUE]
<1>4. d \in CliRec /\ d.step = "Wait" /\ d.first = TRUE /\ d.retrys = e.retrys
  BY <1>3 DEF CliRec
<1>5. PICK m \in net : /\ cli' = [cli EXCEPT ![p] = IF m.info = "RGST_OK" THEN d ELSE CliEnd(cli[p])]
                      /\ ReadWrite(m, {}) /\ nrelays' = nrelays
  BY <1>2 DEF RegisterHears, Mail, CliGoes, Same
<1> HIDE DEF d
<1>6. d \in GoodClients(p)
  BY <1>3, <1>4 DEF GoodClients
<1>7. (IF m.info = "RGST_OK" THEN d ELSE CliEnd(cli[p])) \in GoodClients(p)
  BY <1>1, <1>6, CliEnds
<1>8. nrelays' \in [Node -> 0..(UintSize - 1)]
  BY <1>5 DEF ClientsOK
<1> QED BY <1>5, <1>7, <1>8, CliHeardOK

LEMMA WaitOK ==
  ASSUME ClientsOK, WireOK, NEW p \in Node,
         WaitPolled(p) \/ WaitAnswers(p) \/ WaitHearsEcho(p) \/ WaitHearsConnectAddr(p)
         \/ WaitHearsHello(p)
  PROVE  ClientsOK' /\ WireOK'
<1>1. cli[p] \in GoodClients(p) /\ cli[p] \in CliRec /\ cli[p].step = "Wait"
  BY DEF ClientsOK, GoodClients, WaitPolled, WaitAnswers, WaitHearsEcho, WaitHearsConnectAddr,
         WaitHearsHello
<1>2. CASE WaitPolled(p)
  <2>1. PICK st \in PollStates(cli[p]) : /\ cli' = [cli EXCEPT ![p] = WaitGoesOn(p, st).c]
                                        /\ Write(WaitGoesOn(p, st).S)
    BY <1>2 DEF WaitPolled, CliGoes
  <2>2. WaitGoesOn(p, st).c \in GoodClients(p) /\ WaitGoesOn(p, st).S \subseteq Msgs
    BY <1>1, WaitGoesOnOK
  <2>3. nrelays' = nrelays
    BY <1>2 DEF WaitPolled, Same
  <2> QED BY <2>1, <2>2, <2>3, CliMoves, WriteKeeps DEF WireOK
<1>3. CASE WaitAnswers(p)
  <2>1. PICK m \in net, st \in PollStates(cli[p]), i \in {"PUNCHING_FINISH", "ACKNOWLEDGE"} :
          /\ cli' = [cli EXCEPT ![p] = WaitGoesOn(p, st).c]
          /\ ReadWrite(m, {Plain(i, p, m.from)} \cup WaitGoesOn(p, st).S)
    BY <1>3 DEF WaitAnswers, Mail, CliGoes
  <2>2. WaitGoesOn(p, st).c \in GoodClients(p) /\ WaitGoesOn(p, st).S \subseteq Msgs
    BY <1>1, WaitGoesOnOK
  <2>3. {Plain(i, p, m.from)} \subseteq Msgs
    BY MsgFields DEF Plain, Msgs, PlainInfo, WireOK
  <2>4. nrelays' \in [Node -> 0..(UintSize - 1)]
    BY <1>3 DEF WaitAnswers, Same, ClientsOK
  <2>5. {Plain(i, p, m.from)} \cup WaitGoesOn(p, st).S \subseteq Msgs
    BY <2>2, <2>3
  <2> QED BY <2>1, <2>2, <2>4, <2>5, CliHeardOK
<1>4. CASE WaitHearsEcho(p)
  <2>1. PICK m \in net : cli' = [cli EXCEPT ![p] = CliAt(cli[p], "Wait")] /\ ReadWrite(m, {})
    BY <1>4 DEF WaitHearsEcho, Mail, CliGoes
  <2>2. CliAt(cli[p], "Wait") \in GoodClients(p)
    BY <1>1, CliAtFacts DEF CliStep
  <2>3. nrelays' \in [Node -> 0..(UintSize - 1)]
    BY <1>4 DEF WaitHearsEcho, Same, ClientsOK
  <2> QED BY <2>1, <2>2, <2>3, CliHeardOK
<1>5. CASE WaitHearsConnectAddr(p)
  <2>1. PICK e : e = CliAt(cli[p], "DoConnect")
    OBVIOUS
  <2>2. PICK m \in net :
          /\ cli' = [cli EXCEPT ![p] = [e EXCEPT !.sx = m.from, !.b = m.addr, !.rid = m.rid]]
          /\ ReadWrite(m, {}) /\ m.info = "CONNECT_ADDR"
    BY <1>5, <2>1 DEF WaitHearsConnectAddr, Mail, CliGoes
  <2>3. e \in CliRec /\ e.step = "DoConnect" /\ e.retrys \in 0..Retrys("DoConnect")
    BY <1>1, <2>1, CliAtFacts DEF CliStep
  <2>4. m.from \in Addr /\ m.addr \in Addr /\ m.addr \in Node /\ m.rid \in RelayIDs
    BY <2>2, MsgFields, BridgeAssumption DEF WireOK, Addr, Node
  <2> DEFINE d == [e EXCEPT !.sx = m.from, !.b = m.addr, !.rid = m.rid]
  <2>5. d \in CliRec /\ d.step = "DoConnect" /\ d.retrys = e.retrys /\ d.b = m.addr
    BY <2>3, <2>4 DEF CliRec
  <2>6. cli' = [cli EXCEPT ![p] = d]
    BY <2>2
  <2> HIDE DEF d
  <2>7. d \in GoodClients(p)
    BY <2>3, <2>4, <2>5 DEF GoodClients
  <2>8. nrelays' \in [Node -> 0..(UintSize - 1)]
    BY <1>5 DEF WaitHearsConnectAddr, Same, ClientsOK
  <2> QED BY <2>2, <2>6, <2>7, <2>8, CliHeardOK
<1>6. CASE WaitHearsHello(p)
  <2>1. PICK e : e = CliAt(cli[p], "MultiSend")
    OBVIOUS
  <2>2. PICK m \in net :
          /\ cli' = [cli EXCEPT ![p] = [e EXCEPT !.to = m.from, !.info = "HELLO"]]
          /\ ReadWrite(m, {}) /\ (nrelays' = nrelays \/ RelayProcMerge(p, m.rid, m.from))
    BY <1>6, <2>1 DEF WaitHearsHello, Mail, CliGoes
  <2>3. e \in CliRec /\ e.step = "MultiSend" /\ e.retrys \in 0..Retrys("MultiSend")
    BY <1>1, <2>1, CliAtFacts DEF CliStep
  <2>4. m.from \in Addr
    BY MsgFields DEF WireOK, Addr
  <2> DEFINE d == [e EXCEPT !.to = m.from, !.info = "HELLO"]
  <2>5. d \in CliRec /\ d.step = "MultiSend" /\ d.retrys = e.retrys
    BY <2>3, <2>4 DEF CliRec
  <2>6. cli' = [cli EXCEPT ![p] = d]
    BY <2>2
  <2> HIDE DEF d
  <2>7. d \in GoodClients(p)
    BY <2>3, <2>5 DEF GoodClients
  <2>8. nrelays' \in [Node -> 0..(UintSize - 1)]
    BY <2>2, RelaysCounted DEF ClientsOK
  <2> QED BY <2>2, <2>6, <2>7, <2>8, CliHeardOK
<1> QED BY <1>2, <1>3, <1>4, <1>5, <1>6

LEMMA RegisterPolledOK ==
  ASSUME ClientsOK, WireOK, NEW p \in Node, RegisterPolled(p)
  PROVE  ClientsOK' /\ WireOK'
<1>1. cli[p] \in GoodClients(p) /\ cli[p].step = "Register" /\ p \in Peer
  BY DEF ClientsOK, GoodClients, RegisterPolled
<1>2. NameOf[p] \in Name /\ {RegisterMsg(p, Server, NameOf[p], NATOf[p])} \subseteq Msgs
  BY <1>1, BdgMsgAssumption DEF Msgs
<1>3. CliEnd(cli[p]) \in GoodClients(p)
  BY <1>1, CliEnds
<1>4. CASE CliSends(p, {RegisterMsg(p, Server, NameOf[p], NATOf[p])})
  BY <1>1, <1>2, <1>4, CliSendsOK
<1>5. CASE CliLast(p, CliEnd(cli[p]))
  BY <1>3, <1>5, CliLastOK
<1> QED BY <1>4, <1>5 DEF RegisterPolled

LEMMA RequireHearsOK ==
  ASSUME ClientsOK, WireOK, NEW p \in Node, RequireHears(p)
  PROVE  ClientsOK' /\ WireOK'
<1>1. PICK e : e = CliAt(cli[p], "Wait")
  OBVIOUS
<1>2. e \in CliRec /\ e.step = "Wait" /\ e.first = TRUE /\ e.retrys \in 0..Retrys("Wait")
  BY <1>1, CliAtFacts DEF CliStep, ClientsOK
<1>3. PICK m \in net :
        /\ cli' = [cli EXCEPT ![p] = [e EXCEPT !.target = NoName,
                                               !.fast = @ \/ m.info = "CONNECT_BEGIN"]]
        /\ ReadWrite(m, {})
  BY <1>1 DEF RequireHears, Mail, CliGoes
<1> DEFINE d == [e EXCEPT !.target = NoName, !.fast = @ \/ m.info = "CONNECT_BEGIN"]
<1>4. d \in CliRec /\ d.step = "Wait" /\ d.first = TRUE /\ d.retrys = e.retrys
  <2>1. PICK x \in BOOLEAN : x = (e.fast \/ m.info = "CONNECT_BEGIN")
    OBVIOUS
  <2>2. d = [e EXCEPT !.target = NoName, !.fast = x]
    BY <1>2, <2>1 DEF CliRec
  <2> HIDE DEF d
  <2> QED BY <1>2, <2>2 DEF CliRec
<1>5. cli' = [cli EXCEPT ![p] = d]
  BY <1>3
<1> HIDE DEF d
<1>6. d \in GoodClients(p)
  BY <1>2, <1>4 DEF GoodClients
<1>7. nrelays' \in [Node -> 0..(UintSize - 1)]
  BY DEF RequireHears, Same, ClientsOK
<1> QED BY <1>3, <1>5, <1>6, <1>7, CliHeardOK

LEMMA RequirePolledOK ==
  ASSUME ClientsOK, WireOK, NEW p \in Node, RequirePolled(p)
  PROVE  ClientsOK' /\ WireOK'
<1>1. /\ cli[p] \in GoodClients(p) /\ cli[p].step = "Require"
      /\ cli[p].target \in Name /\ Server \in Node
  BY DEF ClientsOK, GoodClients, CliRec, RequirePolled, Node
<1>2. {ConnectMsg(p, Server, cli[p].target)} \subseteq Msgs
  BY <1>1 DEF ConnectMsg, Msgs
<1>3. CASE CliLast(p, CliEnd(cli[p]))
  BY <1>1, <1>3, CliEnds, CliLastOK
<1>4. CASE ~CliLast(p, CliEnd(cli[p]))
  <2>1. CliSends(p, {ConnectMsg(p, Server, cli[p].target)})
    BY <1>4 DEF RequirePolled, CliSends
  <2> QED BY <1>1, <1>2, <2>1, CliSendsOK
<1> QED BY <1>3, <1>4

LEMMA DoConnectOK ==
  ASSUME ClientsOK, WireOK, NEW p \in Node, DoConnectHears(p) \/ DoConnectPolled(p)
  PROVE  ClientsOK' /\ WireOK'
<1>1. /\ cli[p] \in GoodClients(p) /\ cli[p] \in CliRec /\ cli[p].step = "DoConnect"
      /\ cli[p].b \in Node /\ cli[p].sx \in Addr /\ cli[p].rid \in RelayIDs
  BY DEF ClientsOK, GoodClients, CliRec, DoConnectHears, DoConnectPolled
<1>2. PICK e : e = CliAt(cli[p], "MultiSend")
  OBVIOUS
<1>3. e \in CliRec /\ e.step = "MultiSend" /\ e.retrys \in 0..Retrys("MultiSend")
  BY <1>1, <1>2, CliAtFacts DEF CliStep
<1>4. ASSUME NEW i \in {"ESTABLISHED", "ERR_CONNECT_ADDR"}
      PROVE  [e EXCEPT !.to = cli[p].sx, !.info = i, !.direct = NoAddr] \in GoodClients(p)
  <2> DEFINE d == [e EXCEPT !.to = cli[p].sx, !.info = i, !.direct = NoAddr]
  <2>1. NoAddr \in Addr
    BY DEF Addr
  <2>2. d \in CliRec /\ d.step = "MultiSend" /\ d.retrys = e.retrys
    BY <1>1, <1>3, <2>1 DEF CliRec
  <2> HIDE DEF d
  <2>3. d \in GoodClients(p)
    BY <1>3, <2>2 DEF GoodClients
  <2> QED BY <2>3 DEF d
<1>5. CASE DoConnectHears(p)
  <2>1. PICK m \in net :
          /\ cli' = [cli EXCEPT ![p] = [e EXCEPT !.to = cli[p].sx, !.info = "ESTABLISHED",
                                                 !.direct = NoAddr]]
          /\ ReadWrite(m, {})
    BY <1>2, <1>5 DEF DoConnectHears, Mail, CliGoes
  <2>2. nrelays' \in [Node -> 0..(UintSize - 1)]
    BY <1>5 DEF DoConnectHears, ClientsOK
  <2> QED BY <1>4, <2>1, <2>2, CliHeardOK
<1>6. CASE DoConnectPolled(p)
  <2>1. {HelloMsg(p, cli[p].b, cli[p].rid)} \subseteq Msgs
    BY <1>1 DEF HelloMsg, Msgs
  <2>2. CASE CliSends(p, {HelloMsg(p, cli[p].b, cli[p].rid)})
    BY <1>1, <2>1, <2>2, CliSendsOK
  <2>3. CASE ~CliSends(p, {HelloMsg(p, cli[p].b, cli[p].rid)})
    <3>1. CliLast(p, [e EXCEPT !.to = cli[p].sx, !.info = "ERR_CONNECT_ADDR", !.direct = NoAddr])
      BY <1>2, <1>6, <2>3 DEF DoConnectPolled
    <3> QED BY <1>4, <3>1, CliLastOK
  <2> QED BY <2>2, <2>3
<1> QED BY <1>5, <1>6

LEMMA MultiSendPolledOK ==
  ASSUME ClientsOK, WireOK, NEW p \in Node, MultiSendPolled(p)
  PROVE  ClientsOK' /\ WireOK'
<1>1. /\ cli[p] \in GoodClients(p) /\ cli[p] \in CliRec /\ cli[p].step = "MultiSend"
      /\ cli[p].to \in Addr /\ cli[p].info \in {"HELLO", "ESTABLISHED", "ERR_CONNECT_ADDR"}
  BY DEF ClientsOK, GoodClients, CliRec, MultiSendPolled
<1>2. \A m \in Notice(cli[p], p) : {m} \subseteq Msgs
  <2>1. CASE cli[p].to = NoAddr
    BY <2>1 DEF Notice
  <2>2. CASE cli[p].to # NoAddr /\ cli[p].info = "HELLO"
    <3>1. cli[p].to \in Node
      BY <1>1, <2>2 DEF Addr
    <3>2. \A r \in JunkRelayIDs : HelloMsg(p, cli[p].to, r) \in Msgs
      BY <3>1, BdgClientAssumption DEF HelloMsg, Msgs
    <3> QED BY <2>2, <3>2 DEF Notice
  <2>3. CASE cli[p].to # NoAddr /\ cli[p].info # "HELLO"
    <3>1. cli[p].to \in Node /\ cli[p].info \in PlainInfo
      BY <1>1, <2>3 DEF Addr, PlainInfo
    <3>2. Plain(cli[p].info, p, cli[p].to) \in Msgs
      BY <3>1 DEF Plain, Msgs
    <3> QED BY <2>3, <3>2 DEF Notice
  <2> QED BY <2>1, <2>2, <2>3
<1>3. CASE \E m \in Notice(cli[p], p) : CliSends(p, {m})
  BY <1>1, <1>2, <1>3, CliSendsOK
<1>4. CASE CliSends(p, {})
  BY <1>1, <1>4, CliSendsOK
<1>5. CASE CliLast(p, CliAt(cli[p], "Wait"))
  <2>1. CliAt(cli[p], "Wait") \in GoodClients(p)
    BY <1>1, CliAtFacts DEF CliStep
  <2> QED BY <1>5, <2>1, CliLastOK
<1> QED BY <1>3, <1>4, <1>5 DEF MultiSendPolled

\* A command writes a name or an address, a restart starts the client anew.
LEMMA CommandsOK ==
  ASSUME ClientsOK, WireOK, NEW p \in Node,
         \/ \E n \in Typed : Connect(p, n) \/ Overwrite(p, n)
         \/ \E q \in Node : Direct(p, q, SubAddrs)
         \/ CliRestart(p)
  PROVE  ClientsOK' /\ WireOK'
<1>1. cli[p] \in GoodClients(p) /\ cli[p] \in CliRec
  BY DEF ClientsOK
<1>2. CASE \E n \in Typed : Connect(p, n) \/ Overwrite(p, n)
  <2>1. PICK n \in Typed : /\ cli' = [cli EXCEPT ![p] = [cli[p] EXCEPT !.target = n]]
                          /\ UNCHANGED <<wire, nrelays>>
    BY <1>2 DEF Connect, Overwrite, CliGoes
  <2> DEFINE d == [cli[p] EXCEPT !.target = n]
  <2>2. n \in Name /\ n # NoName
    BY BdgClientAssumption, BdgMsgAssumption
  <2>3. /\ d \in CliRec /\ d.step = cli[p].step /\ d.retrys = cli[p].retrys /\ d.target = n
        /\ d.fast = cli[p].fast /\ d.first = cli[p].first /\ d.b = cli[p].b
    BY <1>1, <2>2 DEF CliRec
  <2>4. cli' = [cli EXCEPT ![p] = d]
    BY <2>1
  <2> HIDE DEF d
  <2>5. d \in GoodClients(p)
    BY <1>1, <2>2, <2>3 DEF GoodClients
  <2> QED BY <2>1, <2>4, <2>5, CliMoves DEF WireOK, wire
<1>3. CASE \E q \in Node : Direct(p, q, SubAddrs)
  <2>1. PICK q \in Node : /\ cli' = [cli EXCEPT ![p] = [cli[p] EXCEPT !.direct = q]]
                         /\ UNCHANGED <<wire, nrelays>>
    BY <1>3 DEF Direct, CliGoes
  <2> DEFINE d == [cli[p] EXCEPT !.direct = q]
  <2>2. /\ d \in CliRec /\ d.step = cli[p].step /\ d.retrys = cli[p].retrys
        /\ d.target = cli[p].target /\ d.fast = cli[p].fast /\ d.first = cli[p].first
        /\ d.b = cli[p].b
    BY <1>1 DEF CliRec, Addr
  <2>3. cli' = [cli EXCEPT ![p] = d]
    BY <2>1
  <2> HIDE DEF d
  <2>4. d \in GoodClients(p)
    BY <1>1, <2>2 DEF GoodClients
  <2> QED BY <2>1, <2>3, <2>4, CliMoves DEF WireOK, wire
<1>4. CASE CliRestart(p)
  <2>1. cli' = [cli EXCEPT ![p] = StartCli(p)] /\ nrelays' = [nrelays EXCEPT ![p] = 0]
    BY <1>4 DEF CliRestart, CliGoes
  <2>2. ClientsOK'
    BY <2>1, CliStarts, BdgClientAssumption DEF ClientsOK, GoodClients
  <2> QED BY <1>4, <2>2 DEF CliRestart, WireOK, wire
<1> QED BY <1>2, <1>3, <1>4

(***************************************************************************)
(* The whole system.                                                       *)
(***************************************************************************)

\* SetToSeq lists every element of a finite set once.
LEMMA SetToSeqOK ==
  ASSUME NEW S, IsFiniteSet(S)
  PROVE  /\ SetToSeq(S) \in Seq(S)
         /\ \A i, j \in DOMAIN SetToSeq(S) : SetToSeq(S)[i] = SetToSeq(S)[j] => i = j
<1>1. Cardinality(S) \in Nat /\ ExistsBijection(1..Cardinality(S), S)
  BY FS_CardinalityType
<1>2. \E f \in [1..Cardinality(S) -> S] : IsInjective(f)
  BY <1>1 DEF ExistsBijection, Bijection, Injection
<1>3. SetToSeq(S) \in [1..Cardinality(S) -> S] /\ IsInjective(SetToSeq(S))
  BY <1>2 DEF SetToSeq
<1> QED BY <1>1, <1>3 DEF IsInjective

LEMMA InitKept ==
  ASSUME Init
  PROVE  WireOK /\ SubsOK /\ SeedsOK /\ ClientsOK
<1>1. WireOK
  BY BridgeAssumption DEF Init, WireOK
<1>2. \A p \in Peer : UpSub(p) \in LedSubs /\ UpSub(p).a = p
  BY SubFacts, AtFacts DEF UpSub, SubStep, FreeStep
<1>3. AlreadyUp \subseteq Peer /\ Peer \subseteq Node /\ IsFiniteSet(Peer)
      /\ (\A p, q \in AlreadyUp : NameOf[p] = NameOf[q] => p = q)
      /\ NameOf \in [Peer -> Name]
  BY BridgeAssumption, BdgMsgAssumption DEF Node
<1>4. SubsOK
  <2>1. \A n \in Name : sub[n] \in LedSubs \cup {NoSub}
    BY <1>2, <1>3 DEF Init
  <2>2. accRelayID \in 1..MaxRelayID
    BY BdgServerAssumption DEF Init
  <2>3. sub = [n \in Name |-> sub[n]]
    BY DEF Init
  <2> QED BY <2>1, <2>2, <2>3 DEF SubsOK
<1>5. \A p \in AlreadyUp : sub[NameOf[p]] = UpSub(p)
  BY <1>3 DEF Init
<1>6. SeedsOK
  <2> DEFINE P == {p \in AlreadyUp : NATOf[p] \in {0, 1}}
             S == {[name |-> NameOf[p], relays |-> 0] : p \in P}
             f == [p \in P |-> [name |-> NameOf[p], relays |-> 0]]
  <2>1. IsFiniteSet(P)
    BY <1>3, FS_Subset
  <2>2. f \in Surjection(P, S)
    BY DEF Surjection
  <2>3. IsFiniteSet(S)
    <3> HIDE DEF P, S, f
    <3> QED BY <2>1, <2>2, FS_Surjection
  <2>4. seeds = SetToSeq(S)
    BY DEF Init
  <2>5. \A e \in S : /\ e \in SeedRec /\ e.relays = 0
                     /\ \E p \in P : e.name = NameOf[p]
    BY <1>3 DEF SeedRec
  <2>6. \A e, g \in S : e.name = g.name => e = g
    OBVIOUS
  <2> HIDE DEF S
  <2>7. /\ seeds \in Seq(S) /\ \A i \in DOMAIN seeds : seeds[i] \in S
        /\ \A i, j \in DOMAIN seeds : seeds[i] = seeds[j] => i = j
    <3>1. seeds \in Seq(S)
      BY <2>3, <2>4, SetToSeqOK
    <3> QED BY <2>3, <2>4, <3>1, SetToSeqOK, ElementOfSeq, LenProperties
  <2>8. seeds \in Seq(SeedRec)
    BY <2>5, <2>7, SeqMonotonic
  <2>9. ASSUME NEW i \in DOMAIN seeds
        PROVE  seeds[i].name \in Registered /\ NATOf[sub[seeds[i].name].a] \in {0, 1}
    <3>1. PICK p \in P : seeds[i].name = NameOf[p]
      BY <2>5, <2>7
    <3>2. NameOf[p] \in Name /\ sub[NameOf[p]] = UpSub(p) /\ UpSub(p) # NoSub /\ UpSub(p).a = p
      BY <1>2, <1>3, <1>5, SubFacts
    <3> QED BY <3>1, <3>2 DEF Registered
  <2> QED BY <2>6, <2>7, <2>8, <2>9 DEF SeedsOK, SeedsAlive
<1>7. \A p \in Peer : Up(p) \in GoodClients(p)
  <2> SUFFICES ASSUME NEW p \in Peer PROVE Up(p) \in GoodClients(p)
    OBVIOUS
  <2>1. p \in Node
    BY <1>3
  <2>2. PICK c : c = StartCli(p)
    OBVIOUS
  <2>3. /\ c \in CliRec /\ c.fast = FALSE /\ c.retrys = CliRetrys
    <3>1. c \in CliRec
      BY <2>1, <2>2, CliStarts DEF GoodClients
    <3>2. c.fast = FALSE /\ c.retrys = CliRetrys
      BY <2>2 DEF StartCli, NewCli, Retrys
    <3> QED BY <3>1, <3>2
  <2> DEFINE d == [c EXCEPT !.step = "Wait", !.connected = TRUE, !.first = FALSE]
  <2>4. d \in CliRec /\ d.step = "Wait" /\ d.retrys = CliRetrys /\ d.fast = FALSE
    BY <2>3 DEF CliRec, CliStep
  <2>5. Up(p) = d
    BY <2>2 DEF Up
  <2> HIDE DEF d
  <2>6. d \in GoodClients(p)
    BY <2>4, BdgClientAssumption DEF GoodClients, Retrys
  <2> QED BY <2>5, <2>6
<1>8. ClientsOK
  <2>1. \A p \in Node : cli[p] \in GoodClients(p)
    BY <1>3, <1>7, CliStarts DEF Init
  <2>2. cli \in [Node -> CliRec]
    BY <2>1 DEF Init, GoodClients
  <2>3. nrelays \in [Node -> 0..(UintSize - 1)]
    BY BdgClientAssumption DEF Init
  <2> QED BY <2>1, <2>2, <2>3 DEF ClientsOK
<1> QED BY <1>1, <1>4, <1>6, <1>8

LEMMA NextKept ==
  ASSUME WireOK, SubsOK, SeedsOK, ClientsOK, [Next]_vars
  PROVE  WireOK' /\ SubsOK' /\ SeedsOK' /\ ClientsOK'
<1>1. CASE ServerStep
  <2>1. UNCHANGED client
    BY <1>1 DEF ServerStep
  <2>2. ClientsOK'
    BY <2>1 DEF client, ClientsOK, GoodClients
  <2> QED BY <1>1, <2>2, ServerStepOK DEF ServerStep
<1>2. ASSUME UNCHANGED server
      PROVE  SubsOK' /\ SeedsOK'
  BY <1>2 DEF server, SubsOK, SeedsOK, SeedsAlive, Registered
<1>3. ASSUME NEW p \in Node, ClientStep(p)
      PROVE  WireOK' /\ SubsOK' /\ SeedsOK' /\ ClientsOK'
  <2>1. SubsOK' /\ SeedsOK'
    BY <1>2, <1>3 DEF ClientStep
  <2>2. CASE CliHears(p)
    BY <2>1, <2>2, RegisterHearsOK, WaitOK, RequireHearsOK, DoConnectOK DEF CliHears
  <2>3. CASE CliPolled(p)
    BY <2>1, <2>3, RegisterPolledOK, WaitOK, RequirePolledOK, DoConnectOK, MultiSendPolledOK
    DEF CliPolled
  <2>4. CASE \E i \in DOMAIN relays[p] : RelayEnds(p, i)
    <3>1. nrelays' \in [Node -> 0..(UintSize - 1)]
      BY <2>4, RelaysCounted
    <3>2. UNCHANGED <<wire, cli>>
      BY <2>4 DEF RelayEnds
    <3> QED BY <2>1, <3>1, <3>2 DEF wire, WireOK, ClientsOK, GoodClients
  <2>5. CASE \/ \E n \in Typed : Connect(p, n) \/ Overwrite(p, n)
             \/ \E q \in Node : Direct(p, q, SubAddrs)
    BY <2>1, <2>5, CommandsOK
  <2> QED BY <1>3, <2>2, <2>3, <2>4, <2>5 DEF ClientStep
<1>4. ASSUME NEW p \in Node, Restart(p)
      PROVE  WireOK' /\ SubsOK' /\ SeedsOK' /\ ClientsOK'
  <2>1. WireOK' /\ ClientsOK'
    BY <1>4, CommandsOK DEF Restart
  <2>2. SubsOK' /\ SeedsOK'
    BY <1>2, <1>4, ServerForgetsOK DEF Restart
  <2> QED BY <2>1, <2>2
<1>5. CASE UNCHANGED vars
  <2>1. WireOK' /\ ClientsOK'
    BY <1>5 DEF vars, wire, client, WireOK, ClientsOK, GoodClients
  <2> QED BY <1>2, <1>5, <2>1 DEF vars
<1> QED BY <1>1, <1>3, <1>4, <1>5 DEF Next, KeepAlive

\* The invariant of the types and the seeds, of every behaviour.
LEMMA AlwaysKept == Spec => [](WireOK /\ SubsOK /\ SeedsOK /\ ClientsOK)
<1> DEFINE Inv == WireOK /\ SubsOK /\ SeedsOK /\ ClientsOK
<1>1. Init => Inv
  BY InitKept
<1>2. Inv /\ [Next]_vars => Inv'
  BY NextKept
<1> QED BY <1>1, <1>2, PTL DEF Spec

\* Messages, sub servers and clients keep the values the code may give them:
\* no retry is used up below zero, no address is answered that is nobody's.
THEOREM BridgeTypes == Spec => []TypeOK
<1>1. WireOK /\ SubsOK /\ SeedsOK /\ ClientsOK => TypeOK
  <2> SUFFICES ASSUME WireOK, SubsOK, SeedsOK, ClientsOK PROVE TypeOK
    OBVIOUS
  <2>1. dups \in 0..MaxDups /\ \A m \in net : m.from \in Node /\ m.to \in Node
    BY MsgFields DEF WireOK
  <2>2. accRelayID \in 1..MaxRelayID /\ \A n \in Registered : sub[n] \in SubRec
    BY SubFacts DEF SubsOK, Registered
  <2>3. \A p \in Node : /\ cli[p] \in CliRec /\ cli[p].retrys \in 0..Retrys(cli[p].step)
                       /\ nrelays[p] \in 0..(UintSize - 1)
    BY DEF ClientsOK, GoodClients
  <2>4. \A n \in Registered :
          /\ sub[n].step \in SubStep /\ sub[n].retrys \in 0..SubRetrys /\ sub[n].first \in BOOLEAN
          /\ sub[n].a \in Peer /\ sub[n].b \in Peer \cup {NoAddr} /\ sub[n].s \in Peer \cup {NoAddr}
          /\ sub[n].pun \in Peer \cup {NoAddr} /\ sub[n].con \in Peer \cup {NoAddr}
          /\ sub[n].flag \in Flag /\ sub[n].err \in SubErr /\ sub[n].rid \in 0..MaxRelayID
    BY <2>2 DEF SubRec
  <2>5. \A p \in Node :
          /\ cli[p].step \in CliStep
          /\ cli[p].first \in BOOLEAN /\ cli[p].connected \in BOOLEAN /\ cli[p].fast \in BOOLEAN
          /\ cli[p].target \in Name \cup {NoName} /\ cli[p].direct \in Addr
          /\ cli[p].sx \in Addr /\ cli[p].b \in Addr /\ cli[p].to \in Addr
          /\ cli[p].rid \in RelayIDs
    BY <2>3 DEF CliRec
  <2> QED BY <2>1, <2>2, <2>3, <2>4, <2>5 DEF TypeOK
<1> QED BY <1>1, AlwaysKept, PTL

\* A client never asks the server for a connection without a name: GO_ON at
\* the last time of the wait step would, if the retries could run out before
\* the first poll.
THEOREM TargetsNamed == Spec => []TargetNamed
<1>1. ClientsOK => TargetNamed
  BY DEF ClientsOK, GoodClients, TargetNamed
<1> QED BY <1>1, AlwaysKept, PTL

\* The seed list holds, once each, registered peers that others can reach,
\* whatever registers, ends and restarts.
THEOREM SeedsStayAlive == Spec => []SeedsAlive
<1>1. SeedsOK => SeedsAlive
  BY DEF SeedsOK
<1> QED BY <1>1, AlwaysKept, PTL

(***************************************************************************)
(* Nobody is connected to a stranger.                                      *)
(***************************************************************************)

\* Who knows whom after the decisions D and the direct commands U.
AcqOf(D, U) ==
  {e \in Node \X Node : \/ \E d \in D : Joins(d, e[1], e[2])
                        \/ e \in U \/ <<e[2], e[1]>> \in U}

Acq == AcqOf(decided, directs)

\* A HELLO goes to an acquaintance, and CONNECT_ADDR names one.
MetMsgs(A) == {m \in Msgs :
  /\ m.info = "HELLO" => <<m.from, m.to>> \in A
  /\ m.info = "CONNECT_ADDR" => <<m.to, m.addr>> \in A}

\* A sub server leads two acquaintances together; one that is done with the
\* side of a works on a decision it made.
MetSubs(A, D) == {d \in LedSubs :
  /\ d.step \in {"Punching", "ConnectAddr"} => <<d.con, d.pun>> \in A
  /\ d.step \in {"Punching", "ConnectAddr", "Decision"} /\ d.flag = "A_SIDE_RELAY" =>
       <<d.a, d.b, d.s, d.rid>> \in D}

\* A client connects, and says HELLO to, acquaintances only.
MetClients(A, U, p) == {c \in CliRec :
  /\ c.step = "DoConnect" => <<p, c.b>> \in A
  /\ c.step = "MultiSend" /\ c.info = "HELLO" /\ c.to # NoAddr => <<p, c.to>> \in A
  /\ c.direct # NoAddr => <<p, c.direct>> \in U}

RelayRec == [id : RelayIDs, peer0 : Addr, peer1 : Addr]

MetRelays(A, p) == {r \in RelayRec :
  /\ r.peer0 # NoAddr => <<p, r.peer0>> \in A
  /\ r.peer1 # NoAddr => <<p, r.peer1>> \in A}

WireMet    == net \subseteq MetMsgs(Acq)
SubsMet    == \A n \in Registered : sub[n] \in MetSubs(Acq, decided)
ClientsMet == \A p \in Node : cli[p] \in MetClients(Acq, directs, p)
RelaysMet  == /\ DOMAIN relays = Node
              /\ relays = [p \in Node |-> relays[p]]
              /\ \A p \in Node : relays[p] \in Seq(MetRelays(Acq, p))
HistoryMet == met \subseteq Acq

LEMMA AcqFacts ==
  ASSUME NEW D, NEW U
  PROVE  /\ \A x, y : <<x, y>> \in AcqOf(D, U) => <<y, x>> \in AcqOf(D, U)
         /\ \A x, y \in Node : <<x, y>> \in U => <<x, y>> \in AcqOf(D, U)
         /\ \A x, y \in Node, d \in D : Joins(d, x, y) => <<x, y>> \in AcqOf(D, U)
<1>1. \A x, y : <<x, y>> \in AcqOf(D, U) <=>
        /\ x \in Node /\ y \in Node
        /\ (\E d \in D : Joins(d, x, y)) \/ <<x, y>> \in U \/ <<y, x>> \in U
  BY DEF AcqOf
<1>2. \A d, x, y : Joins(d, x, y) <=> Joins(d, y, x)
  <2> SUFFICES ASSUME NEW d, NEW x, NEW y PROVE Joins(d, x, y) <=> Joins(d, y, x)
    OBVIOUS
  <2>1. {x, y} = {y, x}
    OBVIOUS
  <2> QED BY <2>1 DEF Joins
<1> QED BY <1>1, <1>2

LEMMA AcqGrows ==
  ASSUME NEW D, NEW E, D \subseteq E, NEW U, NEW V, U \subseteq V
  PROVE  AcqOf(D, U) \subseteq AcqOf(E, V)
  BY DEF AcqOf

LEMMA MetGrows ==
  ASSUME NEW A, NEW B, A \subseteq B, NEW D, NEW E, D \subseteq E, NEW U, NEW V, U \subseteq V
  PROVE  /\ MetMsgs(A) \subseteq MetMsgs(B) /\ MetSubs(A, D) \subseteq MetSubs(B, E)
         /\ \A p : MetClients(A, U, p) \subseteq MetClients(B, V, p)
         /\ \A p : MetRelays(A, p) \subseteq MetRelays(B, p)
<1>1. MetMsgs(A) \subseteq MetMsgs(B)
  BY DEF MetMsgs
<1>2. MetSubs(A, D) \subseteq MetSubs(B, E)
  BY DEF MetSubs
<1>3. \A p : MetClients(A, U, p) \subseteq MetClients(B, V, p)
  BY DEF MetClients
<1>4. \A p : MetRelays(A, p) \subseteq MetRelays(B, p)
  BY DEF MetRelays
<1> QED BY <1>1, <1>2, <1>3, <1>4

\* What a step leaves alone stays acquainted.
LEMMA AcqKept ==
  ASSUME decided \subseteq decided', directs \subseteq directs'
  PROVE  /\ Acq \subseteq Acq'
         /\ MetMsgs(Acq) \subseteq MetMsgs(Acq') /\ MetSubs(Acq, decided) \subseteq MetSubs(Acq', decided')
         /\ \A p : MetClients(Acq, directs, p) \subseteq MetClients(Acq', directs', p)
         /\ \A p : MetRelays(Acq, p) \subseteq MetRelays(Acq', p)
<1>1. Acq \subseteq Acq'
  BY AcqGrows DEF Acq
<1> QED BY <1>1, MetGrows

LEMMA ClientsStayMet ==
  ASSUME ClientsMet, RelaysMet, HistoryMet, decided \subseteq decided', directs \subseteq directs'
  PROVE  /\ UNCHANGED cli => ClientsMet'
         /\ UNCHANGED relays => RelaysMet'
         /\ UNCHANGED met => HistoryMet'
<1>1. UNCHANGED cli => ClientsMet'
  BY AcqKept DEF ClientsMet
<1>2. UNCHANGED relays => RelaysMet'
  BY AcqKept, SeqMonotonic DEF RelaysMet
<1>3. UNCHANGED met => HistoryMet'
  BY AcqKept DEF HistoryMet
<1> QED BY <1>1, <1>2, <1>3

\* Messages that introduce nobody.
LEMMA PlainMet ==
  ASSUME NEW A, NEW m \in Msgs, m.info \notin {"HELLO", "CONNECT_ADDR"}
  PROVE  {m} \subseteq MetMsgs(A)
  BY DEF MetMsgs

LEMMA PlainMsgs ==
  ASSUME NEW p \in Node, NEW q \in Node
  PROVE  /\ \A i \in PlainInfo : /\ Plain(i, p, q) \in Msgs
                               /\ Plain(i, p, q).info \notin {"HELLO", "CONNECT_ADDR"}
         /\ \A r \in Nat : /\ WaitingMsg(p, q, r) \in Msgs
                         /\ WaitingMsg(p, q, r).info \notin {"HELLO", "CONNECT_ADDR"}
         /\ \A n \in Name : /\ ConnectMsg(p, q, n) \in Msgs
                          /\ ConnectMsg(p, q, n).info \notin {"HELLO", "CONNECT_ADDR"}
         /\ \A a \in Node : /\ PunchingMsg(p, q, a) \in Msgs
                          /\ PunchingMsg(p, q, a).info \notin {"HELLO", "CONNECT_ADDR"}
<1>1. \A i \in PlainInfo : /\ Plain(i, p, q) \in Msgs
                        /\ Plain(i, p, q).info \notin {"HELLO", "CONNECT_ADDR"}
  BY DEF Plain, Msgs, PlainInfo
<1>2. \A r \in Nat : /\ WaitingMsg(p, q, r) \in Msgs
                  /\ WaitingMsg(p, q, r).info \notin {"HELLO", "CONNECT_ADDR"}
  BY DEF WaitingMsg, Msgs
<1>3. \A n \in Name : /\ ConnectMsg(p, q, n) \in Msgs
                   /\ ConnectMsg(p, q, n).info \notin {"HELLO", "CONNECT_ADDR"}
  BY DEF ConnectMsg, Msgs
<1>4. \A a \in Node : /\ PunchingMsg(p, q, a) \in Msgs
                   /\ PunchingMsg(p, q, a).info \notin {"HELLO", "CONNECT_ADDR"}
  BY DEF PunchingMsg, Msgs
<1> QED BY <1>1, <1>2, <1>3, <1>4

\* Whatever a sub server hears, it leads the same two together.
LEMMA SubHearsMet ==
  ASSUME SubsOK, NEW A, NEW D, NEW d \in MetSubs(A, D), NEW m
  PROVE  SubHears(d, m) \in MetSubs(A, D)
<1>1. PICK e : e = SubHears(d, m)
  OBVIOUS
<1>2. d \in LedSubs /\ d \in SubRec /\ e \in LedSubs
  BY <1>1, SubHearsOK DEF MetSubs, LedSubs
<1>3. \A s \in FreeStep : At(d, s).step = s
  BY <1>2, AtFacts DEF FreeStep, SubStep
<1>4. CASE d.step \in {"Begin", "RequireServer", "ErrReturn"}
  <2>1. e = d \/ e.step \in {"RequireServer", "RequireReply"}
    <3>1. CASE d.step = "RequireServer"
      <4> DEFINE bb == IF m.name \in Registered THEN sub[m.name].a ELSE NoAddr
      <4>1. PICK f : f = At(d, "RequireReply")
        OBVIOUS
      <4>2. f \in SubRec /\ f.step = "RequireReply"
        BY <1>2, <4>1, AtFacts DEF SubStep
      <4> HIDE DEF bb
      <4>3. [f EXCEPT !.b = bb].step = "RequireReply"
        BY <4>2 DEF SubRec
      <4> QED BY <1>1, <1>3, <3>1, <4>1, <4>3 DEF SubHears, RequireServerHears, FreeStep, bb
    <3>2. CASE d.step \in {"Begin", "ErrReturn"}
      BY <1>1, <1>3, <3>2 DEF SubHears, BeginHears, ErrReturnHears, FreeStep
    <3> QED BY <1>4, <3>1, <3>2
  <2> QED BY <1>1, <1>2, <2>1 DEF MetSubs
<1>5. CASE d.step = "RequireReply"
  <2>1. PICK f : f = At(d, "Decision")
    OBVIOUS
  <2>2. [f EXCEPT !.flag = "BEGIN"].flag = "BEGIN" /\ [f EXCEPT !.flag = "BEGIN"].step = "Decision"
    BY <1>2, <2>1, AtFacts DEF SubRec, SubStep
  <2>3. e = d \/ e.step = "RequireServer" \/ (e.step = "Decision" /\ e.flag = "BEGIN")
    BY <1>1, <1>3, <1>5, <2>1, <2>2 DEF SubHears, RequireReplyHears, FreeStep
  <2> QED BY <1>1, <1>2, <2>3 DEF MetSubs
<1>6. CASE d.step \in {"Punching", "ConnectAddr"}
  <2> DEFINE f == At(d, IF d.step = "Punching" THEN "ConnectAddr" ELSE "Decision")
  <2>1. e = d \/ e = f
    BY <1>1, <1>6 DEF SubHears, PunchingHears, ConnectAddrHears
  <2>2. /\ f.a = d.a /\ f.b = d.b /\ f.s = d.s /\ f.rid = d.rid
        /\ f.flag = d.flag /\ f.con = d.con /\ f.pun = d.pun
    BY <1>2, <1>6, AtFacts DEF SubStep
  <2> HIDE DEF f
  <2> QED BY <1>1, <1>2, <1>6, <2>1, <2>2 DEF MetSubs
<1>7. CASE d.step = "Decision"
  BY <1>1, <1>7 DEF SubHears
<1>8. d.step \in SubStep
  BY <1>2 DEF SubRec
<1> QED BY <1>4, <1>5, <1>6, <1>7, <1>8 DEF SubStep

LEMMA SubMovesMet ==
  ASSUME SubsOK, SubsMet, decided \subseteq decided', directs \subseteq directs',
         NEW n \in Registered, NEW d, d \in MetSubs(Acq', decided'), sub' = [sub EXCEPT ![n] = d]
  PROVE  SubsMet'
<1>1. \A k \in Name \ {n} : sub'[k] = sub[k]
  BY DEF SubsOK
<1>2. sub'[n] = d
  BY DEF SubsOK, Registered
<1>3. \A k \in Registered : sub[k] \in MetSubs(Acq', decided')
  BY AcqKept DEF SubsMet
<1> QED BY <1>1, <1>2, <1>3 DEF SubsMet, Registered

LEMMA ServerHearsMet ==
  ASSUME WireOK, SubsOK, SeedsOK, WireMet, SubsMet, ServerHears, directs' = directs
  PROVE  WireMet' /\ SubsMet' /\ decided' = decided
<1>1. ASSUME NEW m \in net, m.info = "REGISTER", Register(m)
      PROVE  WireMet' /\ SubsMet' /\ decided' = decided
  <2>1. m.from \in Peer /\ m.from \in Node /\ m.name \in Name /\ Server \in Node
    BY <1>1, MsgFields DEF WireOK, Node
  <2>2. decided' = decided
    BY <1>1 DEF Register, server, history
  <2>3. Acq' = Acq
    BY <2>2 DEF Acq
  <2>4. PICK S : S \subseteq MetMsgs(Acq) /\ ReadWrite(m, S)
    <3>1. {Plain("NAMEID_EXIST", Server, m.from)} \subseteq MetMsgs(Acq) /\ {} \subseteq MetMsgs(Acq)
      BY <2>1, PlainMsgs, PlainMet DEF PlainInfo
    <3> QED BY <1>1, <3>1 DEF Register
  <2>5. WireMet'
    BY <2>3, <2>4, ReadWriteKeeps DEF WireMet, WireOK
  <2>6. CASE m.name \in Registered
    <3>1. sub' = sub
      BY <1>1, <2>6 DEF Register, server
    <3> QED BY <2>2, <2>3, <2>5, <3>1 DEF SubsMet, Registered
  <2>7. CASE m.name \notin Registered
    <3>1. sub' = [sub EXCEPT ![m.name] = NewSub(m.from)]
      BY <1>1, <2>7 DEF Register, SubGoes
    <3>2. NewSub(m.from) \in MetSubs(Acq, decided)
      <4>1. NewSub(m.from) \in LedSubs /\ NewSub(m.from).step = "Begin"
        BY <2>1, SubFacts DEF NewSub
      <4> QED BY <4>1 DEF MetSubs
    <3>3. \A k \in Name : sub'[k] = IF k = m.name THEN NewSub(m.from) ELSE sub[k]
      BY <2>1, <3>1 DEF SubsOK
    <3> QED BY <2>2, <2>3, <2>5, <3>2, <3>3 DEF SubsMet, Registered
  <2> QED BY <2>6, <2>7
<1>2. ASSUME NEW m \in net, SubsHear(m)
      PROVE  WireMet' /\ SubsMet' /\ decided' = decided
  <2>1. decided' = decided
    BY <1>2 DEF SubsHear, history
  <2>2. Acq' = Acq
    BY <2>1 DEF Acq
  <2>3. PICK S : S \subseteq MetMsgs(Acq) /\ ReadWrite(m, S)
    <3>1. m.from \in Node /\ Server \in Node
      BY MsgFields DEF WireOK, Node
    <3>2. {Plain("ECHO", Server, m.from)} \subseteq MetMsgs(Acq) /\ {} \subseteq MetMsgs(Acq)
      BY <3>1, PlainMsgs, PlainMet DEF PlainInfo
    <3> QED BY <1>2, <3>2 DEF SubsHear
  <2>4. WireMet'
    BY <2>2, <2>3, ReadWriteKeeps DEF WireMet, WireOK
  <2>5. \A n \in Name : sub'[n] = SubHears(sub[n], m)
    BY <1>2 DEF SubsHear
  <2>6. SubHears(NoSub, m) = NoSub
    BY DEF SubHears, NoSub
  <2>7. \A n \in Registered' : n \in Registered
    BY <2>5, <2>6 DEF Registered
  <2>8. \A n \in Registered : SubHears(sub[n], m) \in MetSubs(Acq, decided)
    BY SubHearsMet DEF SubsMet
  <2>9. SubsMet'
    BY <2>1, <2>2, <2>5, <2>7, <2>8 DEF SubsMet, Registered
  <2> QED BY <2>1, <2>4, <2>9
<1> QED BY <1>1, <1>2 DEF ServerHears, Mail

LEMMA SubSendsMet ==
  ASSUME SubsOK, WireMet, SubsMet, dups \in 0..MaxDups, directs' = directs, NEW n \in Registered,
         NEW S, S \subseteq MetMsgs(Acq), SubSends(n, S)
  PROVE  WireMet' /\ SubsMet'
<1>1. decided' = decided /\ Acq' = Acq
  BY DEF SubSends, history, Acq
<1>2. WireMet'
  BY <1>1, WriteKeeps DEF SubSends, WireMet
<1>3. sub[n] \in MetSubs(Acq, decided) /\ sub[n] \in LedSubs /\ sub[n] \in SubRec
  BY DEF SubsMet, MetSubs, LedSubs
<1>4. sub' = [sub EXCEPT ![n] = SubCharge(n)]
  BY DEF SubSends, SubGoes
<1>5. SubCharge(n) \in LedSubs
  BY <1>3, SubCharges DEF SubSends
<1>6. /\ SubCharge(n).a = sub[n].a /\ SubCharge(n).b = sub[n].b /\ SubCharge(n).s = sub[n].s
      /\ SubCharge(n).pun = sub[n].pun /\ SubCharge(n).con = sub[n].con
      /\ SubCharge(n).flag = sub[n].flag /\ SubCharge(n).rid = sub[n].rid
      /\ SubCharge(n).step = sub[n].step
  BY <1>3 DEF SubCharge, SubRec
<1>7. SubCharge(n) \in MetSubs(Acq, decided)
  BY <1>3, <1>5, <1>6 DEF MetSubs
<1>8. decided \subseteq decided' /\ directs \subseteq directs' /\ SubCharge(n) \in MetSubs(Acq', decided')
  BY <1>1, <1>7
<1>9. SubsMet'
  BY <1>4, <1>8, SubMovesMet
<1> QED BY <1>2, <1>9

LEMMA SubGivesUpMet ==
  ASSUME SubsOK, WireMet, SubsMet, directs' = directs, NEW n \in Registered,
         NEW d, d \in MetSubs(Acq, decided), SubGivesUp(n, d)
  PROVE  WireMet' /\ SubsMet'
<1>1. /\ decided' = decided /\ Acq' = Acq /\ net' = net /\ sub' = [sub EXCEPT ![n] = d]
      /\ decided \subseteq decided' /\ directs \subseteq directs'
  BY DEF SubGivesUp, SubGoes, history, wire, Acq
<1>2. d \in MetSubs(Acq', decided')
  BY <1>1
<1>3. SubsMet'
  BY <1>1, <1>2, SubMovesMet
<1> QED BY <1>1, <1>3 DEF WireMet

LEMMA SubEndsMet ==
  ASSUME SubsOK, WireMet, SubsMet, directs' = directs, NEW n \in Registered, SubEnds(n)
  PROVE  WireMet' /\ SubsMet'
<1>1. /\ decided' = decided /\ Acq' = Acq /\ net' = net /\ sub' = [sub EXCEPT ![n] = NoSub]
  BY DEF SubEnds, history, wire, Acq
<1>2. \A k \in Registered' : k \in Registered /\ sub'[k] = sub[k]
  BY <1>1 DEF SubsOK, Registered
<1> QED BY <1>1, <1>2 DEF WireMet, SubsMet

\* A decision introduces those it leads together.
LEMMA DecisionMet ==
  ASSUME SubsOK, SeedsOK, WireMet, SubsMet, directs' = directs, NEW n \in Registered, Decision(n)
  PROVE  WireMet' /\ SubsMet' /\ decided \subseteq decided'
<1>1. /\ sub[n] \in MetSubs(Acq, decided) /\ sub[n] \in LedSubs /\ sub[n] \in SubRec
      /\ sub[n].step = "Decision" /\ net' = net
  BY DEF SubsMet, MetSubs, LedSubs, Decision, SubAt, wire
<1>2. PICK p : p = At(sub[n], "Punching")
  OBVIOUS
<1>3. PICK e : e = At(sub[n], "ErrReturn")
  OBVIOUS
<1>4. PICK x : x = sub[n]
  OBVIOUS
<1>5. /\ p \in SubRec /\ p.a = x.a /\ p.b = x.b /\ p.s = x.s
      /\ p.step = "Punching" /\ p.rid = x.rid
      /\ e \in SubRec /\ e.step = "ErrReturn"
      /\ At(x, "RequireServer") \in LedSubs /\ At(x, "RequireServer").step = "RequireServer"
  BY <1>1, <1>2, <1>3, <1>4, AtFacts DEF SubStep, FreeStep
<1>6. /\ x.a \in Peer /\ x.b \in Peer \cup {NoAddr} /\ x.s \in Peer \cup {NoAddr}
      /\ accRelayID \in 0..MaxRelayID /\ accRelayID # 0 /\ 0 \in 0..MaxRelayID
      /\ Peer \subseteq Node /\ NoAddr \notin Peer
  BY <1>1, <1>4, BdgServerAssumption, BdgMsgAssumption DEF SubRec, SubsOK, Node
<1>7. /\ x.flag = "BEGIN" => x.b \in Peer
      /\ x.flag = "A_SIDE_RELAY" =>
           x.b \in Peer /\ x.s \in Peer /\ <<x.a, x.b, x.s, x.rid>> \in decided
  BY <1>1, <1>4 DEF LedSubs, MetSubs
<1>8. /\ \A a, b, s \in Peer : \A r : <<a, b, s, r>> \in decided' =>
           <<a, s>> \in Acq' /\ <<b, s>> \in Acq'
      /\ \A a, b \in Peer : \A r : <<a, b, NoAddr, r>> \in decided' =>
           <<a, b>> \in Acq' /\ <<b, a>> \in Acq'
  <2>1. \A a, b, s \in Peer : \A r : /\ Joins(<<a, b, s, r>>, a, s) /\ Joins(<<a, b, s, r>>, b, s)
                                     /\ Joins(<<a, b, NoAddr, r>>, a, b)
    BY <1>6 DEF Joins
  <2>2. \A a, b \in Peer : \A r : Joins(<<a, b, NoAddr, r>>, a, b)
    BY <1>6 DEF Joins
  <2> QED BY <1>6, <2>1, <2>2, AcqFacts DEF Acq
<1>9. /\ decided \subseteq decided'
      /\ \E d : d \in MetSubs(Acq', decided') /\ sub' = [sub EXCEPT ![n] = d]
  <2>1. CASE DecideRelay(n)
    <3>1. PICK q : q = SeedPeerSelectOne
      OBVIOUS
    <3>2. q \in Peer
      BY <2>1, <3>1, SeedSelected DEF DecideRelay
    <3> DEFINE d == [p EXCEPT !.s = q, !.pun = q, !.con = x.a,
                              !.flag = "A_SIDE_RELAY", !.rid = accRelayID]
    <3>3. sub' = [sub EXCEPT ![n] = d] /\ decided' = decided \cup {Decided(d)}
      BY <1>2, <1>4, <2>1, <3>1 DEF DecideRelay, SubGoes
    <3>4. d \in SubRec
      BY <1>5, <1>6, <3>2 DEF SubRec, Flag
    <3>5. /\ d.a = x.a /\ d.b = x.b /\ d.s = q /\ d.pun = q /\ d.con = x.a
          /\ d.flag = "A_SIDE_RELAY" /\ d.rid = accRelayID /\ d.step = "Punching"
      BY <1>5 DEF SubRec
    <3> HIDE DEF d
    <3>6. x.b \in Peer
      BY <1>4, <1>7, <2>1 DEF DecideRelay
    <3>7. d \in LedSubs
      BY <1>6, <3>2, <3>4, <3>5, <3>6 DEF LedSubs
    <3>8. <<d.a, d.b, d.s, d.rid>> \in decided' /\ <<d.con, d.pun>> \in Acq'
      <4>1. Decided(d) = <<d.a, d.b, d.s, d.rid>>
        BY <1>6, <3>5 DEF Decided
      <4>2. <<x.a, x.b, q, accRelayID>> \in decided'
        BY <3>3, <3>5, <4>1
      <4> QED BY <1>6, <1>8, <3>2, <3>5, <3>6, <4>2
    <3>9. d \in MetSubs(Acq', decided')
      BY <3>7, <3>8 DEF MetSubs
    <3> QED BY <3>3, <3>9
  <2>2. CASE DecideNoSeed(n)
    <3> DEFINE d == [e EXCEPT !.err = "NO_SEED_TO_RELAY"]
    <3>1. d \in SubRec /\ d.step = "ErrReturn"
      BY <1>5 DEF SubRec, SubErr
    <3>2. sub' = [sub EXCEPT ![n] = d] /\ decided' = decided
      BY <1>3, <2>2 DEF DecideNoSeed, SubGoes
    <3> HIDE DEF d
    <3>3. d \in MetSubs(Acq', decided')
      BY <3>1 DEF LedSubs, MetSubs
    <3> QED BY <3>2, <3>3
  <2>3. CASE DecideDirect(n)
    <3> DEFINE aFirst == NATOf[x.a] < NATOf[x.b]
               y == IF aFirst THEN x.a ELSE x.b
               z == IF aFirst THEN x.b ELSE x.a
               d == [p EXCEPT !.pun = y, !.con = z, !.flag = "DIRECT", !.rid = 0]
    <3>1. /\ x.b \in Peer /\ y \in Peer /\ z \in Peer
          /\ (y = x.a /\ z = x.b) \/ (y = x.b /\ z = x.a)
      BY <1>4, <1>6, <1>7, <2>3 DEF DecideDirect
    <3>2. sub' = [sub EXCEPT ![n] = d] /\ decided' = decided \cup {Decided(d)}
      BY <1>2, <1>4, <2>3 DEF DecideDirect, SubGoes
    <3> HIDE DEF y, z
    <3>3. d \in SubRec
      BY <1>5, <1>6, <3>1 DEF SubRec, Flag
    <3>4. /\ d.a = x.a /\ d.b = x.b /\ d.pun = y /\ d.con = z /\ d.flag = "DIRECT"
          /\ d.rid = 0 /\ d.step = "Punching"
      BY <1>5 DEF SubRec
    <3> HIDE DEF d
    <3>5. Decided(d) = <<x.a, x.b, NoAddr, 0>>
      BY <3>4 DEF Decided
    <3>6. <<d.con, d.pun>> \in Acq'
      <4>1. <<x.a, x.b>> \in Acq' /\ <<x.b, x.a>> \in Acq'
        BY <1>6, <1>8, <3>1, <3>2, <3>5
      <4> QED BY <3>1, <3>4, <4>1
    <3>7. d \in LedSubs
      BY <3>1, <3>3, <3>4 DEF LedSubs
    <3>8. d \in MetSubs(Acq', decided')
      BY <3>4, <3>6, <3>7 DEF MetSubs
    <3> QED BY <3>2, <3>8
  <2>4. CASE DecideBSide(n)
    <3> DEFINE d == [p EXCEPT !.pun = x.s, !.con = x.b, !.flag = "B_SIDE_RELAY"]
    <3>1. sub' = [sub EXCEPT ![n] = d] /\ decided' = decided
      BY <1>2, <1>4, <2>4 DEF DecideBSide, SubGoes
    <3>2. x.b \in Peer /\ x.s \in Peer /\ <<x.a, x.b, x.s, x.rid>> \in decided
      BY <1>4, <1>7, <2>4 DEF DecideBSide
    <3>3. d \in SubRec
      BY <1>5, <3>2 DEF SubRec, Flag
    <3>4. d.pun = x.s /\ d.con = x.b /\ d.flag = "B_SIDE_RELAY" /\ d.step = "Punching"
      BY <1>5 DEF SubRec
    <3> HIDE DEF d
    <3>5. <<d.con, d.pun>> \in Acq'
      BY <1>6, <1>8, <3>1, <3>2, <3>4
    <3>6. d \in LedSubs
      BY <3>2, <3>3, <3>4 DEF LedSubs
    <3>7. d \in MetSubs(Acq', decided')
      BY <3>4, <3>5, <3>6 DEF MetSubs
    <3> QED BY <3>1, <3>7
  <2>5. CASE DecideBridged(n)
    <3>1. sub' = [sub EXCEPT ![n] = At(x, "RequireServer")] /\ decided' = decided
      BY <1>4, <2>5 DEF DecideBridged, SubGoes
    <3>2. At(x, "RequireServer") \in MetSubs(Acq', decided')
      BY <1>5 DEF MetSubs
    <3> QED BY <3>1, <3>2
  <2>6. CASE DecideErr(n)
    <3> DEFINE d == [e EXCEPT !.err = "ERROR"]
    <3>1. d \in SubRec /\ d.step = "ErrReturn"
      BY <1>5 DEF SubRec, SubErr
    <3>2. sub' = [sub EXCEPT ![n] = d] /\ decided' = decided
      BY <1>3, <2>6 DEF DecideErr, SubGoes
    <3> HIDE DEF d
    <3>3. d \in MetSubs(Acq', decided')
      BY <3>1 DEF LedSubs, MetSubs
    <3> QED BY <3>2, <3>3
  <2> QED BY <2>1, <2>2, <2>3, <2>4, <2>5, <2>6 DEF Decision
<1>10. SubsMet'
  BY <1>9, SubMovesMet
<1>11. WireMet'
  <2>1. MetMsgs(Acq) \subseteq MetMsgs(Acq')
    BY <1>9, AcqKept
  <2> QED BY <1>1, <2>1 DEF WireMet
<1> QED BY <1>9, <1>10, <1>11

LEMMA SubPolledMet ==
  ASSUME WireOK, SubsOK, SeedsOK, WireMet, SubsMet, directs' = directs, NEW n \in Name, SubPolled(n)
  PROVE  WireMet' /\ SubsMet' /\ decided \subseteq decided'
<1>1. n \in Registered
  BY DEF SubPolled, BeginPolled, RequireServerPolled, RequireReplyPolled, Decision,
         PunchingPolled, ConnectAddrPolled, ErrReturnPolled, SubAt, Registered
<1>2. sub[n] \in MetSubs(Acq, decided) /\ sub[n] \in LedSubs /\ sub[n] \in SubRec
  BY <1>1 DEF SubsMet, MetSubs, LedSubs
<1>3. /\ sub[n].a \in Node /\ Server \in Node /\ sub[n].err \in PlainInfo
      /\ sub[n].rid \in 0..MaxRelayID /\ dups \in 0..MaxDups
  BY <1>2 DEF SubRec, Node, SubErr, PlainInfo, WireOK
<1>4. \A i \in PlainInfo : {Plain(i, Server, sub[n].a)} \subseteq MetMsgs(Acq)
  BY <1>3, PlainMsgs, PlainMet
<1>5. \A s \in SubStep : At(sub[n], s) \in SubRec /\ At(sub[n], s).step = s
  BY <1>2, AtFacts
<1>6. [At(sub[n], "Decision") EXCEPT !.flag = "ERR"] \in MetSubs(Acq, decided)
  <2>1. PICK e : e = At(sub[n], "Decision")
    OBVIOUS
  <2>2. e \in SubRec /\ e.step = "Decision"
    BY <1>5, <2>1 DEF SubStep
  <2> DEFINE d == [e EXCEPT !.flag = "ERR"]
  <2>3. d \in SubRec /\ d.step = "Decision" /\ d.flag = "ERR"
    BY <2>2 DEF SubRec, Flag
  <2> HIDE DEF d
  <2>4. d \in MetSubs(Acq, decided)
    BY <2>3 DEF LedSubs, MetSubs
  <2> QED BY <2>1, <2>4 DEF d
<1>7. CASE Decision(n)
  BY <1>1, <1>7, DecisionMet
<1>8. CASE \E S : S \subseteq MetMsgs(Acq) /\ SubSends(n, S)
  <2>1. PICK S : S \subseteq MetMsgs(Acq) /\ SubSends(n, S)
    BY <1>8
  <2>2. decided' = decided
    BY <2>1 DEF SubSends, history
  <2> QED BY <1>1, <1>3, <2>1, <2>2, SubSendsMet
<1>9. CASE \E d : d \in MetSubs(Acq, decided) /\ SubGivesUp(n, d)
  <2>1. PICK d : d \in MetSubs(Acq, decided) /\ SubGivesUp(n, d)
    BY <1>9
  <2>2. decided' = decided
    BY <2>1 DEF SubGivesUp, history
  <2> QED BY <1>1, <2>1, <2>2, SubGivesUpMet
<1>10. CASE SubEnds(n)
  <2>1. decided' = decided
    BY <1>10 DEF SubEnds, history
  <2> QED BY <1>1, <1>10, <2>1, SubEndsMet
<1>11. CASE BeginPolled(n)
  BY <1>4, <1>8, <1>10, <1>11 DEF BeginPolled, PlainInfo
<1>12. CASE RequireServerPolled(n)
  BY <1>8, <1>10, <1>12 DEF RequireServerPolled
<1>13. CASE RequireReplyPolled(n)
  <2> DEFINE i == IF sub[n].b = NoAddr THEN "NO_NAMEID" ELSE "CONNECT_BEGIN"
  <2>1. i \in PlainInfo
    BY DEF PlainInfo
  <2>2. At(sub[n], "RequireServer") \in MetSubs(Acq, decided)
    BY <1>5 DEF LedSubs, MetSubs, SubStep
  <2>3. SubSends(n, {Plain(i, Server, sub[n].a)}) \/ SubGivesUp(n, At(sub[n], "RequireServer"))
    BY <1>13 DEF RequireReplyPolled
  <2> HIDE DEF i
  <2> QED BY <1>4, <1>8, <1>9, <2>1, <2>2, <2>3
<1>14. CASE PunchingPolled(n)
  <2>1. sub[n].pun \in Node /\ sub[n].con \in Node
    BY <1>2, <1>14 DEF PunchingPolled, SubAt, LedSubs, Node
  <2>2. {PunchingMsg(Server, sub[n].pun, sub[n].con)} \subseteq MetMsgs(Acq)
    BY <1>3, <2>1, PlainMsgs, PlainMet
  <2> QED BY <1>6, <1>8, <1>9, <1>14, <2>2 DEF PunchingPolled
<1>15. CASE ConnectAddrPolled(n)
  <2>1. sub[n].pun \in Peer /\ sub[n].con \in Peer /\ <<sub[n].con, sub[n].pun>> \in Acq
    BY <1>2, <1>15 DEF ConnectAddrPolled, SubAt, LedSubs, MetSubs
  <2> DEFINE m == ConnectAddrMsg(Server, sub[n].con, sub[n].pun, sub[n].rid)
  <2>2. m \in Msgs /\ m.info = "CONNECT_ADDR" /\ m.to = sub[n].con /\ m.addr = sub[n].pun
    BY <1>3, <2>1 DEF ConnectAddrMsg, Msgs, Node
  <2> HIDE DEF m
  <2>3. {m} \subseteq MetMsgs(Acq)
    BY <2>1, <2>2 DEF MetMsgs
  <2> QED BY <1>6, <1>8, <1>9, <1>15, <2>3 DEF ConnectAddrPolled, m
<1>16. CASE ErrReturnPolled(n)
  BY <1>3, <1>4, <1>8, <1>10, <1>16 DEF ErrReturnPolled
<1> QED BY <1>7, <1>11, <1>12, <1>13, <1>14, <1>15, <1>16 DEF SubPolled

LEMMA SameMet ==
  ASSUME decided' = decided, Same, RelaysMet, HistoryMet
  PROVE  Acq' = Acq /\ directs' = directs /\ RelaysMet' /\ HistoryMet'
<1>1. Acq' = Acq /\ directs' = directs /\ relays' = relays /\ met' = met
  BY DEF Same, Acq
<1> QED BY <1>1 DEF RelaysMet, HistoryMet

\* A client that goes to a step in which it connects nobody, or stays.
LEMMA MetStays ==
  ASSUME NEW A, NEW U, NEW p, NEW c \in MetClients(A, U, p), NEW e \in CliRec,
         e.direct = c.direct,
         \/ e.step \notin {"DoConnect", "MultiSend"}
         \/ e.step = c.step /\ e.b = c.b /\ e.to = c.to /\ e.info = c.info
  PROVE  e \in MetClients(A, U, p)
  BY DEF MetClients

LEMMA AtMet ==
  ASSUME NEW A, NEW U, NEW p \in Node, NEW c \in MetClients(A, U, p), NEW s \in CliStep,
         s \notin {"DoConnect", "MultiSend"}
  PROVE  CliAt(c, s) \in MetClients(A, U, p)
<1>1. c \in CliRec
  BY DEF MetClients
<1>2. CliAt(c, s) \in CliRec /\ CliAt(c, s).step = s /\ CliAt(c, s).direct = c.direct
  BY <1>1, CliAtFacts
<1> QED BY <1>2, MetStays

LEMMA EndMet ==
  ASSUME NEW A, NEW U, NEW p, NEW c \in MetClients(A, U, p)
  PROVE  CliEnd(c) \in MetClients(A, U, p)
<1>1. c \in CliRec
  BY DEF MetClients
<1>2. CliEnd(c) \in CliRec /\ CliEnd(c).step = "Ended" /\ CliEnd(c).direct = c.direct
  BY <1>1 DEF CliEnd, CliRec, CliStep
<1> QED BY <1>2, MetStays

LEMMA ChargeMet ==
  ASSUME NEW A, NEW U, NEW p \in Node, NEW c \in GoodClients(p), c \in MetClients(A, U, p),
         NEW st \in PollStates(c)
  PROVE  CliCharge(c, st) \in MetClients(A, U, p)
<1> DEFINE e == CliCharge(c, st)
<1>1. /\ e \in CliRec /\ e.step = c.step /\ e.direct = c.direct /\ e.b = c.b
      /\ e.to = c.to /\ e.info = c.info
  BY CliCharges
<1> HIDE DEF e
<1>2. e \in MetClients(A, U, p)
  BY <1>1, MetStays
<1> QED BY <1>2 DEF e

LEMMA ClientMovesMet ==
  ASSUME ClientsOK, ClientsMet, decided \subseteq decided', directs \subseteq directs',
         NEW p \in Node, NEW c, c \in MetClients(Acq', directs', p), cli' = [cli EXCEPT ![p] = c]
  PROVE  ClientsMet'
<1>1. \A q \in Node : cli[q] \in MetClients(Acq', directs', q)
  BY AcqKept DEF ClientsMet
<1>2. \A q \in Node : cli'[q] = IF q = p THEN c ELSE cli[q]
  BY DEF ClientsOK
<1> QED BY <1>1, <1>2 DEF ClientsMet

\* Steps that send or read and change nothing but the client and the wire.
LEMMA ClientStepMet ==
  ASSUME ClientsOK, ClientsMet, RelaysMet, HistoryMet, WireMet, dups \in 0..MaxDups,
         decided' = decided, Same,
         NEW p \in Node, NEW c, c \in MetClients(Acq, directs, p), cli' = [cli EXCEPT ![p] = c],
         NEW S, S \subseteq MetMsgs(Acq),
         \/ Write(S) \/ (\E m : ReadWrite(m, S)) \/ UNCHANGED wire
  PROVE  ClientsMet' /\ RelaysMet' /\ HistoryMet' /\ WireMet'
<1>1. /\ Acq' = Acq /\ directs' = directs /\ RelaysMet' /\ HistoryMet'
      /\ directs \subseteq directs' /\ decided \subseteq decided'
  BY SameMet
<1>2. c \in MetClients(Acq', directs', p)
  BY <1>1
<1>3. ClientsMet'
  BY <1>1, <1>2, ClientMovesMet
<1>4. net' \subseteq MetMsgs(Acq)
  <2>1. CASE Write(S)
    BY <2>1, WriteKeeps DEF WireMet
  <2>2. CASE \E m : ReadWrite(m, S)
    BY <2>2, ReadWriteKeeps DEF WireMet
  <2>3. CASE UNCHANGED wire
    BY <2>3 DEF WireMet, wire
  <2> QED BY <2>1, <2>2, <2>3
<1> QED BY <1>1, <1>3, <1>4 DEF WireMet

LEMMA WaitGoesOnMet ==
  ASSUME ClientsOK, ClientsMet, NEW p \in Node, cli[p].step = "Wait", NEW st \in PollStates(cli[p])
  PROVE  /\ WaitGoesOn(p, st).c \in MetClients(Acq, directs, p)
         /\ WaitGoesOn(p, st).S \subseteq MetMsgs(Acq)
<1>1. PICK c : c = cli[p]
  OBVIOUS
<1>2. /\ c \in GoodClients(p) /\ c \in CliRec /\ c.direct \in Addr /\ c.step = "Wait"
      /\ c \in MetClients(Acq, directs, p) /\ st \in PollStates(c)
  BY <1>1 DEF ClientsOK, GoodClients, CliRec, ClientsMet
<1>3. \A s \in {"Wait", "Require"} : CliAt(c, s) \in MetClients(Acq, directs, p)
  BY <1>2, AtMet DEF CliStep
<1> DEFINE w == WaitGoesOn(p, st)
<1>4. CASE c.target # NoName
  <2>1. w = [c |-> CliAt(c, "Require"), S |-> {}]
    BY <1>1, <1>4 DEF WaitGoesOn
  <2> QED BY <1>3, <2>1
<1>5. CASE c.target = NoName /\ c.direct # NoAddr
  <2>1. PICK e : e = CliAt(c, "DoConnect")
    OBVIOUS
  <2>2. e \in CliRec /\ e.step = "DoConnect" /\ e.direct = c.direct
    BY <1>2, <2>1, CliAtFacts DEF CliStep
  <2> DEFINE d == [e EXCEPT !.sx = NoAddr, !.b = c.direct, !.rid = 0]
  <2>3. d \in CliRec /\ d.step = "DoConnect" /\ d.b = c.direct /\ d.direct = c.direct
    <3>1. NoAddr \in Addr /\ c.direct \in Addr /\ 0 \in RelayIDs
      BY <1>2, BdgClientAssumption DEF Addr
    <3>2. d \in CliRec
      BY <2>2, <3>1 DEF CliRec
    <3> QED BY <2>2, <3>2 DEF CliRec
  <2>4. w = [c |-> d, S |-> {}]
    BY <1>1, <1>5, <2>1 DEF WaitGoesOn
  <2> HIDE DEF d
  <2>5. <<p, c.direct>> \in directs /\ c.direct \in Node
    BY <1>2, <1>5 DEF MetClients, Addr
  <2>6. <<p, c.direct>> \in Acq
    BY <2>5, AcqFacts DEF Acq
  <2>7. d \in MetClients(Acq, directs, p)
    BY <2>3, <2>5, <2>6 DEF MetClients
  <2> QED BY <2>4, <2>7
<1>6. CASE c.target = NoName /\ c.direct = NoAddr /\ Skips(p)
  <2>1. w = [c |-> CliAt(c, "Wait"), S |-> {}]
    BY <1>1, <1>6 DEF WaitGoesOn
  <2> QED BY <1>3, <2>1
<1>7. CASE c.target = NoName /\ c.direct = NoAddr /\ ~Skips(p) /\ (st = "OVERTIME" \/ c.fast)
  <2>1. st # "LAST"
    <3>1. c.fast => c.first
      BY <1>2 DEF GoodClients
    <3> QED BY <1>2, <1>7, <3>1 DEF PollStates
  <2>2. PICK e : e = CliCharge(c, st)
    OBVIOUS
  <2>3. e \in CliRec /\ e.step = "Wait" /\ e.direct = c.direct
    BY <1>2, <2>2, CliCharges
  <2> DEFINE d == [e EXCEPT !.fast = FALSE]
  <2>4. d \in CliRec /\ d.step = "Wait" /\ d.direct = c.direct
    BY <2>3 DEF CliRec
  <2>5. w = [c |-> d, S |-> {WaitingMsg(p, Server, nrelays[p] % UcharSize)}]
    BY <1>1, <1>7, <2>1, <2>2 DEF WaitGoesOn
  <2> HIDE DEF d, w
  <2>6. d \in MetClients(Acq, directs, p)
    BY <1>2, <2>4, MetStays
  <2>7. nrelays[p] % UcharSize \in Nat /\ Server \in Node
    BY ModIn, BdgClientAssumption DEF ClientsOK, Node
  <2>8. {WaitingMsg(p, Server, nrelays[p] % UcharSize)} \subseteq MetMsgs(Acq)
    BY <2>7, PlainMsgs, PlainMet
  <2>9. w.c = d /\ w.S = {WaitingMsg(p, Server, nrelays[p] % UcharSize)}
    BY <2>5
  <2>10. w.c \in MetClients(Acq, directs, p) /\ w.S \subseteq MetMsgs(Acq)
    BY <2>6, <2>8, <2>9
  <2> QED BY <2>10 DEF w
<1>8. CASE c.target = NoName /\ c.direct = NoAddr /\ ~Skips(p) /\ ~(st = "OVERTIME" \/ c.fast)
  <2>1. CASE st = "LAST"
    <3>1. w = [c |-> CliEnd(c), S |-> {}]
      BY <1>1, <1>8, <2>1 DEF WaitGoesOn
    <3> QED BY <1>2, <3>1, EndMet
  <2>2. CASE st # "LAST"
    <3>1. w = [c |-> CliCharge(c, st), S |-> {}]
      BY <1>1, <1>8, <2>2 DEF WaitGoesOn
    <3> QED BY <1>2, <3>1, ChargeMet
  <2> QED BY <2>1, <2>2
<1> QED BY <1>4, <1>5, <1>6, <1>7, <1>8

\* A relay joins, and keeps, acquaintances only.
LEMMA RelayMergeMet ==
  ASSUME RelaysMet, Acq' = Acq, NEW p \in Node, NEW id \in RelayIDs, NEW q \in Node,
         <<p, q>> \in Acq, RelayProcMerge(p, id, q)
  PROVE  RelaysMet'
<1> DEFINE R == MetRelays(Acq, p)
<1>1. relays[p] \in Seq(R) /\ DOMAIN relays = Node
  BY DEF RelaysMet
<1>2. ASSUME NEW t, t \in Seq(R), relays' = [relays EXCEPT ![p] = t]
      PROVE  RelaysMet'
  <2>1. \A k \in Node : relays'[k] = IF k = p THEN t ELSE relays[k]
    BY <1>1, <1>2
  <2>2. DOMAIN relays' = Node /\ relays' = [k \in Node |-> relays'[k]]
    BY <1>1, <1>2 DEF RelaysMet
  <2> QED BY <1>2, <2>1, <2>2 DEF RelaysMet
<1>3. CASE ~IsRelay(p, id)
  <2> DEFINE r == [id |-> id, peer0 |-> q, peer1 |-> NoAddr]
  <2>1. r \in R
    BY DEF MetRelays, RelayRec, Addr
  <2>2. relays' = [relays EXCEPT ![p] = Append(relays[p], r)]
    BY <1>1, <1>3 DEF RelayProcMerge
  <2> HIDE DEF r, R
  <2>3. Append(relays[p], r) \in Seq(R)
    BY <1>1, <2>1, AppendProperties
  <2> QED BY <1>2, <2>2, <2>3
<1>4. CASE IsRelay(p, id)
  <2> DEFINE j == CHOOSE i \in DOMAIN relays[p] : relays[p][i].id = id
  <2>1. j \in DOMAIN relays[p]
    BY <1>4 DEF IsRelay
  <2>2. PICK i \in DOMAIN relays[p] : i = j
    BY <2>1
  <2> DEFINE r == [relays[p][i] EXCEPT !.peer1 = q]
             t == [relays[p] EXCEPT ![i] = r]
  <2>3. CASE relays[p][j].peer1 = NoAddr
    <3>1. relays' = [relays EXCEPT ![p] = t]
      BY <1>1, <1>4, <2>2, <2>3 DEF RelayProcMerge
    <3> HIDE DEF R
    <3>2. i \in 1..Len(relays[p]) /\ relays[p][i] \in R
      BY <1>1, <2>2, LenProperties, ElementOfSeq
    <3>3. r \in R
      BY <3>2 DEF R, MetRelays, RelayRec, Addr
    <3> HIDE DEF r
    <3>4. t \in Seq(R)
      BY <1>1, <3>2, <3>3, ExceptSeq
    <3> HIDE DEF t
    <3> QED BY <1>2, <3>1, <3>4
  <2>4. CASE relays[p][j].peer1 # NoAddr
    <3>1. relays' = relays
      BY <1>4, <2>4 DEF RelayProcMerge
    <3> QED BY <3>1 DEF RelaysMet
  <2> QED BY <2>3, <2>4
<1> QED BY <1>3, <1>4

LEMMA RelayEndsMet ==
  ASSUME RelaysMet, Acq' = Acq, NEW p \in Node, NEW i \in DOMAIN relays[p], RelayEnds(p, i)
  PROVE  RelaysMet'
<1> DEFINE R == MetRelays(Acq, p)
<1>1. relays[p] \in Seq(R) /\ DOMAIN relays = Node
  BY DEF RelaysMet
<1>2. relays' = [relays EXCEPT ![p] = RemoveAt(relays[p], i)]
  BY <1>1 DEF RelayEnds, RemoveAt
<1> HIDE DEF R
<1>3. RemoveAt(relays[p], i) \in Seq(R)
  BY <1>1, RemoveAtOK
<1>4. \A k \in Node : relays'[k] = IF k = p THEN RemoveAt(relays[p], i) ELSE relays[k]
  BY <1>1, <1>2
<1>5. DOMAIN relays' = Node /\ relays' = [k \in Node |-> relays'[k]]
  BY <1>1, <1>2 DEF RelaysMet
<1> QED BY <1>3, <1>4, <1>5 DEF RelaysMet, R

\* What the nodes know of each other, by the client side.
MetInv == ClientsMet /\ RelaysMet /\ HistoryMet /\ WireMet

Sound == WireOK /\ ClientsOK /\ MetInv

LEMMA SendsMet ==
  ASSUME Sound, decided' = decided, NEW p \in Node, NEW S, S \subseteq MetMsgs(Acq), CliSends(p, S)
  PROVE  MetInv'
<1>1. PICK st \in PollStates(cli[p]) :
        cli' = [cli EXCEPT ![p] = CliCharge(cli[p], st)] /\ Write(S)
  BY DEF CliSends, CliGoes
<1>2. /\ cli[p] \in GoodClients(p) /\ cli[p] \in MetClients(Acq, directs, p)
      /\ dups \in 0..MaxDups /\ Same
  BY DEF Sound, MetInv, ClientsOK, ClientsMet, WireOK, CliSends
<1>3. CliCharge(cli[p], st) \in MetClients(Acq, directs, p)
  BY <1>2, ChargeMet
<1> QED BY <1>1, <1>2, <1>3, ClientStepMet DEF Sound, MetInv

LEMMA LastMet ==
  ASSUME Sound, decided' = decided, NEW p \in Node,
         NEW c, c \in MetClients(Acq, directs, p), CliLast(p, c)
  PROVE  MetInv'
<1>1. /\ cli' = [cli EXCEPT ![p] = c] /\ UNCHANGED wire /\ Same
      /\ dups \in 0..MaxDups /\ {} \subseteq MetMsgs(Acq)
  BY DEF CliLast, CliGoes, Sound, WireOK
<1> QED BY <1>1, ClientStepMet DEF Sound, MetInv

\* A client that reads m, writes S and does nothing else to others.
LEMMA HeardMet ==
  ASSUME Sound, decided' = decided, NEW p \in Node,
         NEW c, c \in MetClients(Acq, directs, p), cli' = [cli EXCEPT ![p] = c],
         NEW m, NEW S, S \subseteq MetMsgs(Acq), ReadWrite(m, S), Same
  PROVE  MetInv'
<1>1. dups \in 0..MaxDups
  BY DEF Sound, WireOK
<1> QED BY <1>1, ClientStepMet DEF Sound, MetInv

LEMMA RegisterMet ==
  ASSUME Sound, decided' = decided, NEW p \in Node, RegisterHears(p) \/ RegisterPolled(p)
  PROVE  MetInv'
<1>1. /\ cli[p] \in GoodClients(p) /\ cli[p] \in CliRec /\ cli[p].step = "Register"
      /\ cli[p] \in MetClients(Acq, directs, p)
  BY DEF Sound, MetInv, ClientsOK, ClientsMet, RegisterHears, RegisterPolled
<1>2. CliEnd(cli[p]) \in MetClients(Acq, directs, p)
  BY <1>1, EndMet
<1>3. CASE RegisterHears(p)
  <2>1. PICK e : e = CliAt(cli[p], "Wait")
    OBVIOUS
  <2>2. e \in CliRec /\ e.step = "Wait" /\ e.direct = cli[p].direct
    BY <1>1, <2>1, CliAtFacts DEF CliStep
  <2> DEFINE d == [e EXCEPT !.connected = TRUE, !.fast = TRUE]
  <2>3. d \in CliRec /\ d.step = "Wait" /\ d.direct = cli[p].direct
    BY <2>2 DEF CliRec
  <2>4. PICK m \in net :
          /\ cli' = [cli EXCEPT ![p] = IF m.info = "RGST_OK" THEN d ELSE CliEnd(cli[p])]
          /\ ReadWrite(m, {}) /\ Same
    BY <1>3, <2>1 DEF RegisterHears, Mail, CliGoes
  <2> HIDE DEF d
  <2>5. d \in MetClients(Acq, directs, p)
    BY <1>1, <2>3, MetStays
  <2>6. (IF m.info = "RGST_OK" THEN d ELSE CliEnd(cli[p])) \in MetClients(Acq, directs, p)
    BY <1>2, <2>5
  <2>7. {} \subseteq MetMsgs(Acq)
    OBVIOUS
  <2> QED BY <2>4, <2>6, <2>7, HeardMet
<1>4. CASE CliSends(p, {RegisterMsg(p, Server, NameOf[p], NATOf[p])})
  <2> DEFINE m == RegisterMsg(p, Server, NameOf[p], NATOf[p])
  <2>1. p \in Peer /\ NameOf[p] \in Name
    BY <1>1, BdgMsgAssumption DEF GoodClients
  <2>2. m \in Msgs /\ m.info \notin {"HELLO", "CONNECT_ADDR"}
    BY <2>1 DEF Msgs, RegisterMsg
  <2> HIDE DEF m
  <2>3. {m} \subseteq MetMsgs(Acq)
    BY <2>2, PlainMet
  <2> QED BY <1>4, <2>3, SendsMet DEF m
<1>5. CASE CliLast(p, CliEnd(cli[p]))
  BY <1>2, <1>5, LastMet
<1> QED BY <1>3, <1>4, <1>5 DEF RegisterPolled

LEMMA WaitMet ==
  ASSUME Sound, decided' = decided, NEW p \in Node,
         WaitPolled(p) \/ WaitAnswers(p) \/ WaitHearsEcho(p) \/ WaitHearsConnectAddr(p)
  PROVE  MetInv'
<1>1. /\ cli[p] \in CliRec /\ cli[p].step = "Wait"
      /\ cli[p] \in MetClients(Acq, directs, p) /\ ClientsOK /\ ClientsMet
      /\ {} \subseteq MetMsgs(Acq)
  BY DEF Sound, MetInv, ClientsOK, ClientsMet, WaitPolled, WaitAnswers, WaitHearsEcho,
         WaitHearsConnectAddr
<1>2. CASE WaitPolled(p)
  <2>1. PICK st \in PollStates(cli[p]) : /\ cli' = [cli EXCEPT ![p] = WaitGoesOn(p, st).c]
                                        /\ Write(WaitGoesOn(p, st).S) /\ Same
    BY <1>2 DEF WaitPolled, CliGoes
  <2>2. /\ WaitGoesOn(p, st).c \in MetClients(Acq, directs, p)
        /\ WaitGoesOn(p, st).S \subseteq MetMsgs(Acq)
    BY <1>1, WaitGoesOnMet
  <2>3. dups \in 0..MaxDups
    BY DEF Sound, WireOK
  <2> QED BY <2>1, <2>2, <2>3, ClientStepMet DEF Sound, MetInv
<1>3. CASE WaitAnswers(p)
  <2>1. PICK m \in net, st \in PollStates(cli[p]), i \in {"PUNCHING_FINISH", "ACKNOWLEDGE"} :
          /\ cli' = [cli EXCEPT ![p] = WaitGoesOn(p, st).c]
          /\ ReadWrite(m, {Plain(i, p, m.from)} \cup WaitGoesOn(p, st).S) /\ Same
    BY <1>3 DEF WaitAnswers, Mail, CliGoes
  <2>2. /\ WaitGoesOn(p, st).c \in MetClients(Acq, directs, p)
        /\ WaitGoesOn(p, st).S \subseteq MetMsgs(Acq)
    BY <1>1, WaitGoesOnMet
  <2>3. m.from \in Node /\ i \in PlainInfo
    BY MsgFields DEF PlainInfo, WireOK, Sound
  <2>4. {Plain(i, p, m.from)} \subseteq MetMsgs(Acq)
    BY <2>3, PlainMsgs, PlainMet
  <2>5. {Plain(i, p, m.from)} \cup WaitGoesOn(p, st).S \subseteq MetMsgs(Acq)
    BY <2>2, <2>4
  <2> QED BY <2>1, <2>2, <2>5, HeardMet
<1>4. CASE WaitHearsEcho(p)
  <2>1. PICK m \in net : /\ cli' = [cli EXCEPT ![p] = CliAt(cli[p], "Wait")]
                        /\ ReadWrite(m, {}) /\ Same
    BY <1>4 DEF WaitHearsEcho, Mail, CliGoes
  <2>2. CliAt(cli[p], "Wait") \in MetClients(Acq, directs, p)
    BY <1>1, AtMet DEF CliStep
  <2> QED BY <1>1, <2>1, <2>2, HeardMet
<1>5. CASE WaitHearsConnectAddr(p)
  <2>1. PICK e : e = CliAt(cli[p], "DoConnect")
    OBVIOUS
  <2>2. PICK m \in net :
          /\ cli' = [cli EXCEPT ![p] = [e EXCEPT !.sx = m.from, !.b = m.addr, !.rid = m.rid]]
          /\ ReadWrite(m, {}) /\ m.info = "CONNECT_ADDR" /\ m.to = p /\ Same
    BY <1>5, <2>1 DEF WaitHearsConnectAddr, Mail, CliGoes
  <2>3. e \in CliRec /\ e.step = "DoConnect" /\ e.direct = cli[p].direct
    BY <1>1, <2>1, CliAtFacts DEF CliStep
  <2>4. m.from \in Addr /\ m.addr \in Addr /\ m.rid \in RelayIDs
    BY <2>2, MsgFields, BridgeAssumption DEF Sound, WireOK, Addr, Node
  <2>5. <<p, m.addr>> \in Acq
    BY <2>2 DEF Sound, MetInv, WireMet, MetMsgs
  <2> DEFINE d == [e EXCEPT !.sx = m.from, !.b = m.addr, !.rid = m.rid]
  <2>6. d \in CliRec /\ d.step = "DoConnect" /\ d.direct = cli[p].direct /\ d.b = m.addr
    BY <2>3, <2>4 DEF CliRec
  <2>7. cli' = [cli EXCEPT ![p] = d]
    BY <2>2
  <2> HIDE DEF d
  <2>8. d \in MetClients(Acq, directs, p)
    BY <1>1, <2>5, <2>6 DEF MetClients
  <2> QED BY <1>1, <2>2, <2>7, <2>8, HeardMet
<1> QED BY <1>2, <1>3, <1>4, <1>5

\* A HELLO makes a session, or a place in a relay, for the one who sent it.
LEMMA WaitHearsHelloMet ==
  ASSUME Sound, decided' = decided, NEW p \in Node, WaitHearsHello(p)
  PROVE  MetInv'
<1>1. /\ cli[p] \in CliRec /\ cli[p].step = "Wait"
      /\ cli[p] \in MetClients(Acq, directs, p) /\ ClientsOK /\ ClientsMet
      /\ RelaysMet /\ HistoryMet /\ WireMet /\ net \subseteq Msgs /\ dups \in 0..MaxDups
      /\ {} \subseteq MetMsgs(Acq)
  BY DEF Sound, MetInv, ClientsOK, ClientsMet, WaitHearsHello, WireOK
<1>2. PICK e : e = CliAt(cli[p], "MultiSend")
  OBVIOUS
<1>3. PICK m \in net :
        /\ cli' = [cli EXCEPT ![p] = [e EXCEPT !.to = m.from, !.info = "HELLO"]]
        /\ ReadWrite(m, {}) /\ directs' = directs /\ m.to = p /\ m.info = "HELLO"
        /\ \/ met' = met \cup {<<p, m.from>>} /\ UNCHANGED <<relays, nrelays>>
           \/ RelayProcMerge(p, m.rid, m.from) /\ UNCHANGED met
  BY <1>2 DEF WaitHearsHello, Mail, CliGoes
<1>4. e \in CliRec /\ e.step = "MultiSend" /\ e.direct = cli[p].direct
  BY <1>1, <1>2, CliAtFacts DEF CliStep
<1>5. m.from \in Addr /\ m.from \in Node /\ m.rid \in RelayIDs
  BY <1>1, <1>3, MsgFields DEF Addr
<1>6. <<p, m.from>> \in Acq
  BY <1>1, <1>3, AcqFacts DEF Acq, WireMet, MetMsgs
<1> DEFINE d == [e EXCEPT !.to = m.from, !.info = "HELLO"]
<1>7. d \in CliRec /\ d.step = "MultiSend" /\ d.direct = cli[p].direct /\ d.to = m.from
  BY <1>4, <1>5 DEF CliRec
<1>8. cli' = [cli EXCEPT ![p] = d]
  BY <1>3
<1> HIDE DEF d
<1>9. Acq' = Acq
  BY <1>3 DEF Acq
<1>10. d \in MetClients(Acq', directs', p)
  BY <1>1, <1>3, <1>6, <1>7, <1>9 DEF MetClients
<1>11. ClientsMet'
  BY <1>1, <1>3, <1>8, <1>10, ClientMovesMet
<1>12. WireMet'
  BY <1>1, <1>3, <1>9, ReadWriteKeeps DEF WireMet
<1>13. CASE met' = met \cup {<<p, m.from>>} /\ UNCHANGED <<relays, nrelays>>
  BY <1>1, <1>6, <1>9, <1>11, <1>12, <1>13 DEF RelaysMet, HistoryMet, MetInv
<1>14. CASE RelayProcMerge(p, m.rid, m.from) /\ UNCHANGED met
  <2>1. RelaysMet'
    BY <1>1, <1>5, <1>6, <1>9, <1>14, RelayMergeMet
  <2> QED BY <1>1, <1>9, <1>11, <1>12, <1>14, <2>1 DEF HistoryMet, MetInv
<1> QED BY <1>3, <1>13, <1>14

LEMMA RequireMet ==
  ASSUME Sound, decided' = decided, NEW p \in Node, RequireHears(p) \/ RequirePolled(p)
  PROVE  MetInv'
<1>1. /\ cli[p] \in GoodClients(p) /\ cli[p] \in CliRec /\ cli[p].step = "Require"
      /\ cli[p] \in MetClients(Acq, directs, p) /\ {} \subseteq MetMsgs(Acq)
  BY DEF Sound, MetInv, ClientsOK, ClientsMet, RequireHears, RequirePolled
<1>2. CASE RequireHears(p)
  <2>1. PICK e : e = CliAt(cli[p], "Wait")
    OBVIOUS
  <2>2. e \in CliRec /\ e.step = "Wait" /\ e.direct = cli[p].direct
    BY <1>1, <2>1, CliAtFacts DEF CliStep
  <2>3. PICK m \in net :
          /\ cli' = [cli EXCEPT ![p] = [e EXCEPT !.target = NoName,
                                                 !.fast = @ \/ m.info = "CONNECT_BEGIN"]]
          /\ ReadWrite(m, {}) /\ Same
    BY <1>2, <2>1 DEF RequireHears, Mail, CliGoes
  <2>4. PICK x \in BOOLEAN : x = (e.fast \/ m.info = "CONNECT_BEGIN")
    OBVIOUS
  <2> DEFINE d == [e EXCEPT !.target = NoName, !.fast = x]
  <2>5. d \in CliRec /\ d.step = "Wait" /\ d.direct = cli[p].direct
    BY <2>2, <2>4 DEF CliRec
  <2>6. cli' = [cli EXCEPT ![p] = d]
    BY <2>2, <2>3, <2>4 DEF CliRec
  <2> HIDE DEF d
  <2>7. d \in MetClients(Acq, directs, p)
    BY <1>1, <2>5, MetStays
  <2> QED BY <1>1, <2>3, <2>6, <2>7, HeardMet
<1>3. CASE CliLast(p, CliEnd(cli[p]))
  BY <1>1, <1>3, EndMet, LastMet
<1>4. CASE RequirePolled(p) /\ ~CliLast(p, CliEnd(cli[p]))
  <2>1. CliSends(p, {ConnectMsg(p, Server, cli[p].target)})
    BY <1>4 DEF RequirePolled, CliSends
  <2>2. cli[p].target \in Name /\ Server \in Node
    BY <1>1 DEF GoodClients, CliRec, Node
  <2>3. {ConnectMsg(p, Server, cli[p].target)} \subseteq MetMsgs(Acq)
    BY <2>2, PlainMsgs, PlainMet
  <2> QED BY <2>1, <2>3, SendsMet
<1> QED BY <1>2, <1>3, <1>4

LEMMA DoConnectMet ==
  ASSUME Sound, decided' = decided, NEW p \in Node, DoConnectHears(p) \/ DoConnectPolled(p)
  PROVE  MetInv'
<1>1. /\ cli[p] \in GoodClients(p) /\ cli[p] \in CliRec /\ cli[p].step = "DoConnect"
      /\ cli[p].b \in Node /\ cli[p].sx \in Addr /\ cli[p].rid \in RelayIDs
      /\ cli[p] \in MetClients(Acq, directs, p) /\ ClientsOK /\ ClientsMet
      /\ RelaysMet /\ HistoryMet /\ WireMet /\ dups \in 0..MaxDups
      /\ {} \subseteq MetMsgs(Acq)
  BY DEF Sound, MetInv, WireOK, ClientsOK, ClientsMet, GoodClients, CliRec, DoConnectHears,
         DoConnectPolled
<1>2. <<p, cli[p].b>> \in Acq
  BY <1>1 DEF MetClients
<1>3. PICK e : e = CliAt(cli[p], "MultiSend")
  OBVIOUS
<1>4. e \in CliRec /\ e.step = "MultiSend"
  BY <1>1, <1>3, CliAtFacts DEF CliStep
<1>5. ASSUME NEW i \in {"ESTABLISHED", "ERR_CONNECT_ADDR"}
      PROVE  [e EXCEPT !.to = cli[p].sx, !.info = i, !.direct = NoAddr]
               \in MetClients(Acq, directs, p)
  <2> DEFINE d == [e EXCEPT !.to = cli[p].sx, !.info = i, !.direct = NoAddr]
  <2>1. NoAddr \in Addr
    BY DEF Addr
  <2>2. d \in CliRec /\ d.step = "MultiSend" /\ d.info # "HELLO" /\ d.direct = NoAddr
    BY <1>1, <1>4, <2>1 DEF CliRec
  <2> HIDE DEF d
  <2>3. d \in MetClients(Acq, directs, p)
    BY <2>2 DEF MetClients
  <2> QED BY <2>3 DEF d
<1>6. CASE DoConnectHears(p)
  <2>1. PICK m \in net :
          /\ cli' = [cli EXCEPT ![p] = [e EXCEPT !.to = cli[p].sx, !.info = "ESTABLISHED",
                                                 !.direct = NoAddr]]
          /\ ReadWrite(m, {})
    BY <1>3, <1>6 DEF DoConnectHears, Mail, CliGoes
  <2>2. met' = met \cup {<<p, cli[p].b>>} /\ directs' = directs /\ relays' = relays
    BY <1>6 DEF DoConnectHears
  <2>3. Acq' = Acq
    BY <2>2 DEF Acq
  <2> DEFINE d == [e EXCEPT !.to = cli[p].sx, !.info = "ESTABLISHED", !.direct = NoAddr]
  <2>4. d \in MetClients(Acq', directs', p)
    BY <1>5, <2>2, <2>3
  <2>5. cli' = [cli EXCEPT ![p] = d]
    BY <2>1
  <2> HIDE DEF d
  <2>6. ClientsMet'
    BY <1>1, <2>2, <2>4, <2>5, ClientMovesMet
  <2>7. WireMet'
    BY <1>1, <2>1, <2>3, ReadWriteKeeps DEF WireMet
  <2> QED BY <1>1, <1>2, <2>2, <2>3, <2>6, <2>7 DEF RelaysMet, HistoryMet, MetInv
<1>7. CASE CliSends(p, {HelloMsg(p, cli[p].b, cli[p].rid)})
  <2> DEFINE m == HelloMsg(p, cli[p].b, cli[p].rid)
  <2>1. m \in Msgs /\ m.info = "HELLO" /\ m.from = p /\ m.to = cli[p].b
    BY <1>1 DEF HelloMsg, Msgs
  <2> HIDE DEF m
  <2>2. {m} \subseteq MetMsgs(Acq)
    BY <1>2, <2>1 DEF MetMsgs
  <2> QED BY <1>7, <2>2, SendsMet DEF m
<1>8. CASE CliLast(p, [e EXCEPT !.to = cli[p].sx, !.info = "ERR_CONNECT_ADDR", !.direct = NoAddr])
  BY <1>5, <1>8, LastMet
<1> QED BY <1>3, <1>6, <1>7, <1>8 DEF DoConnectPolled

LEMMA MultiSendMet ==
  ASSUME Sound, decided' = decided, NEW p \in Node, MultiSendPolled(p)
  PROVE  MetInv'
<1>1. /\ cli[p] \in CliRec /\ cli[p].step = "MultiSend"
      /\ cli[p].to \in Addr /\ cli[p].info \in {"HELLO", "ESTABLISHED", "ERR_CONNECT_ADDR"}
      /\ cli[p] \in MetClients(Acq, directs, p) /\ {} \subseteq MetMsgs(Acq)
  BY DEF Sound, MetInv, ClientsOK, ClientsMet, CliRec, MultiSendPolled
<1>2. \A m \in Notice(cli[p], p) : {m} \subseteq MetMsgs(Acq)
  <2>1. CASE cli[p].to = NoAddr
    BY <2>1 DEF Notice
  <2>2. CASE cli[p].to # NoAddr /\ cli[p].info = "HELLO"
    <3>1. cli[p].to \in Node /\ <<p, cli[p].to>> \in Acq
      BY <1>1, <2>2 DEF Addr, MetClients
    <3>2. \A r \in JunkRelayIDs : /\ HelloMsg(p, cli[p].to, r) \in Msgs
                               /\ HelloMsg(p, cli[p].to, r).info = "HELLO"
                               /\ HelloMsg(p, cli[p].to, r).from = p
                               /\ HelloMsg(p, cli[p].to, r).to = cli[p].to
      BY <3>1, BdgClientAssumption DEF HelloMsg, Msgs
    <3>3. \A r \in JunkRelayIDs : HelloMsg(p, cli[p].to, r) \in MetMsgs(Acq)
      BY <3>1, <3>2 DEF MetMsgs
    <3> QED BY <2>2, <3>3 DEF Notice
  <2>3. CASE cli[p].to # NoAddr /\ cli[p].info # "HELLO"
    <3>1. cli[p].to \in Node /\ cli[p].info \in PlainInfo
      BY <1>1, <2>3 DEF Addr, PlainInfo
    <3>2. {Plain(cli[p].info, p, cli[p].to)} \subseteq MetMsgs(Acq)
      BY <3>1, PlainMsgs, PlainMet
    <3> QED BY <2>3, <3>2 DEF Notice
  <2> QED BY <2>1, <2>2, <2>3
<1>3. CASE \E m \in Notice(cli[p], p) : CliSends(p, {m})
  BY <1>2, <1>3, SendsMet
<1>4. CASE CliSends(p, {})
  BY <1>1, <1>4, SendsMet
<1>5. CASE CliLast(p, CliAt(cli[p], "Wait"))
  <2>1. CliAt(cli[p], "Wait") \in MetClients(Acq, directs, p)
    BY <1>1, AtMet DEF CliStep
  <2> QED BY <1>5, <2>1, LastMet
<1> QED BY <1>3, <1>4, <1>5 DEF MultiSendPolled

\* What a command changes: the name to ask for, or the address to connect to,
\* which the command itself introduces.
LEMMA CommandsMet ==
  ASSUME Sound, decided' = decided, NEW p \in Node,
         \/ \E n \in Typed : Connect(p, n) \/ Overwrite(p, n)
         \/ \E q \in Node : Direct(p, q, SubAddrs)
  PROVE  MetInv'
<1>1. /\ cli[p] \in CliRec /\ cli[p] \in MetClients(Acq, directs, p) /\ ClientsOK /\ ClientsMet
      /\ RelaysMet /\ HistoryMet /\ WireMet
  BY DEF Sound, MetInv, ClientsOK, ClientsMet
<1>2. ASSUME directs \subseteq directs', UNCHANGED <<wire, relays, met>>, ClientsMet'
      PROVE  MetInv'
  <2>1. MetMsgs(Acq) \subseteq MetMsgs(Acq')
    BY <1>2, AcqKept
  <2>2. WireMet'
    BY <1>1, <1>2, <2>1 DEF WireMet, wire
  <2> QED BY <1>1, <1>2, <2>2, ClientsStayMet DEF MetInv
<1>3. CASE \E n \in Typed : Connect(p, n) \/ Overwrite(p, n)
  <2>1. PICK n \in Typed : cli' = [cli EXCEPT ![p] = [cli[p] EXCEPT !.target = n]]
    BY <1>3 DEF Connect, Overwrite, CliGoes
  <2>2. directs' = directs /\ UNCHANGED <<wire, relays, met>>
    BY <1>3 DEF Connect, Overwrite
  <2> DEFINE d == [cli[p] EXCEPT !.target = n]
  <2>3. n \in Name
    BY BdgClientAssumption
  <2>4. /\ d \in CliRec /\ d.step = cli[p].step /\ d.direct = cli[p].direct /\ d.b = cli[p].b
        /\ d.to = cli[p].to /\ d.info = cli[p].info
    BY <1>1, <2>3 DEF CliRec
  <2>5. cli' = [cli EXCEPT ![p] = d]
    BY <2>1
  <2> HIDE DEF d
  <2>6. Acq' = Acq
    BY <2>2 DEF Acq
  <2>7. d \in MetClients(Acq', directs', p)
    BY <1>1, <2>2, <2>4, <2>6, MetStays
  <2>8. ClientsMet'
    BY <1>1, <2>2, <2>5, <2>7, ClientMovesMet
  <2> QED BY <1>2, <2>2, <2>8
<1>4. CASE \E q \in Node : Direct(p, q, SubAddrs)
  <2>1. PICK q \in Node : /\ cli' = [cli EXCEPT ![p] = [cli[p] EXCEPT !.direct = q]]
                         /\ directs' = directs \cup {<<p, q>>}
                         /\ UNCHANGED <<wire, relays, met>>
    BY <1>4 DEF Direct, CliGoes
  <2> DEFINE d == [cli[p] EXCEPT !.direct = q]
  <2>2. /\ d \in CliRec /\ d.step = cli[p].step /\ d.direct = q /\ d.b = cli[p].b
        /\ d.to = cli[p].to /\ d.info = cli[p].info
    BY <1>1 DEF CliRec, Addr
  <2>3. cli' = [cli EXCEPT ![p] = d]
    BY <2>1
  <2> HIDE DEF d
  <2>4. cli[p] \in MetClients(Acq', directs', p) /\ <<p, q>> \in directs'
    BY <1>1, <2>1, AcqKept
  <2>5. d \in MetClients(Acq', directs', p)
    BY <2>2, <2>4 DEF MetClients
  <2>6. ClientsMet'
    BY <1>1, <2>1, <2>3, <2>5, ClientMovesMet
  <2> QED BY <1>2, <2>1, <2>6
<1> QED BY <1>3, <1>4

LEMMA StartMet ==
  ASSUME NEW A, NEW U, NEW p \in Node
  PROVE  StartCli(p) \in MetClients(A, U, p)
<1> DEFINE c == StartCli(p)
<1>1. c \in CliRec /\ c.step \notin {"DoConnect", "MultiSend"} /\ c.direct = NoAddr
  <2>1. c \in CliRec
    BY CliStarts DEF GoodClients
  <2>2. c.step \notin {"DoConnect", "MultiSend"} /\ c.direct = NoAddr
    BY DEF StartCli, NewCli
  <2> QED BY <2>1, <2>2
<1> HIDE DEF c
<1>2. c \in MetClients(A, U, p)
  BY <1>1 DEF MetClients
<1> QED BY <1>2 DEF c

LEMMA RestartMet ==
  ASSUME Sound, decided' = decided, NEW p \in Node, CliRestart(p)
  PROVE  MetInv'
<1>1. /\ ClientsOK /\ ClientsMet /\ RelaysMet /\ HistoryMet /\ WireMet
      /\ cli' = [cli EXCEPT ![p] = StartCli(p)] /\ relays' = [relays EXCEPT ![p] = <<>>]
      /\ UNCHANGED <<wire, met, directs>> /\ Acq' = Acq
  BY DEF Sound, MetInv, CliRestart, CliGoes, Acq
<1>2. ClientsMet'
  <2>1. StartCli(p) \in MetClients(Acq', directs', p)
    BY StartMet
  <2> QED BY <1>1, <2>1, ClientMovesMet
<1>3. RelaysMet'
  <2>1. \A k \in Node : relays'[k] = IF k = p THEN <<>> ELSE relays[k]
    BY <1>1 DEF RelaysMet
  <2>2. DOMAIN relays' = Node /\ relays' = [k \in Node |-> relays'[k]]
    BY <1>1 DEF RelaysMet
  <2>3. \A k \in Node : <<>> \in Seq(MetRelays(Acq, k))
    OBVIOUS
  <2> QED BY <1>1, <2>1, <2>2, <2>3 DEF RelaysMet
<1> QED BY <1>1, <1>2, <1>3 DEF HistoryMet, WireMet, MetInv, wire

LEMMA ClientStepKeepsMet ==
  ASSUME Sound, decided' = decided, NEW p \in Node, ClientStep(p)
  PROVE  MetInv'
<1>1. CASE CliHears(p)
  BY <1>1, RegisterMet, WaitMet, WaitHearsHelloMet, RequireMet, DoConnectMet DEF CliHears
<1>2. CASE CliPolled(p)
  BY <1>2, RegisterMet, WaitMet, RequireMet, DoConnectMet, MultiSendMet DEF CliPolled
<1>3. CASE \E i \in DOMAIN relays[p] : RelayEnds(p, i)
  <2>1. PICK i \in DOMAIN relays[p] : RelayEnds(p, i)
    BY <1>3
  <2>2. /\ ClientsMet /\ RelaysMet /\ HistoryMet /\ WireMet
        /\ decided \subseteq decided' /\ directs \subseteq directs'
    BY <2>1 DEF Sound, MetInv, RelayEnds
  <2>3. UNCHANGED <<wire, cli, met>> /\ Acq' = Acq
    BY <2>1 DEF RelayEnds, Acq
  <2>4. ClientsMet' /\ HistoryMet'
    BY <2>2, <2>3, ClientsStayMet
  <2>5. RelaysMet'
    BY <2>1, <2>2, <2>3, RelayEndsMet
  <2> QED BY <2>2, <2>3, <2>4, <2>5 DEF WireMet, MetInv, wire
<1>4. CASE \/ \E n \in Typed : Connect(p, n) \/ Overwrite(p, n)
           \/ \E q \in Node : Direct(p, q, SubAddrs)
  BY <1>4, CommandsMet
<1> QED BY <1>1, <1>2, <1>3, <1>4 DEF ClientStep

LEMMA InitMet ==
  ASSUME Init
  PROVE  MetInv /\ SubsMet
<1>1. WireMet /\ HistoryMet
  BY DEF Init, WireMet, HistoryMet
<1>2. RelaysMet
  <2>1. \A p \in Node : relays[p] = <<>> /\ <<>> \in Seq(MetRelays(Acq, p))
    BY DEF Init
  <2>2. DOMAIN relays = Node /\ relays = [p \in Node |-> relays[p]]
    BY DEF Init
  <2> QED BY <2>1, <2>2 DEF RelaysMet
<1>3. ClientsMet
  <2>1. \A p \in AlreadyUp : Up(p) \in MetClients(Acq, directs, p)
    <3> SUFFICES ASSUME NEW p \in AlreadyUp PROVE Up(p) \in MetClients(Acq, directs, p)
      OBVIOUS
    <3>1. p \in Node
      BY BridgeAssumption DEF Node
    <3>2. PICK c : c = StartCli(p)
      OBVIOUS
    <3>3. c \in CliRec /\ c \in MetClients(Acq, directs, p)
      BY <3>1, <3>2, StartMet DEF MetClients
    <3> DEFINE d == [c EXCEPT !.step = "Wait", !.connected = TRUE, !.first = FALSE]
    <3>4. d \in CliRec /\ d.step = "Wait" /\ d.direct = c.direct
      BY <3>3 DEF CliRec, CliStep
    <3>5. Up(p) = d
      BY <3>2 DEF Up
    <3> HIDE DEF d
    <3> QED BY <3>3, <3>4, <3>5, MetStays
  <2> QED BY <2>1, StartMet DEF Init, ClientsMet
<1>4. SubsMet
  <2>1. \A p \in AlreadyUp : UpSub(p) \in MetSubs(Acq, decided)
    <3> SUFFICES ASSUME NEW p \in AlreadyUp PROVE UpSub(p) \in MetSubs(Acq, decided)
      OBVIOUS
    <3>1. NewSub(p) \in LedSubs /\ NewSub(p) \in SubRec
      BY BridgeAssumption, SubFacts
    <3>2. UpSub(p) \in LedSubs /\ UpSub(p).step = "RequireServer"
      BY <3>1, AtFacts DEF UpSub, SubStep, FreeStep
    <3> QED BY <3>2 DEF MetSubs
  <2>2. \A n \in Registered : \E p \in AlreadyUp : sub[n] = UpSub(p)
    <3> SUFFICES ASSUME NEW n \in Registered PROVE \E p \in AlreadyUp : sub[n] = UpSub(p)
      OBVIOUS
    <3>1. n \in Name /\ sub[n] # NoSub
      BY DEF Registered
    <3>2. \E p \in AlreadyUp : NameOf[p] = n
      BY <3>1 DEF Init
    <3>3. sub[n] = UpSub(CHOOSE p \in AlreadyUp : NameOf[p] = n)
      BY <3>1, <3>2 DEF Init
    <3> QED BY <3>2, <3>3
  <2> QED BY <2>1, <2>2 DEF SubsMet
<1> QED BY <1>1, <1>2, <1>3, <1>4 DEF MetInv

\* The invariant behind OnlyIntroduced.
LEMMA NextMet ==
  ASSUME Sound, SubsOK, SeedsOK, SubsMet, [Next]_vars
  PROVE  MetInv' /\ SubsMet'
<1>1. /\ WireOK /\ ClientsOK /\ ClientsMet /\ RelaysMet /\ HistoryMet /\ WireMet
  BY DEF Sound, MetInv
<1>2. ASSUME UNCHANGED <<sub, decided>>, directs \subseteq directs'
      PROVE  SubsMet'
  <2>1. MetSubs(Acq, decided) \subseteq MetSubs(Acq', decided')
    BY <1>2, AcqKept
  <2> QED BY <1>2, <2>1 DEF SubsMet, Registered
<1>3. CASE ServerStep
  <2>1. cli' = cli /\ relays' = relays /\ met' = met /\ directs' = directs
    BY <1>3 DEF ServerStep, client
  <2>2. WireMet' /\ SubsMet' /\ decided \subseteq decided'
    <3>1. CASE ServerHears
      BY <1>1, <2>1, <3>1, ServerHearsMet
    <3>2. CASE \E n \in Name : SubPolled(n)
      BY <1>1, <2>1, <3>2, SubPolledMet
    <3> QED BY <1>3, <3>1, <3>2 DEF ServerStep
  <2> QED BY <1>1, <2>1, <2>2, ClientsStayMet DEF MetInv
<1>4. ASSUME NEW p \in Node, ClientStep(p)
      PROVE  MetInv' /\ SubsMet'
  <2>1. UNCHANGED <<sub, decided>>
    BY <1>4 DEF ClientStep, server, history
  <2>2. MetInv'
    BY <1>4, <2>1, ClientStepKeepsMet
  <2>3. directs \subseteq directs'
    BY <1>4 DEF ClientStep, CliHears, CliPolled, RegisterHears, RegisterPolled, WaitAnswers,
       WaitHearsEcho, WaitHearsConnectAddr, WaitHearsHello, WaitPolled, RequireHears,
       RequirePolled, DoConnectHears, DoConnectPolled, MultiSendPolled, CliSends, CliLast,
       RelayEnds, Connect, Overwrite, Direct, Same
  <2> QED BY <1>2, <2>1, <2>2, <2>3
<1>5. ASSUME NEW p \in Node, Restart(p)
      PROVE  MetInv' /\ SubsMet'
  <2>1. CliRestart(p) /\ decided' = decided /\ directs' = directs
    BY <1>5 DEF Restart, CliRestart, ServerForgets, server, history
  <2>2. MetInv'
    BY <2>1, RestartMet
  <2>3. SubsMet'
    <3>1. CASE ServerForgets
      BY <3>1 DEF ServerForgets, SubsMet, Registered
    <3>2. CASE UNCHANGED server
      BY <1>2, <2>1, <3>2 DEF server, history
    <3> QED BY <1>5, <3>1, <3>2 DEF Restart
  <2> QED BY <2>2, <2>3
<1>6. CASE UNCHANGED vars
  <2>1. /\ UNCHANGED <<wire, cli, relays, met, sub>>
        /\ decided' = decided /\ directs' = directs
    BY <1>6 DEF vars, client, server, history
  <2>2. ClientsMet' /\ RelaysMet' /\ HistoryMet' /\ SubsMet'
    BY <1>1, <1>2, <2>1, ClientsStayMet
  <2>3. Acq' = Acq
    BY <2>1 DEF Acq
  <2> QED BY <1>1, <2>1, <2>2, <2>3 DEF WireMet, MetInv, wire
<1> QED BY <1>3, <1>4, <1>5, <1>6 DEF Next, KeepAlive

LEMMA AlwaysMet == Spec => [](MetInv /\ SubsMet)
<1> DEFINE Inv == (WireOK /\ SubsOK /\ SeedsOK /\ ClientsOK) /\ (MetInv /\ SubsMet)
<1>1. Init => Inv
  BY InitKept, InitMet
<1>2. Inv /\ [Next]_vars => Inv'
  BY NextKept, NextMet DEF Sound
<1>3. Inv => MetInv /\ SubsMet
  OBVIOUS
<1> QED BY <1>1, <1>2, <1>3, PTL DEF Spec

\* Nobody is connected to a stranger: for every session and every side of a
\* relay the server has decided to bring the two together, or one of them was
\* told to connect the other, however messages are lost, late or repeated and
\* whoever is restarted meanwhile.
THEOREM NoStrangers == Spec => []OnlyIntroduced
<1>1. MetInv => OnlyIntroduced
  <2> SUFFICES ASSUME MetInv PROVE OnlyIntroduced
    OBVIOUS
  <2>1. \A x, y : <<x, y>> \in Acq => Introduced(x, y)
    BY DEF Acq, AcqOf, Introduced
  <2>2. \A pq \in met : Introduced(pq[1], pq[2])
    <3> SUFFICES ASSUME NEW pq \in met PROVE Introduced(pq[1], pq[2])
      OBVIOUS
    <3>1. pq \in Acq /\ pq \in Node \X Node
      BY DEF MetInv, HistoryMet, Acq, AcqOf
    <3>2. pq = <<pq[1], pq[2]>>
      BY <3>1
    <3> QED BY <2>1, <3>1, <3>2
  <2>3. ASSUME NEW p \in Node, NEW i \in DOMAIN relays[p],
               NEW q \in {relays[p][i].peer0, relays[p][i].peer1} \ {NoAddr}
        PROVE  Introduced(p, q)
    <3>1. relays[p][i] \in MetRelays(Acq, p)
      BY ElementOfSeq, LenProperties DEF MetInv, RelaysMet
    <3> QED BY <2>1, <3>1 DEF MetRelays
  <2> QED BY <2>2, <2>3 DEF OnlyIntroduced
<1> QED BY <1>1, AlwaysMet, PTL

(***************************************************************************)
(* What is done is what was told.  Messages carry no number of the request *)
(* they belong to, so a report is only known to answer one of the orders   *)
(* its sender was given.                                                   *)
(***************************************************************************)

\* The decision d tells x to connect to y.
Leads(d, x, y) ==
  IF d[3] = NoAddr
  THEN IF NATOf[d[1]] < NATOf[d[2]] THEN x = d[2] /\ y = d[1] ELSE x = d[1] /\ y = d[2]
  ELSE x \in {d[1], d[2]} /\ y = d[3]

Told(D, x, y) == \E d \in D : Leads(d, x, y)

\* x has reached one of those it was told to connect to.
Reached(D, M, x) == \E y \in Node : <<x, y>> \in M /\ Told(D, x, y)

\* The seed q relays for x under the number r.
Numbered(D, q, x, r) == \E d \in D : d[3] = q /\ d[4] = r /\ x \in {d[1], d[2]}

\* CONNECT_ADDR tells what was decided, ESTABLISHED that it was done once, and
\* a HELLO with a number comes from a side of the request of that number.
ToldMsgs(D, M) == {m \in Msgs :
  /\ m.info = "CONNECT_ADDR" => Told(D, m.to, m.addr)
                                /\ (m.rid # 0 => Numbered(D, m.addr, m.to, m.rid))
  /\ m.info = "ESTABLISHED" => Reached(D, M, m.from)
  /\ m.info = "HELLO" => m.rid \in JunkRelayIDs \cup {0} \/ Numbered(D, m.to, m.from, m.rid)}

Leading == {"Punching", "ConnectAddr", "Decision"}
Made    == {"DIRECT", "A_SIDE_RELAY", "B_SIDE_RELAY"}

\* A sub server leads one side at a time to where the decision has it go, and
\* goes on when that side, and before it the other, has reported.
ToldSubs(D, M) == {d \in LedSubs :
  /\ d.step \in {"Punching", "ConnectAddr"} =>
       Told(D, d.con, d.pun) /\ (d.rid # 0 => Numbered(D, d.pun, d.con, d.rid))
  /\ d.step \in Leading /\ d.flag \in Made => Decided(d) \in D
  /\ d.step \in Leading /\ d.flag \in Made =>
       \A x, y \in Node : Leads(Decided(d), x, y) =>
          x = d.con \/ Reached(D, M, x) \/ (d.flag = "A_SIDE_RELAY" /\ x = d.b)
  /\ d.step = "Decision" /\ d.flag \in Made => Reached(D, M, d.con)}

\* A client that has somebody to report to was told, and reports what it did.
ToldClients(D, M, p) == {c \in CliRec :
  /\ c.step = "DoConnect" /\ c.sx # NoAddr => Told(D, p, c.b)
  /\ c.step = "DoConnect" /\ c.rid # 0 => Numbered(D, c.b, p, c.rid)
  /\ c.step = "MultiSend" /\ c.info = "ESTABLISHED" /\ c.to # NoAddr => Reached(D, M, p)}

ToldRelays(D, p) == {r \in RelayRec :
  r.id \notin JunkRelayIDs =>
    \A q \in {r.peer0, r.peer1} \ {NoAddr} : Numbered(D, p, q, r.id)}

DecidedOK ==
  /\ decided \subseteq Peer \X Peer \X (Peer \cup {NoAddr}) \X (0..MaxRelayID)
  /\ \A d \in decided : d[3] # NoAddr => d[4] # 0

WireTold    == net \subseteq ToldMsgs(decided, met)
SubsTold    == \A n \in Registered : sub[n] \in ToldSubs(decided, met)
ClientsTold == \A p \in Node : cli[p] \in ToldClients(decided, met, p)
RelaysTold  == /\ DOMAIN relays = Node
               /\ relays = [p \in Node |-> relays[p]]
               /\ \A p \in Node : relays[p] \in Seq(ToldRelays(decided, p))
BridgedTold == \A d \in bridged : /\ d \in decided
                                  /\ \A x, y \in Node : Leads(d, x, y) => Reached(decided, met, x)

ToldInv == /\ DecidedOK /\ WireTold /\ SubsTold /\ ClientsTold /\ RelaysTold /\ BridgedTold

\* What has been told and reached stays so.
LEMMA ToldGrows ==
  ASSUME NEW D, NEW E, D \subseteq E, NEW M, NEW N, M \subseteq N
  PROVE  /\ ToldMsgs(D, M) \subseteq ToldMsgs(E, N) /\ ToldSubs(D, M) \subseteq ToldSubs(E, N)
         /\ \A p : ToldClients(D, M, p) \subseteq ToldClients(E, N, p)
         /\ \A p : ToldRelays(D, p) \subseteq ToldRelays(E, p)
         /\ \A x : Reached(D, M, x) => Reached(E, N, x)
<1>1. /\ \A x, y : Told(D, x, y) => Told(E, x, y)
      /\ \A q, x, r : Numbered(D, q, x, r) => Numbered(E, q, x, r)
  BY DEF Told, Numbered
<1>2. \A x : Reached(D, M, x) => Reached(E, N, x)
  BY <1>1 DEF Reached
<1>3. ToldMsgs(D, M) \subseteq ToldMsgs(E, N)
  BY <1>1, <1>2 DEF ToldMsgs
<1>4. ToldSubs(D, M) \subseteq ToldSubs(E, N)
  BY <1>1, <1>2 DEF ToldSubs
<1>5. \A p : ToldClients(D, M, p) \subseteq ToldClients(E, N, p)
  BY <1>1, <1>2 DEF ToldClients
<1>6. \A p : ToldRelays(D, p) \subseteq ToldRelays(E, p)
  BY <1>1 DEF ToldRelays
<1> QED BY <1>2, <1>3, <1>4, <1>5, <1>6

LEMMA ToldKept ==
  ASSUME decided \subseteq decided', met \subseteq met'
  PROVE  /\ ToldMsgs(decided, met) \subseteq ToldMsgs(decided', met')
         /\ ToldSubs(decided, met) \subseteq ToldSubs(decided', met')
         /\ \A p : ToldClients(decided, met, p) \subseteq ToldClients(decided', met', p)
         /\ \A p : ToldRelays(decided, p) \subseteq ToldRelays(decided', p)
         /\ \A x : Reached(decided, met, x) => Reached(decided', met', x)
  BY ToldGrows

LEMMA StayTold ==
  ASSUME ToldInv, decided \subseteq decided', met \subseteq met'
  PROVE  /\ UNCHANGED net => WireTold'
         /\ UNCHANGED sub => SubsTold'
         /\ UNCHANGED cli => ClientsTold'
         /\ UNCHANGED relays => RelaysTold'
         /\ UNCHANGED bridged => BridgedTold'
<1>1. UNCHANGED net => WireTold'
  BY ToldKept DEF ToldInv, WireTold
<1>2. UNCHANGED sub => SubsTold'
  BY ToldKept DEF ToldInv, SubsTold, Registered
<1>3. UNCHANGED cli => ClientsTold'
  BY ToldKept DEF ToldInv, ClientsTold
<1>4. UNCHANGED relays => RelaysTold'
  BY ToldKept, SeqMonotonic DEF ToldInv, RelaysTold
<1>5. UNCHANGED bridged => BridgedTold'
  BY ToldKept DEF ToldInv, BridgedTold
<1> QED BY <1>1, <1>2, <1>3, <1>4, <1>5

\* Messages that carry no order, no report and no number.
IdleMsgs == {m \in Msgs :
  /\ m.info \notin {"CONNECT_ADDR", "ESTABLISHED"}
  /\ m.info = "HELLO" => m.rid \in JunkRelayIDs \cup {0}}

LEMMA IdleTold ==
  ASSUME NEW D, NEW M
  PROVE  IdleMsgs \subseteq ToldMsgs(D, M)
  BY DEF IdleMsgs, ToldMsgs

LEMMA PlainIdle ==
  ASSUME NEW p \in Node, NEW q \in Node
  PROVE  /\ \A i \in PlainInfo \ {"ESTABLISHED"} : {Plain(i, p, q)} \subseteq IdleMsgs
         /\ \A r \in Nat : {WaitingMsg(p, q, r)} \subseteq IdleMsgs
         /\ \A n \in Name : {ConnectMsg(p, q, n)} \subseteq IdleMsgs
         /\ \A a \in Node : {PunchingMsg(p, q, a)} \subseteq IdleMsgs
<1>1. \A i \in PlainInfo \ {"ESTABLISHED"} : {Plain(i, p, q)} \subseteq IdleMsgs
  <2>1. \A i \in PlainInfo : Plain(i, p, q) \in Msgs /\ Plain(i, p, q).info = i
    BY PlainMsgs DEF Plain
  <2> QED BY <2>1 DEF IdleMsgs, PlainInfo
<1>2. \A r \in Nat : {WaitingMsg(p, q, r)} \subseteq IdleMsgs
  BY PlainMsgs DEF IdleMsgs, WaitingMsg
<1>3. \A n \in Name : {ConnectMsg(p, q, n)} \subseteq IdleMsgs
  BY PlainMsgs DEF IdleMsgs, ConnectMsg
<1>4. \A a \in Node : {PunchingMsg(p, q, a)} \subseteq IdleMsgs
  BY PlainMsgs DEF IdleMsgs, PunchingMsg
<1> QED BY <1>1, <1>2, <1>3, <1>4

LEMMA SubMovesTold ==
  ASSUME SubsOK, ToldInv, decided \subseteq decided', met' = met,
         NEW n \in Registered, NEW d, d \in ToldSubs(decided', met'), sub' = [sub EXCEPT ![n] = d]
  PROVE  SubsTold'
<1>1. \A k \in Name \ {n} : sub'[k] = sub[k]
  BY DEF SubsOK
<1>2. sub'[n] = d
  BY DEF SubsOK, Registered
<1>3. \A k \in Registered : sub[k] \in ToldSubs(decided', met')
  BY ToldKept DEF SubsTold, ToldInv
<1> QED BY <1>1, <1>2, <1>3 DEF SubsTold, Registered

\* A sub server goes on by a report of the one it leads, who has done then
\* what it was told, once at least.
LEMMA SubHearsTold ==
  ASSUME SubsOK, NEW D, NEW M, NEW d \in ToldSubs(D, M), NEW m \in ToldMsgs(D, M)
  PROVE  SubHears(d, m) \in ToldSubs(D, M)
<1>1. PICK e : e = SubHears(d, m)
  OBVIOUS
<1>2. d \in LedSubs /\ d \in SubRec /\ e \in LedSubs
  BY <1>1, SubHearsOK DEF ToldSubs, LedSubs
<1>3. \A s \in FreeStep : At(d, s).step = s
  BY <1>2, AtFacts DEF FreeStep, SubStep
<1>4. CASE d.step \in {"Begin", "RequireServer", "ErrReturn"}
  <2>1. e = d \/ e.step \in {"RequireServer", "RequireReply"}
    <3>1. CASE d.step = "RequireServer"
      <4> DEFINE bb == IF m.name \in Registered THEN sub[m.name].a ELSE NoAddr
      <4>1. PICK f : f = At(d, "RequireReply")
        OBVIOUS
      <4>2. f \in SubRec /\ f.step = "RequireReply"
        BY <1>2, <4>1, AtFacts DEF SubStep
      <4> HIDE DEF bb
      <4>3. [f EXCEPT !.b = bb].step = "RequireReply"
        BY <4>2 DEF SubRec
      <4> QED BY <1>1, <1>3, <3>1, <4>1, <4>3 DEF SubHears, RequireServerHears, FreeStep, bb
    <3>2. CASE d.step \in {"Begin", "ErrReturn"}
      BY <1>1, <1>3, <3>2 DEF SubHears, BeginHears, ErrReturnHears, FreeStep
    <3> QED BY <1>4, <3>1, <3>2
  <2> QED BY <1>1, <1>2, <2>1 DEF ToldSubs, Leading
<1>5. CASE d.step = "RequireReply"
  <2>1. PICK f : f = At(d, "Decision")
    OBVIOUS
  <2>2. [f EXCEPT !.flag = "BEGIN"].flag = "BEGIN" /\ [f EXCEPT !.flag = "BEGIN"].step = "Decision"
    BY <1>2, <2>1, AtFacts DEF SubRec, SubStep
  <2>3. e = d \/ e.step = "RequireServer" \/ (e.step = "Decision" /\ e.flag = "BEGIN")
    BY <1>1, <1>3, <1>5, <2>1, <2>2 DEF SubHears, RequireReplyHears, FreeStep
  <2> QED BY <1>1, <1>2, <2>3 DEF ToldSubs, Leading, Made
<1>6. CASE d.step \in {"Punching", "ConnectAddr"}
  <2> DEFINE f == At(d, IF d.step = "Punching" THEN "ConnectAddr" ELSE "Decision")
  <2>1. e = d \/ (e = f /\ (d.step = "ConnectAddr" => Reached(D, M, d.con)))
    BY <1>1, <1>6 DEF SubHears, PunchingHears, ConnectAddrHears, ToldMsgs
  <2>2. /\ f.a = d.a /\ f.b = d.b /\ f.s = d.s /\ f.rid = d.rid
        /\ f.flag = d.flag /\ f.con = d.con /\ f.pun = d.pun
        /\ f.step = IF d.step = "Punching" THEN "ConnectAddr" ELSE "Decision"
    BY <1>2, <1>6, AtFacts DEF SubStep
  <2>3. Decided(f) = Decided(d)
    BY <2>2 DEF Decided
  <2> HIDE DEF f
  <2>4. CASE e = f /\ (d.step = "ConnectAddr" => Reached(D, M, d.con))
    <3>1. e.step \in {"Punching", "ConnectAddr"} =>
            Told(D, e.con, e.pun) /\ (e.rid # 0 => Numbered(D, e.pun, e.con, e.rid))
      BY <1>6, <2>2, <2>4 DEF ToldSubs
    <3>2. e.flag \in Made => Decided(e) \in D
      BY <1>6, <2>2, <2>3, <2>4 DEF ToldSubs, Leading
    <3>3. e.flag \in Made => \A x, y \in Node : Leads(Decided(e), x, y) =>
             x = e.con \/ Reached(D, M, x) \/ (e.flag = "A_SIDE_RELAY" /\ x = e.b)
      BY <1>6, <2>2, <2>3, <2>4 DEF ToldSubs, Leading
    <3>4. e.step = "Decision" => Reached(D, M, e.con)
      BY <1>6, <2>2, <2>4
    <3> QED BY <1>1, <1>2, <3>1, <3>2, <3>3, <3>4 DEF ToldSubs
  <2> QED BY <1>1, <2>1, <2>4
<1>7. CASE d.step = "Decision"
  BY <1>1, <1>7 DEF SubHears
<1>8. d.step \in SubStep
  BY <1>2 DEF SubRec
<1> QED BY <1>4, <1>5, <1>6, <1>7, <1>8 DEF SubStep

LEMMA ServerHearsTold ==
  ASSUME WireOK, SubsOK, SeedsOK, ToldInv, ServerHears, met' = met
  PROVE  WireTold' /\ SubsTold' /\ decided' = decided /\ bridged' = bridged
<1>1. ASSUME NEW m \in net, m.info = "REGISTER", Register(m)
      PROVE  WireTold' /\ SubsTold' /\ decided' = decided /\ bridged' = bridged
  <2>1. m.from \in Peer /\ m.from \in Node /\ m.name \in Name /\ Server \in Node
    BY <1>1, MsgFields DEF WireOK, Node
  <2>2. decided' = decided /\ bridged' = bridged
    BY <1>1 DEF Register, server, history
  <2>3. PICK S : S \subseteq ToldMsgs(decided, met) /\ ReadWrite(m, S)
    <3>1. /\ {Plain("NAMEID_EXIST", Server, m.from)} \subseteq ToldMsgs(decided, met)
          /\ {} \subseteq ToldMsgs(decided, met)
      BY <2>1, PlainIdle, IdleTold DEF PlainInfo
    <3> QED BY <1>1, <3>1 DEF Register
  <2>4. WireTold'
    BY <2>2, <2>3, ReadWriteKeeps DEF ToldInv, WireTold, WireOK
  <2>5. CASE m.name \in Registered
    <3>1. sub' = sub
      BY <1>1, <2>5 DEF Register, server
    <3> QED BY <2>2, <2>4, <3>1, StayTold
  <2>6. CASE m.name \notin Registered
    <3>1. sub' = [sub EXCEPT ![m.name] = NewSub(m.from)]
      BY <1>1, <2>6 DEF Register, SubGoes
    <3>2. NewSub(m.from) \in ToldSubs(decided, met)
      <4>1. NewSub(m.from) \in LedSubs /\ NewSub(m.from).step = "Begin"
        BY <2>1, SubFacts DEF NewSub
      <4> QED BY <4>1 DEF ToldSubs, Leading
    <3>3. \A k \in Name : sub'[k] = IF k = m.name THEN NewSub(m.from) ELSE sub[k]
      BY <2>1, <3>1 DEF SubsOK
    <3> QED BY <2>2, <2>4, <3>2, <3>3 DEF ToldInv, SubsTold, Registered
  <2> QED BY <2>5, <2>6
<1>2. ASSUME NEW m \in net, SubsHear(m)
      PROVE  WireTold' /\ SubsTold' /\ decided' = decided /\ bridged' = bridged
  <2>1. decided' = decided /\ bridged' = bridged
    BY <1>2 DEF SubsHear, history
  <2>2. PICK S : S \subseteq ToldMsgs(decided, met) /\ ReadWrite(m, S)
    <3>1. m.from \in Node /\ Server \in Node
      BY MsgFields DEF WireOK, Node
    <3>2. /\ {Plain("ECHO", Server, m.from)} \subseteq ToldMsgs(decided, met)
          /\ {} \subseteq ToldMsgs(decided, met)
      BY <3>1, PlainIdle, IdleTold DEF PlainInfo
    <3> QED BY <1>2, <3>2 DEF SubsHear
  <2>3. WireTold'
    BY <2>1, <2>2, ReadWriteKeeps DEF ToldInv, WireTold, WireOK
  <2>4. \A n \in Name : sub'[n] = SubHears(sub[n], m)
    BY <1>2 DEF SubsHear
  <2>5. SubHears(NoSub, m) = NoSub
    BY DEF SubHears, NoSub
  <2>6. \A n \in Registered' : n \in Registered
    BY <2>4, <2>5 DEF Registered
  <2>7. m \in ToldMsgs(decided, met) /\ \A n \in Registered : sub[n] \in ToldSubs(decided, met)
    BY DEF ToldInv, WireTold, SubsTold
  <2>8. \A n \in Registered : SubHears(sub[n], m) \in ToldSubs(decided, met)
    BY <2>7, SubHearsTold
  <2>9. SubsTold'
    BY <2>1, <2>4, <2>6, <2>8 DEF SubsTold, Registered
  <2> QED BY <2>1, <2>3, <2>9
<1> QED BY <1>1, <1>2 DEF ServerHears, Mail

LEMMA SubSendsTold ==
  ASSUME WireOK, SubsOK, ToldInv, met' = met, NEW n \in Registered,
         NEW S, S \subseteq ToldMsgs(decided, met), SubSends(n, S)
  PROVE  WireTold' /\ SubsTold' /\ decided' = decided /\ bridged' = bridged
<1>1. decided' = decided /\ bridged' = bridged
  BY DEF SubSends, history
<1>2. WireTold'
  BY <1>1, WriteKeeps DEF SubSends, ToldInv, WireTold
<1>3. sub[n] \in ToldSubs(decided, met) /\ sub[n] \in LedSubs /\ sub[n] \in SubRec
  BY DEF ToldInv, SubsTold, ToldSubs, LedSubs
<1>4. sub' = [sub EXCEPT ![n] = SubCharge(n)]
  BY DEF SubSends, SubGoes
<1>5. PICK d : d = SubCharge(n)
  OBVIOUS
<1>6. d \in LedSubs
  BY <1>3, <1>5, SubCharges DEF SubSends
<1>7. /\ d.a = sub[n].a /\ d.b = sub[n].b /\ d.s = sub[n].s
      /\ d.pun = sub[n].pun /\ d.con = sub[n].con
      /\ d.flag = sub[n].flag /\ d.rid = sub[n].rid /\ d.step = sub[n].step
  BY <1>3, <1>5 DEF SubCharge, SubRec
<1>8. Decided(d) = Decided(sub[n])
  BY <1>7 DEF Decided
<1>9. d \in ToldSubs(decided, met)
  BY <1>3, <1>6, <1>7, <1>8 DEF ToldSubs
<1>10. SubsTold'
  BY <1>1, <1>4, <1>5, <1>9, SubMovesTold
<1> QED BY <1>1, <1>2, <1>10

LEMMA SubGivesUpTold ==
  ASSUME SubsOK, ToldInv, met' = met, NEW n \in Registered,
         NEW d, d \in ToldSubs(decided, met), SubGivesUp(n, d)
  PROVE  WireTold' /\ SubsTold' /\ decided' = decided /\ bridged' = bridged
<1>1. decided' = decided /\ bridged' = bridged /\ net' = net /\ sub' = [sub EXCEPT ![n] = d]
  BY DEF SubGivesUp, SubGoes, history, wire
<1>2. d \in ToldSubs(decided', met') /\ decided \subseteq decided'
  BY <1>1
<1>3. SubsTold'
  BY <1>1, <1>2, SubMovesTold
<1> QED BY <1>1, <1>3, StayTold

LEMMA SubEndsTold ==
  ASSUME SubsOK, ToldInv, met' = met, NEW n \in Registered, SubEnds(n)
  PROVE  WireTold' /\ SubsTold' /\ decided' = decided /\ bridged' = bridged
<1>1. decided' = decided /\ bridged' = bridged /\ net' = net /\ sub' = [sub EXCEPT ![n] = NoSub]
  BY DEF SubEnds, history, wire
<1>2. \A k \in Registered' : k \in Registered /\ sub'[k] = sub[k]
  BY <1>1 DEF SubsOK, Registered
<1> QED BY <1>1, <1>2, StayTold DEF ToldInv, SubsTold

\* What a decision tells: the two sides of a relayed one to connect to the
\* seed, the one that can reach less of a direct one to connect to the other.
LEMMA DecidedTells ==
  ASSUME NEW D, NEW a \in Peer, NEW b \in Peer
  PROVE  /\ \A s \in Peer : \A r : <<a, b, s, r>> \in D =>
              /\ Told(D, a, s) /\ Told(D, b, s) /\ Numbered(D, s, a, r) /\ Numbered(D, s, b, r)
         /\ \A s \in Peer : \A r, x, y : Leads(<<a, b, s, r>>, x, y) => x \in {a, b}
         /\ \A r, x, y : Leads(<<a, b, NoAddr, r>>, x, y) <=>
              IF NATOf[a] < NATOf[b] THEN x = b /\ y = a ELSE x = a /\ y = b
<1>1. NoAddr \notin Peer
  BY BdgMsgAssumption DEF Node
<1>2. \A s \in Peer : \A r, x, y : Leads(<<a, b, s, r>>, x, y) <=> x \in {a, b} /\ y = s
  BY <1>1 DEF Leads
<1>3. \A s \in Peer : \A r : <<a, b, s, r>> \in D => Told(D, a, s) /\ Told(D, b, s)
  BY <1>2 DEF Told
<1>4. \A s \in Peer : \A r : <<a, b, s, r>> \in D => Numbered(D, s, a, r) /\ Numbered(D, s, b, r)
  <2> SUFFICES ASSUME NEW s \in Peer, NEW r, <<a, b, s, r>> \in D
               PROVE  Numbered(D, s, a, r) /\ Numbered(D, s, b, r)
    OBVIOUS
  <2>1. PICK d \in D : d = <<a, b, s, r>>
    OBVIOUS
  <2>2. d[3] = s /\ d[4] = r /\ d[1] = a /\ d[2] = b
    BY <2>1
  <2> QED BY <2>2 DEF Numbered
<1>5. \A r, x, y : Leads(<<a, b, NoAddr, r>>, x, y) <=>
        IF NATOf[a] < NATOf[b] THEN x = b /\ y = a ELSE x = a /\ y = b
  BY DEF Leads
<1> QED BY <1>2, <1>3, <1>4, <1>5

\* One more decision is one more order.
LEMMA DecidedMore ==
  ASSUME DecidedOK, NEW a \in Peer, NEW b \in Peer, NEW s \in Peer \cup {NoAddr},
         NEW r \in 0..MaxRelayID, s # NoAddr => r # 0,
         decided' = decided \cup {<<a, b, s, r>>}
  PROVE  DecidedOK' /\ decided \subseteq decided' /\ <<a, b, s, r>> \in decided'
<1>1. decided' \subseteq Peer \X Peer \X (Peer \cup {NoAddr}) \X (0..MaxRelayID)
  BY DEF DecidedOK
<1>2. \A d \in decided' : d[3] # NoAddr => d[4] # 0
  <2>1. <<a, b, s, r>>[3] = s /\ <<a, b, s, r>>[4] = r
    OBVIOUS
  <2> QED BY <2>1 DEF DecidedOK
<1> QED BY <1>1, <1>2 DEF DecidedOK

\* A decision gives the first order; the report of the first side the second;
\* and that of the last is all there is to do.
LEMMA DecisionTold ==
  ASSUME SubsOK, SeedsOK, ToldInv, met' = met, NEW n \in Registered, Decision(n)
  PROVE  /\ WireTold' /\ SubsTold' /\ DecidedOK' /\ BridgedTold' /\ decided \subseteq decided'
<1>1. PICK x : x = sub[n]
  OBVIOUS
<1>2. /\ x \in ToldSubs(decided, met) /\ x \in LedSubs /\ x \in SubRec
      /\ x.step = "Decision" /\ net' = net
  BY <1>1 DEF ToldInv, SubsTold, ToldSubs, LedSubs, Decision, SubAt, wire
<1>3. PICK p, e : p = At(x, "Punching") /\ e = At(x, "ErrReturn")
  OBVIOUS
<1>4. /\ p \in SubRec /\ p.a = x.a /\ p.b = x.b /\ p.s = x.s
      /\ p.step = "Punching" /\ p.rid = x.rid
      /\ e \in SubRec /\ e.step = "ErrReturn"
      /\ At(x, "RequireServer") \in LedSubs /\ At(x, "RequireServer").step = "RequireServer"
  BY <1>2, <1>3, AtFacts DEF SubStep, FreeStep
<1>5. /\ x.a \in Peer /\ x.b \in Peer \cup {NoAddr} /\ x.s \in Peer \cup {NoAddr}
      /\ x.rid \in 0..MaxRelayID
  BY <1>2 DEF SubRec
<1>6. /\ accRelayID \in 0..MaxRelayID /\ accRelayID # 0 /\ 0 \in 0..MaxRelayID
      /\ Peer \subseteq Node /\ NoAddr \notin Peer
  BY BdgServerAssumption, BdgMsgAssumption DEF SubsOK, Node
<1>7. /\ x.flag = "BEGIN" => x.b \in Peer
      /\ x.flag = "A_SIDE_RELAY" => x.b \in Peer /\ x.s \in Peer /\ x.rid # 0
  BY <1>2 DEF LedSubs
<1>8. /\ x.flag \in Made => Decided(x) \in decided /\ Reached(decided, met, x.con)
      /\ x.flag \in Made => \A y, z \in Node : Leads(Decided(x), y, z) =>
           Reached(decided, met, y) \/ (x.flag = "A_SIDE_RELAY" /\ y = x.b)
  BY <1>2 DEF ToldSubs, Leading
<1>9. ASSUME decided \subseteq decided', DecidedOK', BridgedTold',
             NEW d, d \in ToldSubs(decided', met'), sub' = [sub EXCEPT ![n] = d]
      PROVE  WireTold' /\ SubsTold' /\ DecidedOK' /\ BridgedTold' /\ decided \subseteq decided'
  <2>1. SubsTold'
    BY <1>9, SubMovesTold
  <2> QED BY <1>2, <1>9, <2>1, StayTold
<1>10. /\ bridged' = bridged /\ decided \subseteq decided' => BridgedTold'
       /\ decided' = decided => DecidedOK'
  BY StayTold DEF ToldInv, DecidedOK
<1>11. CASE DecideRelay(n)
  <2>1. PICK q : q = SeedPeerSelectOne
    OBVIOUS
  <2>2. q \in Peer /\ x.b \in Peer
    BY <1>1, <1>7, <1>11, <2>1, SeedSelected DEF DecideRelay
  <2> DEFINE d == [p EXCEPT !.s = q, !.pun = q, !.con = x.a,
                            !.flag = "A_SIDE_RELAY", !.rid = accRelayID]
  <2>3. sub' = [sub EXCEPT ![n] = d] /\ decided' = decided \cup {Decided(d)} /\ bridged' = bridged
    BY <1>1, <1>3, <1>11, <2>1 DEF DecideRelay, SubGoes
  <2>4. d \in SubRec
    BY <1>4, <1>5, <1>6, <2>2 DEF SubRec, Flag
  <2>5. /\ d.a = x.a /\ d.b = x.b /\ d.s = q /\ d.pun = q /\ d.con = x.a
        /\ d.flag = "A_SIDE_RELAY" /\ d.rid = accRelayID /\ d.step = "Punching"
    BY <1>4 DEF SubRec
  <2> HIDE DEF d
  <2>6. d \in LedSubs
    BY <1>5, <1>6, <2>2, <2>4, <2>5 DEF LedSubs
  <2>7. Decided(d) = <<x.a, x.b, q, accRelayID>>
    BY <1>6, <2>5 DEF Decided
  <2>8. /\ decided' = decided \cup {<<x.a, x.b, q, accRelayID>>}
        /\ q \in Peer \cup {NoAddr} /\ q # NoAddr => accRelayID # 0
        /\ DecidedOK
    BY <1>6, <2>2, <2>3, <2>7 DEF ToldInv
  <2>9. DecidedOK' /\ decided \subseteq decided' /\ <<x.a, x.b, q, accRelayID>> \in decided'
    BY <1>5, <1>6, <2>2, <2>8, DecidedMore
  <2>10. Told(decided', x.a, q) /\ Numbered(decided', q, x.a, accRelayID)
    BY <1>5, <2>2, <2>9, DecidedTells
  <2>11. \A y, z \in Node : Leads(Decided(d), y, z) => y = d.con \/ y = d.b
    BY <1>5, <2>2, <2>5, <2>7, DecidedTells
  <2>12. d \in ToldSubs(decided', met')
    BY <2>5, <2>6, <2>7, <2>9, <2>10, <2>11 DEF ToldSubs
  <2> QED BY <1>9, <1>10, <2>3, <2>9, <2>12
<1>12. CASE DecideNoSeed(n)
  <2> DEFINE d == [e EXCEPT !.err = "NO_SEED_TO_RELAY"]
  <2>1. d \in SubRec /\ d.step = "ErrReturn"
    BY <1>4 DEF SubRec, SubErr
  <2>2. sub' = [sub EXCEPT ![n] = d] /\ decided' = decided /\ bridged' = bridged
    BY <1>1, <1>3, <1>12 DEF DecideNoSeed, SubGoes
  <2> HIDE DEF d
  <2>3. d \in ToldSubs(decided', met')
    BY <2>1 DEF LedSubs, ToldSubs, Leading
  <2> QED BY <1>9, <1>10, <2>2, <2>3
<1>13. CASE DecideDirect(n)
  <2> DEFINE aFirst == NATOf[x.a] < NATOf[x.b]
             y == IF aFirst THEN x.a ELSE x.b
             z == IF aFirst THEN x.b ELSE x.a
             d == [p EXCEPT !.pun = y, !.con = z, !.flag = "DIRECT", !.rid = 0]
  <2>1. x.b \in Peer
    BY <1>1, <1>7, <1>13 DEF DecideDirect
  <2>2. \A u, v : Leads(<<x.a, x.b, NoAddr, 0>>, u, v) <=> u = z /\ v = y
    BY <1>5, <2>1, DecidedTells
  <2>3. /\ sub' = [sub EXCEPT ![n] = d] /\ decided' = decided \cup {Decided(d)}
        /\ bridged' = bridged /\ y \in Peer /\ z \in Peer
    BY <1>1, <1>3, <1>5, <1>13, <2>1 DEF DecideDirect, SubGoes
  <2> HIDE DEF y, z
  <2>4. d \in SubRec
    BY <1>4, <1>6, <2>3 DEF SubRec, Flag
  <2>5. /\ d.a = x.a /\ d.b = x.b /\ d.pun = y /\ d.con = z /\ d.flag = "DIRECT"
        /\ d.rid = 0 /\ d.step = "Punching"
    BY <1>4 DEF SubRec
  <2> HIDE DEF d
  <2>6. Decided(d) = <<x.a, x.b, NoAddr, 0>>
    BY <2>5 DEF Decided
  <2>7. d \in LedSubs
    BY <2>3, <2>4, <2>5 DEF LedSubs
  <2>8. /\ decided' = decided \cup {<<x.a, x.b, NoAddr, 0>>} /\ DecidedOK
        /\ NoAddr \in Peer \cup {NoAddr} /\ NoAddr # NoAddr => 0 # 0
    BY <2>3, <2>6 DEF ToldInv
  <2>9. DecidedOK' /\ decided \subseteq decided' /\ <<x.a, x.b, NoAddr, 0>> \in decided'
    BY <1>5, <1>6, <2>1, <2>8, DecidedMore
  <2>10. Told(decided', d.con, d.pun)
    BY <2>2, <2>5, <2>9 DEF Told
  <2>11. d \in ToldSubs(decided', met')
    BY <2>2, <2>5, <2>6, <2>7, <2>9, <2>10 DEF ToldSubs
  <2> QED BY <1>9, <1>10, <2>3, <2>9, <2>11
<1>14. CASE DecideBSide(n)
  <2> DEFINE d == [p EXCEPT !.pun = x.s, !.con = x.b, !.flag = "B_SIDE_RELAY"]
  <2>1. /\ sub' = [sub EXCEPT ![n] = d] /\ decided' = decided /\ bridged' = bridged
        /\ x.flag = "A_SIDE_RELAY"
    BY <1>1, <1>3, <1>14 DEF DecideBSide, SubGoes
  <2>2. x.b \in Peer /\ x.s \in Peer /\ x.rid # 0
    BY <1>7, <2>1
  <2>3. d \in SubRec
    BY <1>4, <2>2 DEF SubRec, Flag
  <2>4. /\ d.pun = x.s /\ d.con = x.b /\ d.flag = "B_SIDE_RELAY" /\ d.step = "Punching"
        /\ d.a = x.a /\ d.b = x.b /\ d.s = x.s /\ d.rid = x.rid
    BY <1>4 DEF SubRec
  <2> HIDE DEF d
  <2>5. d \in LedSubs
    BY <2>2, <2>3, <2>4 DEF LedSubs
  <2>6. Decided(d) = Decided(x) /\ Decided(x) = <<x.a, x.b, x.s, x.rid>>
    BY <2>2, <2>4 DEF Decided
  <2>7. Decided(d) \in decided
    BY <1>8, <2>1, <2>6 DEF Made
  <2>8. Told(decided, x.b, x.s) /\ Numbered(decided, x.s, x.b, x.rid)
    BY <1>5, <2>2, <2>6, <2>7, DecidedTells
  <2>9. \A y, z \in Node : Leads(Decided(d), y, z) => Reached(decided, met, y) \/ y = d.con
    BY <1>8, <2>1, <2>4, <2>6 DEF Made
  <2>10. d \in ToldSubs(decided', met')
    BY <2>1, <2>4, <2>5, <2>7, <2>8, <2>9 DEF ToldSubs
  <2> QED BY <1>9, <1>10, <2>1, <2>10
<1>15. CASE DecideBridged(n)
  <2>1. /\ sub' = [sub EXCEPT ![n] = At(x, "RequireServer")] /\ decided' = decided
        /\ bridged' = bridged \cup {Decided(x)} /\ x.flag \in {"DIRECT", "B_SIDE_RELAY"}
    BY <1>1, <1>15 DEF DecideBridged, SubGoes
  <2>2. At(x, "RequireServer") \in ToldSubs(decided', met')
    BY <1>4 DEF ToldSubs, Leading
  <2>3. Decided(x) \in decided
    BY <1>8, <2>1 DEF Made
  <2>4. \A y, z \in Node : Leads(Decided(x), y, z) => Reached(decided, met, y)
    BY <1>8, <2>1 DEF Made
  <2>5. BridgedTold'
    BY <2>1, <2>3, <2>4 DEF ToldInv, BridgedTold
  <2> QED BY <1>9, <1>10, <2>1, <2>2, <2>5
<1>16. CASE DecideErr(n)
  <2> DEFINE d == [e EXCEPT !.err = "ERROR"]
  <2>1. d \in SubRec /\ d.step = "ErrReturn"
    BY <1>4 DEF SubRec, SubErr
  <2>2. sub' = [sub EXCEPT ![n] = d] /\ decided' = decided /\ bridged' = bridged
    BY <1>1, <1>3, <1>16 DEF DecideErr, SubGoes
  <2> HIDE DEF d
  <2>3. d \in ToldSubs(decided', met')
    BY <2>1 DEF LedSubs, ToldSubs, Leading
  <2> QED BY <1>9, <1>10, <2>2, <2>3
<1> QED BY <1>11, <1>12, <1>13, <1>14, <1>15, <1>16 DEF Decision

LEMMA SubPolledTold ==
  ASSUME WireOK, SubsOK, SeedsOK, ToldInv, met' = met, NEW n \in Name, SubPolled(n)
  PROVE  WireTold' /\ SubsTold' /\ DecidedOK' /\ BridgedTold' /\ decided \subseteq decided'
<1>1. n \in Registered
  BY DEF SubPolled, BeginPolled, RequireServerPolled, RequireReplyPolled, Decision,
         PunchingPolled, ConnectAddrPolled, ErrReturnPolled, SubAt, Registered
<1>2. sub[n] \in ToldSubs(decided, met) /\ sub[n] \in LedSubs /\ sub[n] \in SubRec
  BY <1>1 DEF ToldInv, SubsTold, ToldSubs, LedSubs
<1>3. /\ sub[n].a \in Node /\ Server \in Node /\ sub[n].err \in PlainInfo \ {"ESTABLISHED"}
      /\ sub[n].rid \in 0..MaxRelayID
  BY <1>2 DEF SubRec, Node, SubErr, PlainInfo
<1>4. \A i \in PlainInfo \ {"ESTABLISHED"} :
        {Plain(i, Server, sub[n].a)} \subseteq ToldMsgs(decided, met)
  BY <1>3, PlainIdle, IdleTold
<1>5. \A s \in SubStep : At(sub[n], s) \in SubRec /\ At(sub[n], s).step = s
  BY <1>2, AtFacts
<1>6. [At(sub[n], "Decision") EXCEPT !.flag = "ERR"] \in ToldSubs(decided, met)
  <2>1. PICK e : e = At(sub[n], "Decision")
    OBVIOUS
  <2>2. e \in SubRec /\ e.step = "Decision"
    BY <1>5, <2>1 DEF SubStep
  <2> DEFINE d == [e EXCEPT !.flag = "ERR"]
  <2>3. d \in SubRec /\ d.step = "Decision" /\ d.flag = "ERR"
    BY <2>2 DEF SubRec, Flag
  <2> HIDE DEF d
  <2>4. d \in ToldSubs(decided, met)
    BY <2>3 DEF LedSubs, ToldSubs, Made
  <2> QED BY <2>1, <2>4 DEF d
<1>7. ASSUME WireTold', SubsTold', decided' = decided, bridged' = bridged
      PROVE  WireTold' /\ SubsTold' /\ DecidedOK' /\ BridgedTold' /\ decided \subseteq decided'
  BY <1>7, StayTold DEF ToldInv, DecidedOK
<1>8. CASE \E S : S \subseteq ToldMsgs(decided, met) /\ SubSends(n, S)
  BY <1>1, <1>7, <1>8, SubSendsTold
<1>9. CASE \E d : d \in ToldSubs(decided, met) /\ SubGivesUp(n, d)
  BY <1>1, <1>7, <1>9, SubGivesUpTold
<1>10. CASE SubEnds(n)
  BY <1>1, <1>7, <1>10, SubEndsTold
<1>11. CASE BeginPolled(n)
  BY <1>4, <1>8, <1>10, <1>11 DEF BeginPolled, PlainInfo
<1>12. CASE RequireServerPolled(n)
  BY <1>8, <1>10, <1>12 DEF RequireServerPolled
<1>13. CASE RequireReplyPolled(n)
  <2> DEFINE i == IF sub[n].b = NoAddr THEN "NO_NAMEID" ELSE "CONNECT_BEGIN"
  <2>1. i \in PlainInfo \ {"ESTABLISHED"}
    BY DEF PlainInfo
  <2>2. At(sub[n], "RequireServer") \in ToldSubs(decided, met)
    <3>1. At(sub[n], "RequireServer") \in LedSubs /\ At(sub[n], "RequireServer").step = "RequireServer"
      BY <1>2, AtFacts DEF SubStep, FreeStep
    <3> QED BY <3>1 DEF ToldSubs, Leading
  <2>3. SubSends(n, {Plain(i, Server, sub[n].a)}) \/ SubGivesUp(n, At(sub[n], "RequireServer"))
    BY <1>13 DEF RequireReplyPolled
  <2> HIDE DEF i
  <2> QED BY <1>4, <1>8, <1>9, <2>1, <2>2, <2>3
<1>14. CASE PunchingPolled(n)
  <2>1. sub[n].pun \in Node /\ sub[n].con \in Node
    BY <1>2, <1>14 DEF PunchingPolled, SubAt, LedSubs, Node
  <2>2. {PunchingMsg(Server, sub[n].pun, sub[n].con)} \subseteq ToldMsgs(decided, met)
    BY <1>3, <2>1, PlainIdle, IdleTold
  <2> QED BY <1>6, <1>8, <1>9, <1>14, <2>2 DEF PunchingPolled
<1>15. CASE ConnectAddrPolled(n)
  <2>1. PICK x : x = sub[n]
    OBVIOUS
  <2>2. /\ x.pun \in Peer /\ x.con \in Peer /\ x.rid \in 0..MaxRelayID
        /\ Told(decided, x.con, x.pun)
        /\ x.rid # 0 => Numbered(decided, x.pun, x.con, x.rid)
    BY <1>2, <1>3, <1>15, <2>1 DEF ConnectAddrPolled, SubAt, LedSubs, ToldSubs
  <2> DEFINE m == ConnectAddrMsg(Server, x.con, x.pun, x.rid)
  <2>3. /\ m \in Msgs /\ m.info = "CONNECT_ADDR" /\ m.to = x.con /\ m.addr = x.pun
        /\ m.rid = x.rid
    BY <1>3, <2>2 DEF ConnectAddrMsg, Msgs, Node
  <2> HIDE DEF m
  <2>4. {m} \subseteq ToldMsgs(decided, met)
    BY <2>2, <2>3 DEF ToldMsgs
  <2> QED BY <1>6, <1>8, <1>9, <1>15, <2>1, <2>4 DEF ConnectAddrPolled, m
<1>16. CASE ErrReturnPolled(n)
  BY <1>3, <1>4, <1>8, <1>10, <1>16 DEF ErrReturnPolled
<1>17. CASE Decision(n)
  BY <1>1, <1>17, DecisionTold
<1> QED BY <1>11, <1>12, <1>13, <1>14, <1>15, <1>16, <1>17 DEF SubPolled

\* A client that becomes e owes an answer to what it was told when it is to
\* connect for another, with a number, or has a success to report.
Owes(e) ==
  \/ e.step = "DoConnect" /\ (e.sx # NoAddr \/ e.rid # 0)
  \/ e.step = "MultiSend" /\ e.info = "ESTABLISHED" /\ e.to # NoAddr

\* c goes on with what it did.
GoesOn(e, c) == /\ e.step = c.step /\ e.sx = c.sx /\ e.b = c.b /\ e.rid = c.rid
                /\ e.to = c.to /\ e.info = c.info

Idler(e, c) == e \in CliRec /\ (~Owes(e) \/ GoesOn(e, c))

\* A step of p that writes no order, no report and no number.
Idles(p) ==
  \E e, S : /\ Idler(e, cli[p]) /\ cli' = [cli EXCEPT ![p] = e]
            /\ S \subseteq IdleMsgs
            /\ Write(S) \/ (\E m : ReadWrite(m, S)) \/ UNCHANGED wire

LEMMA ClientMovesTold ==
  ASSUME ClientsOK, ToldInv, decided' = decided, met \subseteq met',
         NEW p \in Node, NEW c, c \in ToldClients(decided', met', p), cli' = [cli EXCEPT ![p] = c]
  PROVE  ClientsTold'
<1>1. \A q \in Node : cli[q] \in ToldClients(decided', met', q)
  BY ToldKept DEF ToldInv, ClientsTold
<1>2. \A q \in Node : cli'[q] = IF q = p THEN c ELSE cli[q]
  BY DEF ClientsOK
<1> QED BY <1>1, <1>2 DEF ClientsTold

LEMMA IdlesTold ==
  ASSUME WireOK, ClientsOK, ToldInv, decided' = decided, met \subseteq met', NEW p \in Node, Idles(p)
  PROVE  ClientsTold' /\ WireTold'
<1>1. PICK e, S : /\ Idler(e, cli[p]) /\ cli' = [cli EXCEPT ![p] = e]
                  /\ S \subseteq IdleMsgs
                  /\ Write(S) \/ (\E m : ReadWrite(m, S)) \/ UNCHANGED wire
  BY DEF Idles
<1>2. cli[p] \in ToldClients(decided', met', p)
  BY ToldKept DEF ToldInv, ClientsTold
<1>3. e \in ToldClients(decided', met', p)
  BY <1>1, <1>2 DEF Idler, Owes, GoesOn, ToldClients
<1>4. ClientsTold'
  BY <1>1, <1>3, ClientMovesTold
<1>5. S \subseteq ToldMsgs(decided, met) /\ net \subseteq ToldMsgs(decided, met) /\ dups \in 0..MaxDups
  BY <1>1, IdleTold DEF ToldInv, WireTold, WireOK
<1>6. net' \subseteq ToldMsgs(decided, met)
  <2>1. CASE Write(S)
    BY <1>5, <2>1, WriteKeeps
  <2>2. CASE \E m : ReadWrite(m, S)
    BY <1>5, <2>2, ReadWriteKeeps
  <2>3. CASE UNCHANGED wire
    BY <1>5, <2>3 DEF wire
  <2> QED BY <1>1, <2>1, <2>2, <2>3
<1>7. WireTold'
  BY <1>6, ToldKept DEF WireTold
<1> QED BY <1>4, <1>7

LEMMA AtIdles ==
  ASSUME NEW p \in Node, NEW c \in CliRec
  PROVE  /\ \A s \in CliStep \ {"DoConnect", "MultiSend"} : Idler(CliAt(c, s), c)
         /\ Idler(CliEnd(c), c)
<1>1. ASSUME NEW s \in CliStep \ {"DoConnect", "MultiSend"}
      PROVE  Idler(CliAt(c, s), c)
  BY CliAtFacts DEF Idler, Owes
<1>2. CliEnd(c) \in CliRec /\ CliEnd(c).step = "Ended"
  BY DEF CliEnd, CliRec, CliStep
<1> QED BY <1>1, <1>2 DEF Idler, Owes

LEMMA ChargeIdles ==
  ASSUME NEW p \in Node, NEW c \in GoodClients(p), NEW st \in PollStates(c)
  PROVE  Idler(CliCharge(c, st), c)
<1> DEFINE e == CliCharge(c, st)
<1>1. c \in CliRec
  BY DEF GoodClients
<1>2. e.sx = c.sx /\ e.rid = c.rid
  BY <1>1 DEF CliCharge, CliRec
<1>3. e \in CliRec /\ e.step = c.step /\ e.b = c.b /\ e.to = c.to /\ e.info = c.info
  BY CliCharges
<1> HIDE DEF e
<1>4. Idler(e, c)
  BY <1>2, <1>3 DEF Idler, GoesOn
<1> QED BY <1>4 DEF e

LEMMA SendsIdle ==
  ASSUME ClientsOK, NEW p \in Node, NEW S, S \subseteq IdleMsgs, CliSends(p, S)
  PROVE  Idles(p) /\ Same
<1>1. PICK st \in PollStates(cli[p]) :
        cli' = [cli EXCEPT ![p] = CliCharge(cli[p], st)] /\ Write(S) /\ Same
  BY DEF CliSends, CliGoes
<1>2. Idler(CliCharge(cli[p], st), cli[p])
  BY ChargeIdles DEF ClientsOK
<1> QED BY <1>1, <1>2 DEF Idles

LEMMA LastIdles ==
  ASSUME NEW p \in Node, NEW c, Idler(c, cli[p]), CliLast(p, c)
  PROVE  Idles(p) /\ Same
<1>1. cli' = [cli EXCEPT ![p] = c] /\ UNCHANGED wire /\ Same /\ {} \subseteq IdleMsgs
  BY DEF CliLast, CliGoes
<1> QED BY <1>1 DEF Idles

LEMMA RegisterIdles ==
  ASSUME ClientsOK, NEW p \in Node, RegisterHears(p) \/ RegisterPolled(p)
  PROVE  Idles(p) /\ Same
<1>1. /\ cli[p] \in GoodClients(p) /\ cli[p] \in CliRec /\ cli[p].step = "Register"
      /\ {} \subseteq IdleMsgs
  BY DEF ClientsOK, RegisterHears, RegisterPolled
<1>2. Idler(CliEnd(cli[p]), cli[p])
  BY <1>1, AtIdles
<1>3. CASE RegisterHears(p)
  <2>1. PICK e : e = CliAt(cli[p], "Wait")
    OBVIOUS
  <2>2. e \in CliRec /\ e.step = "Wait"
    BY <1>1, <2>1, CliAtFacts DEF CliStep
  <2> DEFINE d == [e EXCEPT !.connected = TRUE, !.fast = TRUE]
  <2>3. d \in CliRec /\ d.step = "Wait"
    BY <2>2 DEF CliRec
  <2>4. PICK m \in net :
          /\ cli' = [cli EXCEPT ![p] = IF m.info = "RGST_OK" THEN d ELSE CliEnd(cli[p])]
          /\ ReadWrite(m, {}) /\ Same
    BY <1>3, <2>1 DEF RegisterHears, Mail, CliGoes
  <2> HIDE DEF d
  <2>5. Idler(IF m.info = "RGST_OK" THEN d ELSE CliEnd(cli[p]), cli[p])
    BY <1>2, <2>3 DEF Idler, Owes
  <2> QED BY <1>1, <2>4, <2>5 DEF Idles
<1>4. CASE CliSends(p, {RegisterMsg(p, Server, NameOf[p], NATOf[p])})
  <2> DEFINE m == RegisterMsg(p, Server, NameOf[p], NATOf[p])
  <2>1. p \in Peer /\ NameOf[p] \in Name
    BY <1>1, BdgMsgAssumption DEF GoodClients
  <2>2. m \in Msgs /\ m.info = "REGISTER"
    BY <2>1 DEF Msgs, RegisterMsg
  <2> HIDE DEF m
  <2>3. {m} \subseteq IdleMsgs
    BY <2>2 DEF IdleMsgs
  <2> QED BY <1>4, <2>3, SendsIdle DEF m
<1>5. CASE CliLast(p, CliEnd(cli[p]))
  BY <1>2, <1>5, LastIdles
<1> QED BY <1>3, <1>4, <1>5 DEF RegisterPolled

LEMMA WaitGoesOnIdles ==
  ASSUME ClientsOK, NEW p \in Node, cli[p].step = "Wait", NEW st \in PollStates(cli[p])
  PROVE  Idler(WaitGoesOn(p, st).c, cli[p]) /\ WaitGoesOn(p, st).S \subseteq IdleMsgs
<1>1. PICK c : c = cli[p]
  OBVIOUS
<1>2. /\ c \in GoodClients(p) /\ c \in CliRec /\ c.step = "Wait" /\ st \in PollStates(c)
  BY <1>1 DEF ClientsOK, GoodClients
<1>3. Idler(CliAt(c, "Wait"), c) /\ Idler(CliAt(c, "Require"), c) /\ Idler(CliEnd(c), c)
  BY <1>2, AtIdles DEF CliStep
<1>4. Idler(CliCharge(c, st), c)
  BY <1>2, ChargeIdles
<1> DEFINE w == WaitGoesOn(p, st)
<1>5. CASE c.target # NoName
  <2>1. w = [c |-> CliAt(c, "Require"), S |-> {}]
    BY <1>1, <1>5 DEF WaitGoesOn
  <2> QED BY <1>1, <1>3, <2>1
<1>6. CASE c.target = NoName /\ c.direct # NoAddr
  <2>1. PICK e : e = CliAt(c, "DoConnect")
    OBVIOUS
  <2>2. e \in CliRec /\ e.step = "DoConnect"
    BY <1>2, <2>1, CliAtFacts DEF CliStep
  <2> DEFINE d == [e EXCEPT !.sx = NoAddr, !.b = c.direct, !.rid = 0]
  <2>3. NoAddr \in Addr /\ c.direct \in Addr /\ 0 \in RelayIDs
    BY <1>2, BdgClientAssumption DEF Addr, CliRec
  <2>4. d \in CliRec /\ d.sx = NoAddr /\ d.rid = 0 /\ d.step = "DoConnect"
    BY <2>2, <2>3 DEF CliRec
  <2>5. w = [c |-> d, S |-> {}]
    BY <1>1, <1>6, <2>1 DEF WaitGoesOn
  <2> HIDE DEF d, w
  <2>6. Idler(d, c)
    BY <2>4 DEF Idler, Owes
  <2>7. w.c = d /\ w.S = {}
    BY <2>5
  <2>8. Idler(w.c, cli[p]) /\ w.S \subseteq IdleMsgs
    BY <1>1, <2>6, <2>7
  <2> QED BY <2>8 DEF w
<1>7. CASE c.target = NoName /\ c.direct = NoAddr /\ Skips(p)
  <2>1. w = [c |-> CliAt(c, "Wait"), S |-> {}]
    BY <1>1, <1>7 DEF WaitGoesOn
  <2> QED BY <1>1, <1>3, <2>1
<1>8. CASE c.target = NoName /\ c.direct = NoAddr /\ ~Skips(p) /\ (st = "OVERTIME" \/ c.fast)
  <2>1. st # "LAST"
    <3>1. c.fast => c.first
      BY <1>2 DEF GoodClients
    <3> QED BY <1>2, <1>8, <3>1 DEF PollStates
  <2>2. PICK e : e = CliCharge(c, st)
    OBVIOUS
  <2>3. e \in CliRec /\ e.step = "Wait"
    BY <1>2, <2>2, CliCharges
  <2> DEFINE d == [e EXCEPT !.fast = FALSE]
  <2>4. d \in CliRec /\ d.step = "Wait"
    BY <2>3 DEF CliRec
  <2>5. w = [c |-> d, S |-> {WaitingMsg(p, Server, nrelays[p] % UcharSize)}]
    BY <1>1, <1>8, <2>1, <2>2 DEF WaitGoesOn
  <2> HIDE DEF d, w
  <2>6. Idler(d, c)
    BY <2>4 DEF Idler, Owes
  <2>7. nrelays[p] % UcharSize \in Nat /\ Server \in Node
    BY ModIn, BdgClientAssumption DEF ClientsOK, Node
  <2>8. {WaitingMsg(p, Server, nrelays[p] % UcharSize)} \subseteq IdleMsgs
    BY <2>7, PlainIdle
  <2>9. w.c = d /\ w.S = {WaitingMsg(p, Server, nrelays[p] % UcharSize)}
    BY <2>5
  <2>10. Idler(w.c, cli[p]) /\ w.S \subseteq IdleMsgs
    BY <1>1, <2>6, <2>8, <2>9
  <2> QED BY <2>10 DEF w
<1>9. CASE c.target = NoName /\ c.direct = NoAddr /\ ~Skips(p) /\ ~(st = "OVERTIME" \/ c.fast)
  <2>1. CASE st = "LAST"
    <3>1. w = [c |-> CliEnd(c), S |-> {}]
      BY <1>1, <1>9, <2>1 DEF WaitGoesOn
    <3> QED BY <1>1, <1>3, <3>1
  <2>2. CASE st # "LAST"
    <3>1. w = [c |-> CliCharge(c, st), S |-> {}]
      BY <1>1, <1>9, <2>2 DEF WaitGoesOn
    <3> QED BY <1>1, <1>4, <3>1
  <2> QED BY <2>1, <2>2
<1> QED BY <1>5, <1>6, <1>7, <1>8, <1>9

LEMMA WaitIdles ==
  ASSUME WireOK, ClientsOK, NEW p \in Node, WaitPolled(p) \/ WaitAnswers(p) \/ WaitHearsEcho(p)
  PROVE  Idles(p) /\ Same
<1>1. cli[p] \in CliRec /\ cli[p].step = "Wait"
  BY DEF ClientsOK, WaitPolled, WaitAnswers, WaitHearsEcho
<1>2. CASE WaitPolled(p)
  <2>1. PICK st \in PollStates(cli[p]) : /\ cli' = [cli EXCEPT ![p] = WaitGoesOn(p, st).c]
                                        /\ Write(WaitGoesOn(p, st).S) /\ Same
    BY <1>2 DEF WaitPolled, CliGoes
  <2>2. Idler(WaitGoesOn(p, st).c, cli[p]) /\ WaitGoesOn(p, st).S \subseteq IdleMsgs
    BY <1>1, WaitGoesOnIdles
  <2> QED BY <2>1, <2>2 DEF Idles
<1>3. CASE WaitAnswers(p)
  <2>1. PICK m \in net, st \in PollStates(cli[p]), i \in {"PUNCHING_FINISH", "ACKNOWLEDGE"} :
          /\ cli' = [cli EXCEPT ![p] = WaitGoesOn(p, st).c]
          /\ ReadWrite(m, {Plain(i, p, m.from)} \cup WaitGoesOn(p, st).S) /\ Same
    BY <1>3 DEF WaitAnswers, Mail, CliGoes
  <2>2. Idler(WaitGoesOn(p, st).c, cli[p]) /\ WaitGoesOn(p, st).S \subseteq IdleMsgs
    BY <1>1, WaitGoesOnIdles
  <2>3. m.from \in Node /\ i \in PlainInfo \ {"ESTABLISHED"}
    BY MsgFields DEF PlainInfo, WireOK
  <2>4. {Plain(i, p, m.from)} \subseteq IdleMsgs
    BY <2>3, PlainIdle
  <2>5. PICK S : S = {Plain(i, p, m.from)} \cup WaitGoesOn(p, st).S
    OBVIOUS
  <2>6. S \subseteq IdleMsgs
    BY <2>2, <2>4, <2>5
  <2> QED BY <2>1, <2>2, <2>5, <2>6 DEF Idles
<1>4. CASE WaitHearsEcho(p)
  <2>1. PICK m \in net : /\ cli' = [cli EXCEPT ![p] = CliAt(cli[p], "Wait")]
                        /\ ReadWrite(m, {}) /\ Same
    BY <1>4 DEF WaitHearsEcho, Mail, CliGoes
  <2>2. Idler(CliAt(cli[p], "Wait"), cli[p]) /\ {} \subseteq IdleMsgs
    BY <1>1, AtIdles DEF CliStep
  <2> QED BY <2>1, <2>2 DEF Idles
<1> QED BY <1>2, <1>3, <1>4

LEMMA RequireIdles ==
  ASSUME ClientsOK, NEW p \in Node, RequireHears(p) \/ RequirePolled(p)
  PROVE  Idles(p) /\ Same
<1>1. /\ cli[p] \in GoodClients(p) /\ cli[p] \in CliRec /\ cli[p].step = "Require"
      /\ {} \subseteq IdleMsgs
  BY DEF ClientsOK, RequireHears, RequirePolled
<1>2. CASE RequireHears(p)
  <2>1. PICK e : e = CliAt(cli[p], "Wait")
    OBVIOUS
  <2>2. e \in CliRec /\ e.step = "Wait"
    BY <1>1, <2>1, CliAtFacts DEF CliStep
  <2>3. PICK m \in net :
          /\ cli' = [cli EXCEPT ![p] = [e EXCEPT !.target = NoName,
                                                 !.fast = @ \/ m.info = "CONNECT_BEGIN"]]
          /\ ReadWrite(m, {}) /\ Same
    BY <1>2, <2>1 DEF RequireHears, Mail, CliGoes
  <2>4. PICK x \in BOOLEAN : x = (e.fast \/ m.info = "CONNECT_BEGIN")
    OBVIOUS
  <2> DEFINE d == [e EXCEPT !.target = NoName, !.fast = x]
  <2>5. d \in CliRec /\ d.step = "Wait"
    BY <2>2, <2>4 DEF CliRec
  <2>6. cli' = [cli EXCEPT ![p] = d]
    BY <2>2, <2>3, <2>4 DEF CliRec
  <2> HIDE DEF d
  <2>7. Idler(d, cli[p])
    BY <2>5 DEF Idler, Owes
  <2> QED BY <1>1, <2>3, <2>6, <2>7 DEF Idles
<1>3. CASE CliLast(p, CliEnd(cli[p]))
  BY <1>1, <1>3, AtIdles, LastIdles
<1>4. CASE RequirePolled(p) /\ ~CliLast(p, CliEnd(cli[p]))
  <2>1. CliSends(p, {ConnectMsg(p, Server, cli[p].target)})
    BY <1>4 DEF RequirePolled, CliSends
  <2>2. cli[p].target \in Name /\ Server \in Node
    BY <1>1 DEF GoodClients, CliRec, Node
  <2>3. {ConnectMsg(p, Server, cli[p].target)} \subseteq IdleMsgs
    BY <2>2, PlainIdle
  <2> QED BY <2>1, <2>3, SendsIdle
<1> QED BY <1>2, <1>3, <1>4

\* The user's commands give names and addresses, of which nobody was told.
LEMMA CommandsIdle ==
  ASSUME ClientsOK, NEW p \in Node,
         \/ \E n \in Typed : Connect(p, n) \/ Overwrite(p, n)
         \/ \E q \in Node : Direct(p, q, SubAddrs)
  PROVE  Idles(p) /\ UNCHANGED <<relays, met>>
<1>1. cli[p] \in CliRec /\ {} \subseteq IdleMsgs
  BY DEF ClientsOK
<1>2. CASE \E n \in Typed : Connect(p, n) \/ Overwrite(p, n)
  <2>1. PICK n \in Typed : cli' = [cli EXCEPT ![p] = [cli[p] EXCEPT !.target = n]]
    BY <1>2 DEF Connect, Overwrite, CliGoes
  <2>2. UNCHANGED <<wire, relays, met>> /\ n \in Name
    BY <1>2, BdgClientAssumption DEF Connect, Overwrite
  <2>3. Idler([cli[p] EXCEPT !.target = n], cli[p])
    BY <1>1, <2>2 DEF Idler, GoesOn, CliRec
  <2> QED BY <1>1, <2>1, <2>2, <2>3 DEF Idles
<1>3. CASE \E q \in Node : Direct(p, q, SubAddrs)
  <2>1. PICK q \in Node : /\ cli' = [cli EXCEPT ![p] = [cli[p] EXCEPT !.direct = q]]
                         /\ UNCHANGED <<wire, relays, met>>
    BY <1>3 DEF Direct, CliGoes
  <2>2. Idler([cli[p] EXCEPT !.direct = q], cli[p])
    BY <1>1 DEF Idler, GoesOn, CliRec, Addr
  <2> QED BY <1>1, <2>1, <2>2 DEF Idles
<1> QED BY <1>2, <1>3

\* An order of the server is taken on as it was given.
LEMMA WaitHearsConnectAddrTold ==
  ASSUME WireOK, ClientsOK, ToldInv, decided' = decided, NEW p \in Node, WaitHearsConnectAddr(p)
  PROVE  ClientsTold' /\ WireTold' /\ Same
<1>1. PICK e : e = CliAt(cli[p], "DoConnect")
  OBVIOUS
<1>2. PICK m \in net :
        /\ cli' = [cli EXCEPT ![p] = [e EXCEPT !.sx = m.from, !.b = m.addr, !.rid = m.rid]]
        /\ ReadWrite(m, {}) /\ m.info = "CONNECT_ADDR" /\ m.to = p
  BY <1>1 DEF WaitHearsConnectAddr, Mail, CliGoes
<1>3. Same /\ decided \subseteq decided' /\ met' = met /\ met \subseteq met'
  BY DEF WaitHearsConnectAddr, Same
<1>4. e \in CliRec /\ e.step = "DoConnect"
  BY <1>1, CliAtFacts DEF ClientsOK, CliStep
<1>5. m.from \in Addr /\ m.addr \in Addr /\ m.rid \in RelayIDs
  BY <1>2, MsgFields, BridgeAssumption DEF WireOK, Addr, Node
<1>6. Told(decided, p, m.addr) /\ (m.rid # 0 => Numbered(decided, m.addr, p, m.rid))
  BY <1>2 DEF ToldInv, WireTold, ToldMsgs
<1> DEFINE d == [e EXCEPT !.sx = m.from, !.b = m.addr, !.rid = m.rid]
<1>7. d \in CliRec /\ d.step = "DoConnect" /\ d.b = m.addr /\ d.rid = m.rid
  BY <1>4, <1>5 DEF CliRec
<1>8. cli' = [cli EXCEPT ![p] = d]
  BY <1>2
<1> HIDE DEF d
<1>9. d \in ToldClients(decided', met', p)
  BY <1>6, <1>7 DEF ToldClients
<1>10. ClientsTold'
  BY <1>3, <1>8, <1>9, ClientMovesTold
<1>11. net \subseteq ToldMsgs(decided, met) /\ {} \subseteq ToldMsgs(decided, met) /\ dups \in 0..MaxDups
  BY DEF ToldInv, WireTold, WireOK
<1>12. net' \subseteq ToldMsgs(decided, met)
  BY <1>2, <1>11, ReadWriteKeeps
<1> QED BY <1>3, <1>10, <1>12 DEF WireTold

\* A relay takes a side of the request of its number.
LEMMA RelayMergeTold ==
  ASSUME RelaysTold, decided' = decided, NEW p \in Node, NEW id \in RelayIDs, NEW q \in Node,
         id \notin JunkRelayIDs => Numbered(decided, p, q, id), RelayProcMerge(p, id, q)
  PROVE  RelaysTold'
<1> DEFINE R == ToldRelays(decided, p)
<1>1. relays[p] \in Seq(R) /\ DOMAIN relays = Node
  BY DEF RelaysTold
<1>2. ASSUME NEW t, t \in Seq(R), relays' = [relays EXCEPT ![p] = t]
      PROVE  RelaysTold'
  <2>1. \A k \in Node : relays'[k] = IF k = p THEN t ELSE relays[k]
    BY <1>1, <1>2
  <2>2. DOMAIN relays' = Node /\ relays' = [k \in Node |-> relays'[k]]
    BY <1>1, <1>2 DEF RelaysTold
  <2> QED BY <1>2, <2>1, <2>2 DEF RelaysTold
<1>3. CASE ~IsRelay(p, id)
  <2> DEFINE r == [id |-> id, peer0 |-> q, peer1 |-> NoAddr]
  <2>1. r \in RelayRec /\ r.id = id /\ {r.peer0, r.peer1} \ {NoAddr} \subseteq {q}
    BY DEF RelayRec, Addr
  <2>2. relays' = [relays EXCEPT ![p] = Append(relays[p], r)]
    BY <1>1, <1>3 DEF RelayProcMerge
  <2> HIDE DEF r
  <2>3. r \in R
    BY <2>1 DEF ToldRelays
  <2> HIDE DEF R
  <2>4. Append(relays[p], r) \in Seq(R)
    BY <1>1, <2>3, AppendProperties
  <2> QED BY <1>2, <2>2, <2>4
<1>4. CASE IsRelay(p, id)
  <2> DEFINE j == CHOOSE i \in DOMAIN relays[p] : relays[p][i].id = id
  <2>1. j \in DOMAIN relays[p] /\ relays[p][j].id = id
    BY <1>4 DEF IsRelay
  <2>2. PICK i \in DOMAIN relays[p] : i = j
    BY <2>1
  <2> DEFINE r == [relays[p][i] EXCEPT !.peer1 = q]
             t == [relays[p] EXCEPT ![i] = r]
  <2>3. CASE relays[p][j].peer1 = NoAddr
    <3>1. relays' = [relays EXCEPT ![p] = t]
      BY <1>1, <1>4, <2>2, <2>3 DEF RelayProcMerge
    <3> HIDE DEF R
    <3>2. i \in 1..Len(relays[p]) /\ relays[p][i] \in R
      BY <1>1, <2>2, LenProperties, ElementOfSeq
    <3>3. relays[p][i] \in RelayRec /\ relays[p][i].id = id
      BY <2>1, <2>2, <3>2 DEF R, ToldRelays
    <3>4. r \in RelayRec /\ r.id = id /\ r.peer0 = relays[p][i].peer0 /\ r.peer1 = q
      BY <3>3 DEF RelayRec, Addr
    <3> HIDE DEF r
    <3>5. r \in R
      BY <3>2, <3>3, <3>4 DEF R, ToldRelays
    <3>6. t \in Seq(R)
      BY <1>1, <3>2, <3>5, ExceptSeq
    <3> HIDE DEF t
    <3> QED BY <1>2, <3>1, <3>6
  <2>4. CASE relays[p][j].peer1 # NoAddr
    <3>1. relays' = relays
      BY <1>4, <2>4 DEF RelayProcMerge
    <3> QED BY <3>1 DEF RelaysTold
  <2> QED BY <2>3, <2>4
<1> QED BY <1>3, <1>4

LEMMA RelayEndsTold ==
  ASSUME RelaysTold, decided' = decided, NEW p \in Node, NEW i \in DOMAIN relays[p], RelayEnds(p, i)
  PROVE  RelaysTold'
<1> DEFINE R == ToldRelays(decided, p)
<1>1. relays[p] \in Seq(R) /\ DOMAIN relays = Node
  BY DEF RelaysTold
<1>2. relays' = [relays EXCEPT ![p] = RemoveAt(relays[p], i)]
  BY <1>1 DEF RelayEnds, RemoveAt
<1> HIDE DEF R
<1>3. RemoveAt(relays[p], i) \in Seq(R)
  BY <1>1, RemoveAtOK
<1>4. \A k \in Node : relays'[k] = IF k = p THEN RemoveAt(relays[p], i) ELSE relays[k]
  BY <1>1, <1>2
<1>5. DOMAIN relays' = Node /\ relays' = [k \in Node |-> relays'[k]]
  BY <1>1, <1>2 DEF RelaysTold
<1> QED BY <1>3, <1>4, <1>5 DEF RelaysTold, R

\* A HELLO without a number starts a session, with one it takes a place in a
\* relay; the answer carries no number.
LEMMA WaitHearsHelloTold ==
  ASSUME WireOK, ClientsOK, ToldInv, decided' = decided, NEW p \in Node, WaitHearsHello(p)
  PROVE  ClientsTold' /\ WireTold' /\ RelaysTold' /\ met \subseteq met'
<1>1. PICK e : e = CliAt(cli[p], "MultiSend")
  OBVIOUS
<1>2. PICK m \in net :
        /\ cli' = [cli EXCEPT ![p] = [e EXCEPT !.to = m.from, !.info = "HELLO"]]
        /\ ReadWrite(m, {}) /\ m.to = p /\ m.info = "HELLO"
        /\ \/ met' = met \cup {<<p, m.from>>} /\ UNCHANGED relays
           \/ m.rid # 0 /\ RelayProcMerge(p, m.rid, m.from) /\ UNCHANGED met
  BY <1>1 DEF WaitHearsHello, Mail, CliGoes
<1>3. e \in CliRec /\ e.step = "MultiSend"
  BY <1>1, CliAtFacts DEF ClientsOK, CliStep
<1>4. m.from \in Addr /\ m.from \in Node /\ m.rid \in RelayIDs
  BY <1>2, MsgFields DEF WireOK, Addr
<1>5. m.rid \in JunkRelayIDs \cup {0} \/ Numbered(decided, p, m.from, m.rid)
  BY <1>2 DEF ToldInv, WireTold, ToldMsgs
<1>6. met \subseteq met' /\ decided \subseteq decided'
  BY <1>2
<1> DEFINE d == [e EXCEPT !.to = m.from, !.info = "HELLO"]
<1>7. d \in CliRec /\ d.step = "MultiSend" /\ d.info = "HELLO"
  BY <1>3, <1>4 DEF CliRec
<1>8. cli' = [cli EXCEPT ![p] = d]
  BY <1>2
<1> HIDE DEF d
<1>9. Idles(p)
  <2>1. Idler(d, cli[p]) /\ {} \subseteq IdleMsgs
    BY <1>7 DEF Idler, Owes
  <2> QED BY <1>2, <1>8, <2>1 DEF Idles
<1>10. ClientsTold' /\ WireTold'
  BY <1>6, <1>9, IdlesTold
<1>11. CASE UNCHANGED relays
  BY <1>6, <1>10, <1>11, StayTold
<1>12. CASE m.rid # 0 /\ RelayProcMerge(p, m.rid, m.from)
  <2>1. RelaysTold /\ (m.rid \notin JunkRelayIDs => Numbered(decided, p, m.from, m.rid))
    BY <1>5, <1>12 DEF ToldInv
  <2> QED BY <1>4, <1>6, <1>10, <1>12, <2>1, RelayMergeTold
<1> QED BY <1>2, <1>11, <1>12

\* A client that has reached whom it was told to connect has that to report.
LEMMA DoConnectTold ==
  ASSUME WireOK, ClientsOK, ToldInv, decided' = decided, NEW p \in Node,
         DoConnectHears(p) \/ DoConnectPolled(p)
  PROVE  ClientsTold' /\ WireTold' /\ relays' = relays /\ met \subseteq met'
<1>1. PICK c : c = cli[p]
  OBVIOUS
<1>2. /\ c \in CliRec /\ c.step = "DoConnect" /\ c \in ToldClients(decided, met, p)
      /\ c.b \in Node /\ c.sx \in Addr /\ c.rid \in RelayIDs
  BY <1>1 DEF ToldInv, ClientsTold, ClientsOK, GoodClients, CliRec, DoConnectHears, DoConnectPolled
<1>3. PICK e : e = CliAt(c, "MultiSend")
  OBVIOUS
<1>4. e \in CliRec /\ e.step = "MultiSend"
  BY <1>2, <1>3, CliAtFacts DEF CliStep
<1>5. ASSUME NEW i \in {"ESTABLISHED", "ERR_CONNECT_ADDR"}
      PROVE  /\ [e EXCEPT !.to = c.sx, !.info = i, !.direct = NoAddr] \in CliRec
             /\ [e EXCEPT !.to = c.sx, !.info = i, !.direct = NoAddr].step = "MultiSend"
             /\ [e EXCEPT !.to = c.sx, !.info = i, !.direct = NoAddr].info = i
             /\ [e EXCEPT !.to = c.sx, !.info = i, !.direct = NoAddr].to = c.sx
  <2>1. NoAddr \in Addr
    BY DEF Addr
  <2> QED BY <1>2, <1>4, <2>1 DEF CliRec
<1>6. net \subseteq ToldMsgs(decided, met) /\ {} \subseteq ToldMsgs(decided, met) /\ dups \in 0..MaxDups
  BY DEF ToldInv, WireTold, WireOK
<1>7. CASE DoConnectHears(p)
  <2> DEFINE d == [e EXCEPT !.to = c.sx, !.info = "ESTABLISHED", !.direct = NoAddr]
  <2>1. PICK m \in net : cli' = [cli EXCEPT ![p] = d] /\ ReadWrite(m, {})
    BY <1>1, <1>3, <1>7 DEF DoConnectHears, Mail, CliGoes
  <2>2. /\ met' = met \cup {<<p, c.b>>} /\ relays' = relays
        /\ met \subseteq met' /\ decided \subseteq decided'
    BY <1>1, <1>7 DEF DoConnectHears
  <2>3. d \in CliRec /\ d.step = "MultiSend" /\ d.to = c.sx
    BY <1>5
  <2> HIDE DEF d
  <2>4. c.sx # NoAddr => Reached(decided, met', p)
    BY <1>2, <2>2 DEF ToldClients, Reached
  <2>5. d \in ToldClients(decided', met', p)
    BY <2>3, <2>4 DEF ToldClients
  <2>6. ClientsTold'
    BY <2>1, <2>2, <2>5, ClientMovesTold
  <2>7. net' \subseteq ToldMsgs(decided, met)
    BY <1>6, <2>1, ReadWriteKeeps
  <2>8. WireTold'
    BY <2>2, <2>7, ToldKept DEF WireTold
  <2> QED BY <2>2, <2>6, <2>8
<1>8. CASE CliSends(p, {HelloMsg(p, c.b, c.rid)})
  <2> DEFINE m == HelloMsg(p, c.b, c.rid)
  <2>1. m \in Msgs /\ m.info = "HELLO" /\ m.from = p /\ m.to = c.b /\ m.rid = c.rid
    BY <1>2 DEF HelloMsg, Msgs
  <2>2. PICK st \in PollStates(c) :
          cli' = [cli EXCEPT ![p] = CliCharge(c, st)] /\ Write({m}) /\ Same
    BY <1>1, <1>8 DEF CliSends, CliGoes
  <2> HIDE DEF m
  <2>3. {m} \subseteq ToldMsgs(decided, met)
    BY <1>2, <2>1 DEF ToldMsgs, ToldClients
  <2>4. Idler(CliCharge(c, st), c)
    BY <1>1, ChargeIdles DEF ClientsOK
  <2>5. relays' = relays /\ met' = met
    BY <2>2 DEF Same
  <2>6. CliCharge(c, st) \in ToldClients(decided', met', p)
    BY <1>2, <2>4, <2>5 DEF Idler, Owes, GoesOn, ToldClients
  <2>7. ClientsTold'
    BY <2>2, <2>5, <2>6, ClientMovesTold
  <2>8. net' \subseteq ToldMsgs(decided, met)
    BY <1>6, <2>2, <2>3, WriteKeeps
  <2> QED BY <2>5, <2>7, <2>8 DEF WireTold
<1>9. CASE CliLast(p, [e EXCEPT !.to = c.sx, !.info = "ERR_CONNECT_ADDR", !.direct = NoAddr])
  <2> DEFINE d == [e EXCEPT !.to = c.sx, !.info = "ERR_CONNECT_ADDR", !.direct = NoAddr]
  <2>1. d \in CliRec /\ d.step = "MultiSend" /\ d.info = "ERR_CONNECT_ADDR"
    BY <1>5
  <2> HIDE DEF d
  <2>2. Idler(d, cli[p])
    BY <2>1 DEF Idler, Owes
  <2>3. Idles(p) /\ Same
    BY <1>9, <2>2, LastIdles DEF d
  <2>4. relays' = relays /\ met' = met /\ met \subseteq met'
    BY <2>3 DEF Same
  <2> QED BY <2>3, <2>4, IdlesTold
<1> QED BY <1>1, <1>3, <1>7, <1>8, <1>9 DEF DoConnectPolled

LEMMA MultiSendTold ==
  ASSUME WireOK, ClientsOK, ToldInv, decided' = decided, NEW p \in Node, MultiSendPolled(p)
  PROVE  ClientsTold' /\ WireTold' /\ relays' = relays /\ met \subseteq met'
<1>1. PICK c : c = cli[p]
  OBVIOUS
<1>2. /\ c \in CliRec /\ c.step = "MultiSend" /\ c \in GoodClients(p)
      /\ c.to \in Addr /\ c.info \in {"HELLO", "ESTABLISHED", "ERR_CONNECT_ADDR"}
      /\ c \in ToldClients(decided, met, p)
  BY <1>1 DEF ToldInv, ClientsTold, ClientsOK, CliRec, MultiSendPolled
<1>3. ASSUME NEW S, S \subseteq ToldMsgs(decided, met), CliSends(p, S)
      PROVE  ClientsTold' /\ WireTold' /\ relays' = relays /\ met \subseteq met'
  <2>1. PICK st \in PollStates(c) :
          cli' = [cli EXCEPT ![p] = CliCharge(c, st)] /\ Write(S) /\ Same
    BY <1>1, <1>3 DEF CliSends, CliGoes
  <2>2. Idler(CliCharge(c, st), c)
    BY <1>2, ChargeIdles
  <2>3. relays' = relays /\ met' = met
    BY <2>1 DEF Same
  <2>4. CliCharge(c, st) \in ToldClients(decided', met', p)
    BY <1>2, <2>2, <2>3 DEF Idler, Owes, GoesOn, ToldClients
  <2>5. ClientsTold'
    BY <2>1, <2>3, <2>4, ClientMovesTold
  <2>6. net' \subseteq ToldMsgs(decided, met)
    BY <1>3, <2>1, WriteKeeps DEF ToldInv, WireTold
  <2> QED BY <2>3, <2>5, <2>6 DEF WireTold
<1>4. \A m \in Notice(c, p) : {m} \subseteq ToldMsgs(decided, met)
  <2>1. CASE c.to = NoAddr
    BY <2>1 DEF Notice
  <2>2. CASE c.to # NoAddr /\ c.info = "HELLO"
    <3>1. c.to \in Node
      BY <1>2, <2>2 DEF Addr
    <3>2. \A r \in JunkRelayIDs : /\ HelloMsg(p, c.to, r) \in Msgs
                                 /\ HelloMsg(p, c.to, r).info = "HELLO"
                                 /\ HelloMsg(p, c.to, r).rid = r
      BY <3>1, BdgClientAssumption DEF HelloMsg, Msgs
    <3>3. \A r \in JunkRelayIDs : HelloMsg(p, c.to, r) \in ToldMsgs(decided, met)
      BY <3>2 DEF ToldMsgs
    <3> QED BY <2>2, <3>3 DEF Notice
  <2>3. CASE c.to # NoAddr /\ c.info # "HELLO"
    <3> DEFINE m == Plain(c.info, p, c.to)
    <3>1. c.to \in Node /\ c.info \in PlainInfo
      BY <1>2, <2>3 DEF Addr, PlainInfo
    <3>2. m \in Msgs /\ m.info = c.info /\ m.from = p
      BY <3>1, PlainMsgs DEF Plain
    <3>3. Notice(c, p) = {m}
      BY <2>3 DEF Notice
    <3> HIDE DEF m
    <3>4. m \in ToldMsgs(decided, met)
      BY <1>2, <2>3, <3>2 DEF ToldMsgs, ToldClients
    <3> QED BY <3>3, <3>4
  <2> QED BY <2>1, <2>2, <2>3
<1>5. CASE \E m \in Notice(c, p) : CliSends(p, {m})
  BY <1>3, <1>4, <1>5
<1>6. CASE CliSends(p, {})
  <2>1. {} \subseteq ToldMsgs(decided, met)
    OBVIOUS
  <2> QED BY <1>3, <1>6, <2>1
<1>7. CASE CliLast(p, CliAt(c, "Wait"))
  <2>1. Idler(CliAt(c, "Wait"), cli[p])
    BY <1>1, <1>2, AtIdles DEF CliStep
  <2>2. Idles(p) /\ Same
    BY <1>7, <2>1, LastIdles
  <2>3. relays' = relays /\ met' = met /\ met \subseteq met'
    BY <2>2 DEF Same
  <2> QED BY <2>2, <2>3, IdlesTold
<1> QED BY <1>1, <1>5, <1>6, <1>7 DEF MultiSendPolled

LEMMA StartIdles ==
  ASSUME NEW p \in Node, NEW c
  PROVE  Idler(StartCli(p), c)
<1>1. StartCli(p) \in CliRec
  BY CliStarts DEF GoodClients
<1>2. StartCli(p).step \notin {"DoConnect", "MultiSend"}
  BY DEF StartCli, NewCli
<1> QED BY <1>1, <1>2 DEF Idler, Owes

LEMMA RestartTold ==
  ASSUME WireOK, ClientsOK, ToldInv, decided' = decided, NEW p \in Node, CliRestart(p)
  PROVE  ClientsTold' /\ WireTold' /\ RelaysTold' /\ met' = met
<1>1. /\ cli' = [cli EXCEPT ![p] = StartCli(p)] /\ relays' = [relays EXCEPT ![p] = <<>>]
      /\ UNCHANGED <<wire, met>> /\ met \subseteq met'
  BY DEF CliRestart, CliGoes
<1>2. Idles(p)
  <2>1. Idler(StartCli(p), cli[p]) /\ {} \subseteq IdleMsgs /\ UNCHANGED wire
    BY <1>1, StartIdles
  <2> QED BY <1>1, <2>1 DEF Idles
<1>3. ClientsTold' /\ WireTold'
  BY <1>1, <1>2, IdlesTold
<1>4. RelaysTold'
  <2>1. \A k \in Node : relays'[k] = IF k = p THEN <<>> ELSE relays[k]
    BY <1>1 DEF ToldInv, RelaysTold
  <2>2. DOMAIN relays' = Node /\ relays' = [k \in Node |-> relays'[k]]
    BY <1>1 DEF ToldInv, RelaysTold
  <2>3. \A k \in Node : <<>> \in Seq(ToldRelays(decided, k))
    OBVIOUS
  <2> QED BY <2>1, <2>2, <2>3 DEF ToldInv, RelaysTold
<1> QED BY <1>1, <1>3, <1>4

LEMMA ClientStepTold ==
  ASSUME WireOK, ClientsOK, ToldInv, decided' = decided, NEW p \in Node, ClientStep(p)
  PROVE  ClientsTold' /\ WireTold' /\ RelaysTold' /\ met \subseteq met'
<1>1. ASSUME Idles(p), UNCHANGED <<relays, met>>
      PROVE  ClientsTold' /\ WireTold' /\ RelaysTold' /\ met \subseteq met'
  <2>1. decided \subseteq decided' /\ met \subseteq met'
    BY <1>1
  <2>2. ClientsTold' /\ WireTold'
    BY <1>1, <2>1, IdlesTold
  <2> QED BY <1>1, <2>1, <2>2, StayTold
<1>2. Idles(p) /\ Same => ClientsTold' /\ WireTold' /\ RelaysTold' /\ met \subseteq met'
  BY <1>1 DEF Same
<1>3. ASSUME ClientsTold', WireTold', relays' = relays, met \subseteq met'
      PROVE  ClientsTold' /\ WireTold' /\ RelaysTold' /\ met \subseteq met'
  <2>1. decided \subseteq decided'
    OBVIOUS
  <2> QED BY <1>3, <2>1, StayTold
<1>4. CASE RegisterHears(p) \/ RegisterPolled(p)
  BY <1>2, <1>4, RegisterIdles
<1>5. CASE WaitPolled(p) \/ WaitAnswers(p) \/ WaitHearsEcho(p)
  BY <1>2, <1>5, WaitIdles
<1>6. CASE RequireHears(p) \/ RequirePolled(p)
  BY <1>2, <1>6, RequireIdles
<1>7. CASE WaitHearsConnectAddr(p)
  <2>1. ClientsTold' /\ WireTold' /\ Same
    BY <1>7, WaitHearsConnectAddrTold
  <2> QED BY <1>3, <2>1 DEF Same
<1>8. CASE WaitHearsHello(p)
  BY <1>8, WaitHearsHelloTold
<1>9. CASE DoConnectHears(p) \/ DoConnectPolled(p)
  BY <1>3, <1>9, DoConnectTold
<1>10. CASE MultiSendPolled(p)
  BY <1>3, <1>10, MultiSendTold
<1>11. CASE \E i \in DOMAIN relays[p] : RelayEnds(p, i)
  <2>1. PICK i \in DOMAIN relays[p] : RelayEnds(p, i)
    BY <1>11
  <2>2. UNCHANGED <<net, cli, met>> /\ decided \subseteq decided' /\ met \subseteq met' /\ RelaysTold
    BY <2>1 DEF RelayEnds, wire, ToldInv
  <2>3. ClientsTold' /\ WireTold'
    BY <2>2, StayTold
  <2>4. RelaysTold'
    BY <2>1, <2>2, RelayEndsTold
  <2> QED BY <2>2, <2>3, <2>4
<1>12. CASE \/ \E n \in Typed : Connect(p, n) \/ Overwrite(p, n)
            \/ \E q \in Node : Direct(p, q, SubAddrs)
  BY <1>1, <1>12, CommandsIdle
<1> QED BY <1>4, <1>5, <1>6, <1>7, <1>8, <1>9, <1>10, <1>11, <1>12
     DEF ClientStep, CliHears, CliPolled

LEMMA InitTold ==
  ASSUME Init
  PROVE  ToldInv
<1>1. DecidedOK /\ WireTold /\ BridgedTold
  BY DEF Init, DecidedOK, WireTold, BridgedTold
<1>2. RelaysTold
  <2>1. \A p \in Node : relays[p] = <<>> /\ <<>> \in Seq(ToldRelays(decided, p))
    BY DEF Init
  <2>2. DOMAIN relays = Node /\ relays = [p \in Node |-> relays[p]]
    BY DEF Init
  <2> QED BY <2>1, <2>2 DEF RelaysTold
<1>3. \A p \in Node : cli[p] \in CliRec /\ cli[p].step \notin {"DoConnect", "MultiSend"}
  <2>1. \A p \in Node : cli[p] \in CliRec
    BY InitKept DEF ClientsOK
  <2>2. \A p \in Node : Up(p).step = "Wait" \/ Up(p) = StartCli(p)
    <3> SUFFICES ASSUME NEW p \in Node PROVE Up(p).step = "Wait"
      OBVIOUS
    <3>1. PICK c : c = StartCli(p)
      OBVIOUS
    <3>2. c \in CliRec
      BY <3>1, CliStarts DEF GoodClients
    <3>3. [c EXCEPT !.step = "Wait", !.connected = TRUE, !.first = FALSE].step = "Wait"
      BY <3>2 DEF CliRec
    <3> QED BY <3>1, <3>3 DEF Up
  <2>3. \A p \in Node : StartCli(p).step \in {"Wait", "Register"}
    BY DEF StartCli, NewCli
  <2> QED BY <2>1, <2>2, <2>3 DEF Init
<1>4. ClientsTold
  BY <1>3 DEF ClientsTold, ToldClients
<1>5. SubsTold
  <2>1. \A p \in AlreadyUp : UpSub(p) \in ToldSubs(decided, met)
    <3> SUFFICES ASSUME NEW p \in AlreadyUp PROVE UpSub(p) \in ToldSubs(decided, met)
      OBVIOUS
    <3>1. NewSub(p) \in LedSubs /\ NewSub(p) \in SubRec
      BY BridgeAssumption, SubFacts
    <3>2. UpSub(p) \in LedSubs /\ UpSub(p).step = "RequireServer"
      BY <3>1, AtFacts DEF UpSub, SubStep, FreeStep
    <3> QED BY <3>2 DEF ToldSubs, Leading
  <2>2. \A n \in Registered : \E p \in AlreadyUp : sub[n] = UpSub(p)
    <3> SUFFICES ASSUME NEW n \in Registered PROVE \E p \in AlreadyUp : sub[n] = UpSub(p)
      OBVIOUS
    <3>1. n \in Name /\ sub[n] # NoSub
      BY DEF Registered
    <3>2. \E p \in AlreadyUp : NameOf[p] = n
      BY <3>1 DEF Init
    <3>3. sub[n] = UpSub(CHOOSE p \in AlreadyUp : NameOf[p] = n)
      BY <3>1, <3>2 DEF Init
    <3> QED BY <3>2, <3>3
  <2> QED BY <2>1, <2>2 DEF SubsTold
<1> QED BY <1>1, <1>2, <1>4, <1>5 DEF ToldInv

LEMMA NextTold ==
  ASSUME WireOK, SubsOK, SeedsOK, ClientsOK, ToldInv, [Next]_vars
  PROVE  ToldInv'
<1>1. CASE ServerStep
  <2>1. cli' = cli /\ relays' = relays /\ met' = met /\ met \subseteq met'
    BY <1>1 DEF ServerStep, client
  <2>2. WireTold' /\ SubsTold' /\ DecidedOK' /\ BridgedTold' /\ decided \subseteq decided'
    <3>1. CASE ServerHears
      <4>1. WireTold' /\ SubsTold' /\ decided' = decided /\ bridged' = bridged
        BY <2>1, <3>1, ServerHearsTold
      <4> QED BY <2>1, <4>1, StayTold DEF ToldInv, DecidedOK
    <3>2. CASE \E n \in Name : SubPolled(n)
      BY <2>1, <3>2, SubPolledTold
    <3> QED BY <1>1, <3>1, <3>2 DEF ServerStep
  <2>3. ClientsTold' /\ RelaysTold'
    BY <2>1, <2>2, StayTold
  <2> QED BY <2>2, <2>3 DEF ToldInv
<1>2. ASSUME NEW p \in Node, ClientStep(p)
      PROVE  ToldInv'
  <2>1. UNCHANGED <<sub, decided, bridged>>
    BY <1>2 DEF ClientStep, server, history
  <2>2. ClientsTold' /\ WireTold' /\ RelaysTold' /\ met \subseteq met'
    BY <1>2, <2>1, ClientStepTold
  <2>3. SubsTold' /\ BridgedTold'
    BY <2>1, <2>2, StayTold
  <2> QED BY <2>1, <2>2, <2>3 DEF ToldInv, DecidedOK
<1>3. ASSUME NEW p \in Node, Restart(p)
      PROVE  ToldInv'
  <2>1. CliRestart(p) /\ UNCHANGED <<decided, bridged>>
    BY <1>3 DEF Restart, CliRestart, ServerForgets, server, history
  <2>2. ClientsTold' /\ WireTold' /\ RelaysTold' /\ met' = met
    BY <2>1, RestartTold
  <2>3. SubsTold'
    <3>1. CASE ServerForgets
      BY <3>1 DEF ServerForgets, SubsTold, Registered
    <3>2. CASE UNCHANGED server
      BY <2>1, <2>2, <3>2, StayTold DEF server
    <3> QED BY <1>3, <3>1, <3>2 DEF Restart
  <2>4. BridgedTold'
    BY <2>1, <2>2, StayTold
  <2> QED BY <2>1, <2>2, <2>3, <2>4 DEF ToldInv, DecidedOK
<1>4. CASE UNCHANGED vars
  <2>1. UNCHANGED <<net, cli, relays, met, sub, decided, bridged>>
    BY <1>4 DEF vars, client, server, history, wire
  <2>2. WireTold' /\ SubsTold' /\ ClientsTold' /\ RelaysTold' /\ BridgedTold'
    BY <2>1, StayTold
  <2> QED BY <2>1, <2>2 DEF ToldInv, DecidedOK
<1> QED BY <1>1, <1>2, <1>3, <1>4 DEF Next, KeepAlive

LEMMA AlwaysTold == Spec => []ToldInv
<1> DEFINE Inv == (WireOK /\ SubsOK /\ SeedsOK /\ ClientsOK) /\ ToldInv
<1>1. Init => Inv
  BY InitKept, InitTold
<1>2. Inv /\ [Next]_vars => Inv'
  BY NextKept, NextTold
<1>3. Inv => ToldInv
  OBVIOUS
<1> QED BY <1>1, <1>2, <1>3, PTL DEF Spec

\* What a report is worth: when the server says that a connection was bridged,
\* each side that was to connect has reached one of those it was ever told to
\* connect to, however messages are lost, late or repeated and whoever is
\* restarted meanwhile.
THEOREM BridgedSidesReached == Spec => []BridgedTold
<1>1. ToldInv => BridgedTold
  BY DEF ToldInv
<1> QED BY <1>1, AlwaysTold, PTL

\* Nobody has been told to connect to two addresses.
OneTarget ==
  \A d, e \in decided, x, y, z \in Node : Leads(d, x, y) /\ Leads(e, x, z) => y = z

\* As long as nobody has been told to connect to two addresses, bridged means
\* met: ESTABLISHED of a side then says that it has started the session the
\* decision is about.  A peer that has two addresses to connect to makes it
\* fail, as ConnectAddrHears compares nothing but the sender.
THEOREM BridgedWhenOneTarget == Spec => [](OneTarget => BridgedMeansMet)
<1>1. ToldInv /\ OneTarget => BridgedMeansMet
  <2> SUFFICES ASSUME ToldInv, OneTarget, NEW d \in bridged
               PROVE  IF d[3] = NoAddr THEN <<d[1], d[2]>> \in met \/ <<d[2], d[1]>> \in met
                      ELSE <<d[1], d[3]>> \in met /\ <<d[2], d[3]>> \in met
    BY DEF BridgedMeansMet
  <2>1. d \in decided /\ \A x, y \in Node : Leads(d, x, y) => Reached(decided, met, x)
    BY DEF ToldInv, BridgedTold
  <2>2. d[1] \in Node /\ d[2] \in Node /\ (d[3] # NoAddr => d[3] \in Node)
    BY <2>1 DEF ToldInv, DecidedOK, Node
  <2>3. ASSUME NEW x \in Node, NEW y \in Node, Leads(d, x, y)
        PROVE  <<x, y>> \in met
    <3>1. PICK z \in Node : <<x, z>> \in met /\ Told(decided, x, z)
      BY <2>1, <2>3 DEF Reached
    <3>2. PICK e \in decided : Leads(e, x, z)
      BY <3>1 DEF Told
    <3>3. y = z
      BY <2>1, <2>3, <3>2 DEF OneTarget
    <3> QED BY <3>1, <3>3
  <2>4. CASE d[3] = NoAddr
    <3>1. Leads(d, d[1], d[2]) \/ Leads(d, d[2], d[1])
      BY <2>4 DEF Leads
    <3> QED BY <2>2, <2>3, <2>4, <3>1
  <2>5. CASE d[3] # NoAddr
    <3>1. Leads(d, d[1], d[3]) /\ Leads(d, d[2], d[3])
      BY <2>5 DEF Leads
    <3> QED BY <2>2, <2>3, <2>5, <3>1
  <2> QED BY <2>4, <2>5
<1>2. ToldInv => (OneTarget => BridgedMeansMet)
  BY <1>1
<1> QED BY <1>2, AlwaysTold, PTL

\* A seed relays for those it was chosen for: whoever takes a place in a relay
\* of a number that no unset RelayID can have is a side of a request the server
\* gave this seed and this number to, although the number only travels through
\* the peers.
THEOREM RelaysAsNumbered == Spec => []RelaysTold
<1>1. ToldInv => RelaysTold
  BY DEF ToldInv
<1> QED BY <1>1, AlwaysTold, PTL

\* No seed has been given one number for two pairs of peers, nor a number that
\* an unset RelayID may have.
NumberedOnce ==
  \A d, e \in decided :
    d[3] # NoAddr =>
      /\ d[4] \notin JunkRelayIDs
      /\ d[3] = e[3] /\ d[4] = e[4] => {d[1], d[2]} = {e[1], e[2]}

\* A relay of a number the server has given to its seed has nobody in it but
\* the sides of one request of that number.
RelayJoinsOneRequest ==
  \A p \in Node : \A i \in DOMAIN relays[p] :
    LET r  == relays[p][i]
        ds == {d \in decided : d[3] = p /\ d[4] = r.id}
    IN  ds # {} =>
          \E d \in ds : {r.peer0, r.peer1} \ {NoAddr} \subseteq {d[1], d[2]}

\* As long as no number of a seed is used again (sta_AccRelayID has not come
\* round and the server has not been restarted) and none is hit by an unset
\* RelayID, no relay has sides of two requests, for any number of requests at a
\* time: the numbers are not mixed up between the server, the peers that carry
\* them and the seed.  It does not say that both places are taken by different
\* sides: a peer whose HELLO comes twice is merged with itself (relay.c 173).
THEOREM RelaysJoinOneRequest == Spec => [](NumberedOnce => RelayJoinsOneRequest)
<1>1. ToldInv /\ NumberedOnce => RelayJoinsOneRequest
  <2> SUFFICES ASSUME ToldInv, NumberedOnce, NEW p \in Node, NEW i \in DOMAIN relays[p],
                      NEW d \in decided, d[3] = p, d[4] = relays[p][i].id,
                      NEW q \in {relays[p][i].peer0, relays[p][i].peer1} \ {NoAddr}
               PROVE  q \in {d[1], d[2]}
    BY DEF RelayJoinsOneRequest
  <2>1. relays[p][i] \in ToldRelays(decided, p)
    BY ElementOfSeq, LenProperties DEF ToldInv, RelaysTold
  <2>2. d[3] # NoAddr
    BY BdgMsgAssumption DEF Node
  <2>3. relays[p][i].id \notin JunkRelayIDs
    BY <2>2 DEF NumberedOnce
  <2>4. PICK e \in decided : e[3] = p /\ e[4] = relays[p][i].id /\ q \in {e[1], e[2]}
    BY <2>1, <2>3 DEF ToldRelays, Numbered
  <2>5. {d[1], d[2]} = {e[1], e[2]}
    BY <2>2, <2>4 DEF NumberedOnce
  <2> QED BY <2>4, <2>5
<1>2. ToldInv => (NumberedOnce => RelayJoinsOneRequest)
  BY <1>1
<1> QED BY <1>2, AlwaysTold, PTL

(***************************************************************************)
(* The way back.  What SubReturns and ClientReturns need besides fairness: *)
(* a process that has left its wait step has a last step before it, and    *)
(* nothing it hears, and no time that runs out, takes it further away.     *)
(***************************************************************************)

\* The tries a step has left.
Tries(d) == d.retrys + (IF d.first THEN 1 ELSE 0)

\* How many steps a sub server has before it, at most.
SubPhase(d) ==
  CASE d.step = "RequireReply" -> 9
    [] d.step = "Decision"     -> CASE d.flag = "BEGIN" -> 8
                                    [] d.flag = "A_SIDE_RELAY" -> 5
                                    [] OTHER -> 2
    [] d.step = "Punching"     -> IF d.flag = "B_SIDE_RELAY" THEN 4 ELSE 7
    [] d.step = "ConnectAddr"  -> IF d.flag = "B_SIDE_RELAY" THEN 3 ELSE 6
    [] d.step \in {"Begin", "ErrReturn"} -> 1
    [] OTHER -> 0

NearerSub(e, d) ==
  SubPhase(e) < SubPhase(d) \/ (SubPhase(e) = SubPhase(d) /\ Tries(e) < Tries(d))

\* A sub server that does not wait for a request only ever comes nearer to
\* waiting for one, or ends.
SubComesBack(n) ==
  sub[n].step # "RequireServer" /\ sub'[n] # sub[n] => sub'[n] = NoSub \/ NearerSub(sub'[n], sub[n])

SubsComeBack == [][\A n \in Registered : SubComesBack(n)]_vars

CliPhase(c) ==
  CASE c.step = "DoConnect" -> 2
    [] c.step \in {"Register", "Require", "MultiSend"} -> 1
    [] OTHER -> 0

NearerCli(e, c) ==
  CliPhase(e) < CliPhase(c) \/ (CliPhase(e) = CliPhase(c) /\ Tries(e) < Tries(c))

\* The user's commands only change what the client will do when it is back.
SameTurn(e, c) == e.step = c.step /\ e.retrys = c.retrys /\ e.first = c.first

\* A client that has left its wait step only ever comes nearer to it, or ends,
\* unless it is restarted.
CliComesBack(p) ==
  cli[p].step \notin {"Wait", "Ended"} =>
    NearerCli(cli'[p], cli[p]) \/ SameTurn(cli'[p], cli[p]) \/ CliRestart(p)

ClientsComeBack == [][\A p \in Node : CliComesBack(p)]_vars

LEMMA SubHearsNearer ==
  ASSUME SubsOK, NEW d \in LedSubs, d.step # "RequireServer", NEW m, SubHears(d, m) # d
  PROVE  NearerSub(SubHears(d, m), d)
<1>1. PICK e : e = SubHears(d, m)
  OBVIOUS
<1>2. d \in SubRec /\ d.step \in SubStep
  BY DEF LedSubs, SubRec
<1>3. At(d, "RequireServer").step = "RequireServer"
  BY <1>2, AtFacts DEF SubStep
<1>4. CASE d.step \in {"Begin", "ErrReturn"}
  <2>1. e = At(d, "RequireServer")
    BY <1>1, <1>4 DEF SubHears, BeginHears, ErrReturnHears
  <2> QED BY <1>1, <1>3, <1>4, <2>1 DEF NearerSub, SubPhase
<1>5. CASE d.step = "RequireReply"
  <2>1. PICK f : f = At(d, "Decision")
    OBVIOUS
  <2>2. [f EXCEPT !.flag = "BEGIN"].flag = "BEGIN" /\ [f EXCEPT !.flag = "BEGIN"].step = "Decision"
    BY <1>2, <2>1, AtFacts DEF SubRec, SubStep
  <2>3. e.step = "RequireServer" \/ (e.step = "Decision" /\ e.flag = "BEGIN")
    BY <1>1, <1>3, <1>5, <2>1, <2>2 DEF SubHears, RequireReplyHears
  <2> QED BY <1>1, <1>5, <2>3 DEF NearerSub, SubPhase
<1>6. CASE d.step = "Punching"
  <2>1. e = At(d, "ConnectAddr")
    BY <1>1, <1>6 DEF SubHears, PunchingHears
  <2>2. e.step = "ConnectAddr" /\ e.flag = d.flag
    BY <1>2, <2>1, AtFacts DEF SubStep
  <2> QED BY <1>1, <1>6, <2>2 DEF NearerSub, SubPhase
<1>7. CASE d.step = "ConnectAddr"
  <2>1. e = At(d, "Decision")
    BY <1>1, <1>7 DEF SubHears, ConnectAddrHears
  <2>2. e.step = "Decision" /\ e.flag = d.flag /\ d.flag \in {"DIRECT", "A_SIDE_RELAY", "B_SIDE_RELAY"}
    BY <1>2, <1>7, <2>1, AtFacts DEF SubStep, LedSubs
  <2> QED BY <1>1, <1>7, <2>2 DEF NearerSub, SubPhase
<1>8. CASE d.step = "Decision"
  BY <1>8 DEF SubHears
<1> QED BY <1>2, <1>4, <1>5, <1>6, <1>7, <1>8 DEF SubStep

LEMMA SubStays ==
  ASSUME SubsOK, NEW n \in Registered, NEW d, sub' = [sub EXCEPT ![n] = d],
         d = NoSub \/ NearerSub(d, sub[n])
  PROVE  \A k \in Registered : SubComesBack(k)
<1>1. \A k \in Registered : sub'[k] = IF k = n THEN d ELSE sub[k]
  BY DEF SubsOK, Registered
<1> QED BY <1>1 DEF SubComesBack

LEMMA DecisionNearer ==
  ASSUME SubsOK, NEW n \in Registered, Decision(n)
  PROVE  \A k \in Registered : SubComesBack(k)
<1>1. PICK x : x = sub[n]
  OBVIOUS
<1>2. x \in SubRec /\ x.step = "Decision"
  BY <1>1, SubFacts DEF SubsOK, Registered, Decision, SubAt
<1>3. PICK p, e : p = At(x, "Punching") /\ e = At(x, "ErrReturn")
  OBVIOUS
<1>4. /\ p \in SubRec /\ p.step = "Punching" /\ e \in SubRec /\ e.step = "ErrReturn"
      /\ At(x, "RequireServer").step = "RequireServer"
  BY <1>2, <1>3, AtFacts DEF SubStep
<1>5. CASE DecideRelay(n)
  <2> DEFINE d == [p EXCEPT !.s = SeedPeerSelectOne, !.pun = SeedPeerSelectOne, !.con = x.a,
                            !.flag = "A_SIDE_RELAY", !.rid = accRelayID]
  <2>1. sub' = [sub EXCEPT ![n] = d] /\ x.flag = "BEGIN"
    BY <1>1, <1>3, <1>5 DEF DecideRelay, SubGoes
  <2>2. d.step = "Punching" /\ d.flag = "A_SIDE_RELAY"
    BY <1>4 DEF SubRec
  <2> HIDE DEF d
  <2>3. NearerSub(d, sub[n])
    BY <1>1, <1>2, <2>1, <2>2 DEF NearerSub, SubPhase
  <2> QED BY <2>1, <2>3, SubStays
<1>6. CASE DecideNoSeed(n)
  <2> DEFINE d == [e EXCEPT !.err = "NO_SEED_TO_RELAY"]
  <2>1. sub' = [sub EXCEPT ![n] = d] /\ x.flag = "BEGIN"
    BY <1>1, <1>3, <1>6 DEF DecideNoSeed, SubGoes
  <2>2. d.step = "ErrReturn"
    BY <1>4 DEF SubRec
  <2> HIDE DEF d
  <2>3. NearerSub(d, sub[n])
    BY <1>1, <1>2, <2>1, <2>2 DEF NearerSub, SubPhase
  <2> QED BY <2>1, <2>3, SubStays
<1>7. CASE DecideDirect(n)
  <2> DEFINE y == IF NATOf[x.a] < NATOf[x.b] THEN x.a ELSE x.b
             z == IF NATOf[x.a] < NATOf[x.b] THEN x.b ELSE x.a
             d == [p EXCEPT !.pun = y, !.con = z, !.flag = "DIRECT", !.rid = 0]
  <2>1. sub' = [sub EXCEPT ![n] = d] /\ x.flag = "BEGIN"
    BY <1>1, <1>3, <1>7 DEF DecideDirect, SubGoes
  <2> HIDE DEF y, z
  <2>2. d.step = "Punching" /\ d.flag = "DIRECT"
    BY <1>4 DEF SubRec
  <2> HIDE DEF d
  <2>3. NearerSub(d, sub[n])
    BY <1>1, <1>2, <2>1, <2>2 DEF NearerSub, SubPhase
  <2> QED BY <2>1, <2>3, SubStays
<1>8. CASE DecideBSide(n)
  <2> DEFINE d == [p EXCEPT !.pun = x.s, !.con = x.b, !.flag = "B_SIDE_RELAY"]
  <2>1. sub' = [sub EXCEPT ![n] = d] /\ x.flag = "A_SIDE_RELAY"
    BY <1>1, <1>3, <1>8 DEF DecideBSide, SubGoes
  <2>2. d.step = "Punching" /\ d.flag = "B_SIDE_RELAY"
    BY <1>4 DEF SubRec
  <2> HIDE DEF d
  <2>3. NearerSub(d, sub[n])
    BY <1>1, <1>2, <2>1, <2>2 DEF NearerSub, SubPhase
  <2> QED BY <2>1, <2>3, SubStays
<1>9. CASE DecideBridged(n)
  <2>1. /\ sub' = [sub EXCEPT ![n] = At(x, "RequireServer")]
        /\ x.flag \in {"DIRECT", "B_SIDE_RELAY"}
    BY <1>1, <1>9 DEF DecideBridged, SubGoes
  <2>2. NearerSub(At(x, "RequireServer"), sub[n])
    BY <1>1, <1>2, <1>4, <2>1 DEF NearerSub, SubPhase
  <2> QED BY <2>1, <2>2, SubStays
<1>10. CASE DecideErr(n)
  <2> DEFINE d == [e EXCEPT !.err = "ERROR"]
  <2>1. sub' = [sub EXCEPT ![n] = d] /\ x.flag = "ERR"
    BY <1>1, <1>3, <1>10 DEF DecideErr, SubGoes
  <2>2. d.step = "ErrReturn"
    BY <1>4 DEF SubRec
  <2> HIDE DEF d
  <2>3. NearerSub(d, sub[n])
    BY <1>1, <1>2, <2>1, <2>2 DEF NearerSub, SubPhase
  <2> QED BY <2>1, <2>3, SubStays
<1> QED BY <1>5, <1>6, <1>7, <1>8, <1>9, <1>10 DEF Decision

LEMMA SubPolledNearer ==
  ASSUME SubsOK, NEW n \in Name, SubPolled(n)
  PROVE  \A k \in Registered : SubComesBack(k)
<1>1. n \in Registered
  BY DEF SubPolled, BeginPolled, RequireServerPolled, RequireReplyPolled, Decision,
         PunchingPolled, ConnectAddrPolled, ErrReturnPolled, SubAt, Registered
<1>2. sub[n] \in SubRec
  BY <1>1, SubFacts DEF SubsOK, Registered
<1>3. CASE \E S : SubSends(n, S)
  <2>1. sub' = [sub EXCEPT ![n] = SubCharge(n)] /\ MaySend(n)
    BY <1>3 DEF SubSends, SubGoes
  <2>2. PICK d : d = SubCharge(n)
    OBVIOUS
  <2>3. PICK r \in Nat, f \in BOOLEAN : r = sub[n].retrys /\ f = sub[n].first
    BY <1>2, BdgServerAssumption DEF SubRec
  <2>4. d.step = sub[n].step /\ d.flag = sub[n].flag
    BY <1>2, <2>2 DEF SubCharge, SubRec
  <2>5. /\ f => d.first = FALSE /\ d.retrys = r
        /\ ~f => d.first = FALSE /\ d.retrys = r - 1
    BY <1>2, <2>2, <2>3 DEF SubCharge, SubRec
  <2>6. SubPhase(d) = SubPhase(sub[n])
    BY <2>4 DEF SubPhase
  <2>7. Tries(d) < Tries(sub[n])
    BY <2>3, <2>5 DEF Tries
  <2> QED BY <1>1, <2>1, <2>2, <2>6, <2>7, SubStays DEF NearerSub
<1>4. CASE SubEnds(n)
  BY <1>1, <1>4, SubStays DEF SubEnds
<1>5. ASSUME NEW d, SubGivesUp(n, d), NearerSub(d, sub[n])
      PROVE  \A k \in Registered : SubComesBack(k)
  BY <1>1, <1>5, SubStays DEF SubGivesUp, SubGoes
<1>6. CASE BeginPolled(n)
  BY <1>3, <1>4, <1>6 DEF BeginPolled
<1>7. CASE RequireServerPolled(n)
  BY <1>3, <1>4, <1>7 DEF RequireServerPolled
<1>8. CASE RequireReplyPolled(n)
  <2>1. At(sub[n], "RequireServer").step = "RequireServer" /\ sub[n].step = "RequireReply"
    BY <1>2, <1>8, AtFacts DEF SubStep, RequireReplyPolled, SubAt
  <2>2. NearerSub(At(sub[n], "RequireServer"), sub[n])
    BY <2>1 DEF NearerSub, SubPhase
  <2> QED BY <1>3, <1>5, <1>8, <2>2 DEF RequireReplyPolled
<1>9. CASE PunchingPolled(n) \/ ConnectAddrPolled(n)
  <2>1. sub[n].step \in {"Punching", "ConnectAddr"}
    BY <1>9 DEF PunchingPolled, ConnectAddrPolled, SubAt
  <2>2. PICK e : e = At(sub[n], "Decision")
    OBVIOUS
  <2>3. e \in SubRec /\ e.step = "Decision"
    BY <1>2, <2>2, AtFacts DEF SubStep
  <2> DEFINE d == [e EXCEPT !.flag = "ERR"]
  <2>4. d.step = "Decision" /\ d.flag = "ERR"
    BY <2>3 DEF SubRec
  <2>5. (\E S : SubSends(n, S)) \/ SubGivesUp(n, d)
    BY <1>9, <2>2 DEF PunchingPolled, ConnectAddrPolled
  <2> HIDE DEF d
  <2>6. NearerSub(d, sub[n])
    BY <2>1, <2>4 DEF NearerSub, SubPhase
  <2> QED BY <1>3, <1>5, <2>5, <2>6
<1>10. CASE ErrReturnPolled(n)
  BY <1>3, <1>4, <1>10 DEF ErrReturnPolled
<1>11. CASE Decision(n)
  BY <1>1, <1>11, DecisionNearer
<1> QED BY <1>6, <1>7, <1>8, <1>9, <1>10, <1>11 DEF SubPolled

LEMMA ServerHearsNearer ==
  ASSUME WireOK, SubsOK, ServerHears
  PROVE  \A n \in Registered : SubComesBack(n)
<1>1. ASSUME NEW m \in net, Register(m)
      PROVE  \A n \in Registered : SubComesBack(n)
  <2>1. \A n \in Registered : sub'[n] = sub[n]
    BY <1>1 DEF Register, server, SubGoes, SubsOK, Registered
  <2> QED BY <2>1 DEF SubComesBack
<1>2. ASSUME NEW m \in net, SubsHear(m)
      PROVE  \A n \in Registered : SubComesBack(n)
  <2>1. \A n \in Registered : sub'[n] = SubHears(sub[n], m) /\ sub[n] \in LedSubs
    BY <1>2 DEF SubsHear, SubsOK, Registered
  <2> QED BY <2>1, SubHearsNearer DEF SubComesBack
<1> QED BY <1>1, <1>2 DEF ServerHears, Mail

\* The safety half of SubReturns: whatever messages come, late, lost or
\* repeated, a sub server that took a request on makes no step away from the
\* next one; with its tries used up it is there.
THEOREM SubsGoBack == Spec => SubsComeBack
<1>1. WireOK /\ SubsOK /\ [Next]_vars => [\A n \in Registered : SubComesBack(n)]_vars
  <2> SUFFICES ASSUME WireOK, SubsOK, Next PROVE \A n \in Registered : SubComesBack(n)
    OBVIOUS
  <2>1. CASE ServerStep
    BY <2>1, ServerHearsNearer, SubPolledNearer DEF ServerStep
  <2>2. CASE UNCHANGED sub
    BY <2>2 DEF SubComesBack
  <2>3. ASSUME NEW p \in Node, Restart(p)
        PROVE  \A n \in Registered : SubComesBack(n)
    <3>1. UNCHANGED sub \/ \A n \in Name : sub'[n] = NoSub
      BY <2>3 DEF Restart, ServerForgets, server
    <3> QED BY <2>2, <3>1 DEF SubComesBack, Registered
  <2>4. (\E p \in Node : ClientStep(p)) \/ KeepAlive => UNCHANGED sub
    BY DEF ClientStep, KeepAlive, vars, server
  <2> QED BY <2>1, <2>2, <2>3, <2>4 DEF Next
<1> QED BY <1>1, AlwaysKept, PTL DEF Spec, SubsComeBack

LEMMA CliStays ==
  ASSUME ClientsOK, NEW p \in Node, NEW c, cli' = [cli EXCEPT ![p] = c],
         cli[p].step \notin {"Wait", "Ended"} => NearerCli(c, cli[p]) \/ SameTurn(c, cli[p])
  PROVE  \A q \in Node : CliComesBack(q)
<1>1. \A q \in Node : cli'[q] = IF q = p THEN c ELSE cli[q]
  BY DEF ClientsOK
<1> QED BY <1>1 DEF CliComesBack, SameTurn

LEMMA SendsNearer ==
  ASSUME ClientsOK, NEW p \in Node, NEW S, CliSends(p, S)
  PROVE  \A q \in Node : CliComesBack(q)
<1>1. PICK st \in PollStates(cli[p]) \cap {"FIRST", "OVERTIME"} :
        cli' = [cli EXCEPT ![p] = CliCharge(cli[p], st)]
  BY DEF CliSends, CliGoes
<1>2. PICK c : c = cli[p]
  OBVIOUS
<1>3. c \in CliRec /\ st \in PollStates(c) /\ st \in {"FIRST", "OVERTIME"}
  BY <1>1, <1>2 DEF ClientsOK
<1>4. PICK r \in Nat, f \in BOOLEAN : r = c.retrys /\ f = c.first
  BY <1>3 DEF CliRec
<1>5. PICK d : d = CliCharge(c, st)
  OBVIOUS
<1>6. /\ d.step = c.step
      /\ f => d.first = FALSE /\ d.retrys = r
      /\ ~f => d.first = FALSE /\ d.retrys = r - 1
  BY <1>3, <1>4, <1>5 DEF CliCharge, CliRec, PollStates
<1>7. CliPhase(d) = CliPhase(c)
  BY <1>6 DEF CliPhase
<1>8. Tries(d) < Tries(c)
  BY <1>4, <1>6 DEF Tries
<1>9. NearerCli(d, cli[p])
  BY <1>2, <1>7, <1>8 DEF NearerCli
<1> QED BY <1>1, <1>2, <1>5, <1>9, CliStays

LEMMA LastNearer ==
  ASSUME ClientsOK, NEW p \in Node, NEW c, CliPhase(c) < CliPhase(cli[p]), CliLast(p, c)
  PROVE  \A q \in Node : CliComesBack(q)
<1>1. cli' = [cli EXCEPT ![p] = c] /\ NearerCli(c, cli[p])
  BY DEF CliLast, CliGoes, NearerCli
<1> QED BY <1>1, CliStays

LEMMA EndPhase ==
  ASSUME NEW c \in CliRec
  PROVE  CliPhase(CliEnd(c)) = 0
<1>1. CliEnd(c).step = "Ended"
  BY DEF CliEnd, CliRec
<1> QED BY <1>1 DEF CliPhase

LEMMA ClientStepNearer ==
  ASSUME ClientsOK, NEW p \in Node, ClientStep(p)
  PROVE  \A q \in Node : CliComesBack(q)
<1>1. PICK c : c = cli[p]
  OBVIOUS
<1>2. c \in CliRec /\ c \in GoodClients(p)
  BY <1>1 DEF ClientsOK
<1>3. ASSUME NEW d, cli' = [cli EXCEPT ![p] = d], CliPhase(d) < CliPhase(c)
      PROVE  \A q \in Node : CliComesBack(q)
  BY <1>1, <1>3, CliStays DEF NearerCli
<1>4. CASE c.step \in {"Wait", "Ended"} /\ \E d : cli' = [cli EXCEPT ![p] = d]
  BY <1>1, <1>4, CliStays
<1>5. /\ CliAt(c, "Wait") \in CliRec /\ CliAt(c, "Wait").step = "Wait"
      /\ CliAt(c, "MultiSend") \in CliRec /\ CliAt(c, "MultiSend").step = "MultiSend"
  BY <1>2, CliAtFacts DEF CliStep
<1>6. PICK w, s : w = CliAt(c, "Wait") /\ s = CliAt(c, "MultiSend")
  OBVIOUS
<1>7. CASE RegisterHears(p)
  <2> DEFINE d == [w EXCEPT !.connected = TRUE, !.fast = TRUE]
  <2>1. d.step = "Wait"
    BY <1>5, <1>6 DEF CliRec
  <2>2. CliPhase(d) = 0 /\ CliPhase(CliEnd(c)) = 0 /\ CliPhase(c) = 1
    BY <1>1, <1>2, <1>7, <2>1, EndPhase DEF CliPhase, RegisterHears
  <2>3. cli' = [cli EXCEPT ![p] = d] \/ cli' = [cli EXCEPT ![p] = CliEnd(c)]
    BY <1>1, <1>6, <1>7 DEF RegisterHears, CliGoes
  <2> HIDE DEF d
  <2> QED BY <1>3, <2>2, <2>3
<1>8. CASE RequireHears(p)
  <2> DEFINE D(f) == [w EXCEPT !.target = NoName, !.fast = f]
  <2>1. \A f \in BOOLEAN : D(f).step = "Wait"
    BY <1>5, <1>6 DEF CliRec
  <2>2. PICK f \in BOOLEAN : cli' = [cli EXCEPT ![p] = D(f)]
    <3>1. PICK m \in net : cli' = [cli EXCEPT ![p] =
                             [w EXCEPT !.target = NoName, !.fast = @ \/ m.info = "CONNECT_BEGIN"]]
      BY <1>1, <1>6, <1>8 DEF RequireHears, CliGoes, Mail
    <3>2. PICK f \in BOOLEAN : f = (w.fast \/ m.info = "CONNECT_BEGIN")
      OBVIOUS
    <3>3. cli' = [cli EXCEPT ![p] = [w EXCEPT !.target = NoName, !.fast = f]]
      BY <1>5, <1>6, <3>1, <3>2 DEF CliRec
    <3> QED BY <3>3
  <2> HIDE DEF D
  <2>3. CliPhase(D(f)) = 0 /\ CliPhase(c) = 1
    BY <1>1, <1>8, <2>1 DEF CliPhase, RequireHears
  <2>4. CliPhase(D(f)) < CliPhase(c)
    BY <2>3
  <2> QED BY <1>3, <2>2, <2>4
<1>9. CASE DoConnectHears(p)
  <2> DEFINE d == [s EXCEPT !.to = c.sx, !.info = "ESTABLISHED", !.direct = NoAddr]
  <2>1. d.step = "MultiSend"
    BY <1>5, <1>6 DEF CliRec
  <2>2. cli' = [cli EXCEPT ![p] = d] /\ c.step = "DoConnect"
    BY <1>1, <1>6, <1>9 DEF DoConnectHears, CliGoes
  <2> HIDE DEF d
  <2>3. CliPhase(d) = 1 /\ CliPhase(c) = 2
    BY <2>1, <2>2 DEF CliPhase
  <2>4. CliPhase(d) < CliPhase(c)
    BY <2>3
  <2> QED BY <1>3, <2>2, <2>4
<1>10. CASE \E S : CliSends(p, S)
  BY <1>10, SendsNearer
<1>11. CASE RegisterPolled(p) \/ RequirePolled(p)
  <2>1. CliPhase(CliEnd(c)) < CliPhase(c)
    <3>1. CliPhase(CliEnd(c)) = 0 /\ CliPhase(c) = 1
      BY <1>1, <1>2, <1>11, EndPhase DEF CliPhase, RegisterPolled, RequirePolled
    <3> QED BY <3>1
  <2>2. (\E S : CliSends(p, S)) \/ CliLast(p, CliEnd(c))
    BY <1>1, <1>11 DEF RegisterPolled, RequirePolled, CliSends
  <2> QED BY <1>1, <1>10, <2>1, <2>2, LastNearer
<1>12. CASE DoConnectPolled(p)
  <2> DEFINE d == [s EXCEPT !.to = c.sx, !.info = "ERR_CONNECT_ADDR", !.direct = NoAddr]
  <2>1. d.step = "MultiSend"
    BY <1>5, <1>6 DEF CliRec
  <2>2. c.step = "DoConnect" /\ ((\E S : CliSends(p, S)) \/ CliLast(p, d))
    BY <1>1, <1>6, <1>12 DEF DoConnectPolled
  <2> HIDE DEF d
  <2>3. CliPhase(d) = 1 /\ CliPhase(c) = 2
    BY <2>1, <2>2 DEF CliPhase
  <2>4. CliPhase(d) < CliPhase(cli[p])
    BY <1>1, <2>3
  <2> QED BY <1>10, <2>2, <2>4, LastNearer
<1>13. CASE MultiSendPolled(p)
  <2>1. CliPhase(w) = 0 /\ CliPhase(cli[p]) = 1
    BY <1>5, <1>6, <1>13 DEF CliPhase, MultiSendPolled
  <2>2. CliPhase(w) < CliPhase(cli[p])
    BY <2>1
  <2>3. (\E S : CliSends(p, S)) \/ CliLast(p, w)
    BY <1>1, <1>6, <1>13 DEF MultiSendPolled
  <2> QED BY <1>10, <2>2, <2>3, LastNearer
<1>14. CASE WaitAnswers(p) \/ WaitHearsEcho(p) \/ WaitHearsConnectAddr(p) \/ WaitHearsHello(p)
            \/ WaitPolled(p)
  BY <1>1, <1>4, <1>14 DEF WaitAnswers, WaitHearsEcho, WaitHearsConnectAddr, WaitHearsHello,
     WaitPolled, CliGoes
<1>15. CASE \E i \in DOMAIN relays[p] : RelayEnds(p, i)
  BY <1>15 DEF RelayEnds, CliComesBack, SameTurn
<1>16. CASE \E n \in Typed : Connect(p, n) \/ Overwrite(p, n)
  <2>1. PICK n \in Typed : cli' = [cli EXCEPT ![p] = [c EXCEPT !.target = n]]
    BY <1>1, <1>16 DEF Connect, Overwrite, CliGoes
  <2>2. SameTurn([c EXCEPT !.target = n], c)
    BY <1>2 DEF SameTurn, CliRec
  <2> QED BY <1>1, <2>1, <2>2, CliStays
<1>17. CASE \E q \in Node : Direct(p, q, SubAddrs)
  <2>1. PICK q \in Node : cli' = [cli EXCEPT ![p] = [c EXCEPT !.direct = q]]
    BY <1>1, <1>17 DEF Direct, CliGoes
  <2>2. SameTurn([c EXCEPT !.direct = q], c)
    BY <1>2 DEF SameTurn, CliRec
  <2> QED BY <1>1, <2>1, <2>2, CliStays
<1> QED BY <1>7, <1>8, <1>9, <1>11, <1>12, <1>13, <1>14, <1>15, <1>16, <1>17
     DEF ClientStep, CliHears, CliPolled

\* The safety half of ClientReturns: a client that has left its wait step makes
\* no step away from it, whatever it hears and is told to do; with its tries
\* used up it is back, or has ended.
THEOREM ClientsGoBack == Spec => ClientsComeBack
<1>1. ClientsOK /\ [Next]_vars => [\A p \in Node : CliComesBack(p)]_vars
  <2> SUFFICES ASSUME ClientsOK, Next PROVE \A p \in Node : CliComesBack(p)
    OBVIOUS
  <2>1. ASSUME NEW p \in Node, ClientStep(p)
        PROVE  \A q \in Node : CliComesBack(q)
    BY <2>1, ClientStepNearer
  <2>2. CASE UNCHANGED cli
    BY <2>2 DEF CliComesBack, SameTurn
  <2>3. ASSUME NEW p \in Node, Restart(p)
        PROVE  \A q \in Node : CliComesBack(q)
    <3>1. CliRestart(p) /\ \A q \in Node \ {p} : cli'[q] = cli[q]
      BY <2>3 DEF Restart, CliRestart, CliGoes, ClientsOK
    <3> QED BY <3>1 DEF CliComesBack, SameTurn
  <2>4. ServerStep \/ KeepAlive => UNCHANGED cli
    BY DEF ServerStep, KeepAlive, vars, client
  <2> QED BY <2>1, <2>2, <2>3, <2>4 DEF Next
<1> QED BY <1>1, AlwaysKept, PTL DEF Spec, ClientsComeBack
=============================================================================
