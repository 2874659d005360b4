------------------------------ MODULE StartUp ------------------------------
(***************************************************************************)
(* The program from reading tknet.info until its main loop, and what it    *)
(* leaves in tknet.info when it ends (main.c 215-292 and 346-351,          *)
(* keyinfo.c): configure, find the type of the NAT and agree on it twice,  *)
(* find a bridge peer, and read mails for new keys when none is left.      *)
(* Then it is started again, with the file it has written.                 *)
(***************************************************************************)
EXTENDS KeyInfo, NatType

CONSTANTS
  Mailbox,     \* of mail servers, what they hold: lines, oldest first
  Self,        \* the address the program has in public
  FirstFiles,  \* the files the first run may find
  Taken,       \* the ports other programs may have bound
  MaxRuns,     \* bound: runs of the program
  MaxCmds      \* bound: commands and checks that change keys in a main loop

ASSUME StartUpAssumption ==
  /\ Self \in NetAddr /\ Taken \subseteq Ports /\ FirstFiles \subseteq Seq(KeyLine)
  /\ \A a \in DOMAIN Mailbox : Mailbox[a] \in Seq(KeyLine)
  /\ MaxRuns \in Nat \ {0} /\ MaxCmds \in Nat

VARIABLES
  pc,       \* where main is
  cache,    \* KeyInfoCache
  file,     \* the lines of tknet.info
  load,     \* in "load": the lines yet to read, whether mails, and where main goes then
  NATtype,  \* g_NATtype
  using,    \* num of the key KeyInfoUse uses, in "nat" and "bdg"
  LastType, \* KeyInfoDoubleCheckNAT's
  bdg,      \* g_BdgPeerAddr, and whether the client may register with it
  temp,     \* num of the check process's pTmpContentKey, or -1
  runs, cmds, \* starts of the program; changes of keys in this main loop
  uses,     \* history: processes begun by KeyInfoUse in all runs, 2 for more than one
  odd       \* history: whether one has asked a STUN server at another port than 3478

local == <<using, LastType, bdg, temp>>
history == <<uses, odd>>
vars  == <<net, proc, pc, cache, file, load, NATtype, local, runs, cmds, history>>

Lines(f, t) == {f[i] : i \in {j \in DOMAIN f : f[j].type = t}}
Keys        == {cache.keys[i] : i \in DOMAIN cache.keys}
KeyOf(n)    == cache.keys[FindKeyInfoByNum(cache, n)]
Mails(a)    == IF a \in DOMAIN Mailbox THEN Mailbox[a] ELSE <<>>

NoLoad == [lines |-> <<>>, mails |-> FALSE, back |-> "read"]
Nobdg == [addr |-> NoAddr, skip |-> TRUE]

Init == /\ nat \in NATs /\ punched = {} /\ air = {} /\ lost = 0 /\ late = 0
        /\ pc = "read" /\ file \in FirstFiles /\ runs = 1 /\ uses = 0 /\ odd = FALSE
        /\ load = NoLoad /\ cache = EmptyCache /\ NATtype = "UNKNOWN" /\ proc = NoProc /\ cmds = 0
        /\ using = 0 /\ LastType = "UNKNOWN" /\ bdg = Nobdg /\ temp = -1

------------------------------------------------------------------------------
Goes(p) == pc' = p
Quiet   == UNCHANGED <<net, proc>>
InRun   == UNCHANGED <<file, runs>>

Reading(lines, mails, back) == /\ Goes("load")
                               /\ load' = [lines |-> lines, mails |-> mails, back |-> back]
NoReading == UNCHANGED load

KeyInfoReadFile ==
  /\ pc = "read" /\ Reading(file, FALSE, "config")
  /\ Quiet /\ InRun /\ UNCHANGED <<cache, NATtype, local, cmds, history>>

\* The next line of the file, or of a mail, which may not have come through.
LoadLine ==
  /\ pc = "load" /\ load.lines # <<>>
  /\ load' = [load EXCEPT !.lines = Tail(@)]
  /\ \/ cache' = KeyInfoInsert(cache, Head(load.lines))
     \/ load.mails /\ UNCHANGED cache
  /\ UNCHANGED pc /\ Quiet /\ InRun /\ UNCHANGED <<NATtype, local, cmds, history>>

\* The end of the file, or of a mail server's use.
Loaded ==
  /\ pc = "load" /\ load.lines = <<>> /\ load' = NoLoad /\ Goes(load.back)
  /\ cache' = IF load.mails THEN KeyInfoWorksFine(cache, using) ELSE cache
  /\ Quiet /\ InRun /\ UNCHANGED <<NATtype, local, cmds, history>>

\* KeyInfoTry(CONFIG): a bad line is left for the next; one may set the net
\* type and then find no free port.  The key counts on to the port it gets.
UseConfig ==
  /\ pc = "config"
  /\ LET i == KeyInfoSelectAnUnsureKey(cache, "CONFIG")
         taken(n) == \A m \in 0..n - 1 : PortAfter(cache.keys[i].addr, m).port \in Taken
     IN  IF i = 0 THEN Goes("exit") /\ UNCHANGED <<cache, NATtype>>
         ELSE \/ \E n \in {0, 3} : taken(n) /\ cache' = Bound(cache, i, n)
                 /\ Goes("config") /\ UNCHANGED NATtype
              \/ /\ \E n \in 0..2 : /\ taken(n)
                                     /\ cache' = KeyInfoWorksFine(Bound(cache, i, n), cache.keys[i].num)
                 /\ \/ Goes("nat") /\ UNCHANGED NATtype
                    \/ Goes("bdg") /\ NATtype' = "FULL_CONE"   \* LAN
  /\ NoReading /\ Quiet /\ InRun /\ UNCHANGED <<local, cmds, history>>

\* A STUN test of another port than 3478, or a hello to where a STUN server is.
OddPort(p, a) == IF p = "nat" THEN a.port # STUN_DEFAULT_PORT ELSE a \in STUNs

\* The next server to ask, or the mails when there is none.
Select(p, i, Make(_), none) ==
  /\ pc = p /\ proc.step = "none"
  /\ IF i = 0 THEN Goes(none) /\ UNCHANGED <<cache, using, proc>>
     ELSE /\ proc' = Make(cache.keys[i].addr)
          /\ using' = cache.keys[i].num /\ cache' = Marked(cache, i, "NOT") /\ UNCHANGED pc
  /\ IF i = 0 THEN UNCHANGED history
     ELSE /\ uses' = IF uses < 2 THEN uses + 1 ELSE uses
          /\ odd' = (odd \/ OddPort(p, cache.keys[i].addr))
  /\ NoReading /\ InRun /\ UNCHANGED <<net, NATtype, LastType, bdg, temp, cmds>>

SelectSTUN   == Select("nat", KeyInfoSelectAnotherKeyByPriority(cache, "STUNSERVER"),
                       MakeProtoStunProc, "natmail")
SelectBridge == Select("bdg", KeyInfoSelectAnUnsureKey(cache, "BRIDGEPEER"),
                       MakeTryBdgServer, "bdgmail")

\* The end of a STUN test, and what KeyInfoDoubleCheckNAT makes of it.
StunNotify(p) ==
  /\ IF p.res = "UNKNOWN" THEN UNCHANGED <<pc, cache, NATtype, LastType>>
     ELSE /\ NATtype' = p.res /\ LastType' = p.res
          /\ cache' = KeyInfoWorksFine(cache, using)
          /\ IF LastType = p.res THEN Goes("bdg") ELSE UNCHANGED pc
  /\ UNCHANGED bdg

BdgHelloNotify(p) ==
  /\ bdg' = [addr |-> p.host, skip |-> p.res # "HERE"]
  /\ IF p.res = "HERE" THEN cache' = KeyInfoWorksFine(cache, using) /\ Goes("main")
     ELSE UNCHANGED <<cache, pc>>
  /\ UNCHANGED <<NATtype, LastType>>

\* A round of KeyInfoUse's own loop.
UsePolled(state, heard) ==
  /\ Polls(state, heard)
  /\ IF ~Ends(state, heard)
     THEN proc' = After(state, heard) /\ UNCHANGED <<pc, cache, NATtype, LastType, bdg>>
     ELSE /\ proc' = NoProc
          /\ IF proc.step = "TryBdgServer" THEN BdgHelloNotify(Outcome(state, heard)[2])
             ELSE StunNotify(Outcome(state, heard)[2])
  /\ NoReading /\ InRun /\ UNCHANGED <<using, temp, cmds, history>>

\* KeyInfoTry(MAILSERVER): the server fails, or lets its mails be read.
UseMail(p, again, none) ==
  /\ pc = p
  /\ LET i == KeyInfoSelectAnUnsureKey(cache, "MAILSERVER")
     IN  IF i = 0 THEN Goes(none) /\ NoReading /\ UNCHANGED <<cache, using>>
         ELSE /\ cache' = Marked(cache, i, "NOT") /\ using' = cache.keys[i].num
              /\ \/ UNCHANGED pc /\ NoReading
                 \/ Reading(Mails(cache.keys[i].addr), TRUE, again)
  /\ LastType' = "UNKNOWN"
  /\ Quiet /\ InRun /\ UNCHANGED <<NATtype, bdg, temp, cmds, history>>

SelectMail == UseMail("natmail", "nat", "exit") \/ UseMail("bdgmail", "bdg", "main")

------------------------------------------------------------------------------
(* Keys while the main loop runs.                                          *)

Command == /\ pc = "main" /\ cmds < MaxCmds /\ cmds' = cmds + 1
           /\ Quiet /\ InRun /\ UNCHANGED <<NATtype, using, LastType, bdg, history>>
KeyChange == Command /\ NoReading /\ UNCHANGED pc

\* ikey, and readkey with the file as it is.
IKey == /\ KeyChange /\ UNCHANGED temp
        /\ \E i \in DOMAIN cache.keys, v \in {"NOT", "UNSURE"} : cache' = Marked(cache, i, v)
ReadKey == Command /\ UNCHANGED <<cache, temp>> /\ Reading(file, FALSE, "main")

\* The check process runs on a BDG server: it mails its address, which is a
\* key for the time being, and looks for the mail.
Watches == NATtype = "FULL_CONE" /\ bdg.skip
SendingNewAddr ==
  LET i == KeyInfoFindByType(cache, "SMTPSERVER")
      c == KeyInfoInsert(Marked(cache, i, "NOT"), [type |-> "BRIDGEPEER", addr |-> Self])
  IN  /\ KeyChange /\ Watches /\ temp = -1 /\ i # 0
      /\ cache' = c /\ temp' = c.keys[FindKeyInfoByAddr(c, Self)].num
NewAddrSent ==
  /\ KeyChange /\ temp # -1
  /\ cache' = KeyInfoDele(cache, temp) /\ temp' = -1
StartPop3Process ==
  /\ KeyChange /\ Watches /\ UNCHANGED temp
  /\ LET i == KeyInfoFindByType(cache, "MAILSERVER")
     IN  i # 0 /\ cache' = Marked(cache, i, "NOT")

Exit == /\ pc = "main" /\ Goes("exit")
        /\ NoReading /\ Quiet /\ InRun /\ UNCHANGED <<cache, NATtype, local, cmds, history>>

KeyInfoWrite ==
  /\ pc = "exit" /\ Goes("off")
  /\ cache' = KeyInfoUpdate(cache) /\ file' = KeyInfoWriteFile(KeyInfoUpdate(cache))
  /\ NoReading /\ Quiet /\ UNCHANGED <<NATtype, local, runs, cmds, history>>

\* The user starts it again; meanwhile holes may close.
Restart ==
  /\ pc = "off" /\ runs < MaxRuns /\ runs' = runs + 1 /\ Goes("read")
  /\ cache' = EmptyCache /\ NATtype' = "UNKNOWN" /\ cmds' = 0
  /\ using' = 0 /\ LastType' = "UNKNOWN" /\ bdg' = Nobdg /\ temp' = -1 /\ HolesClose
  /\ UNCHANGED <<nat, air, lost, late, proc, file, load, history>>

Main == KeyInfoReadFile \/ LoadLine \/ Loaded \/ UseConfig \/ SelectSTUN \/ SelectBridge \/ SelectMail \/ KeyInfoWrite
Use  == \E state \in {"FIRST", "NORMAL", "OVERTIME", "LAST"}, heard \in {{}} \cup {{m} : m \in air} :
          UsePolled(state, heard)
Next == \/ Main \/ Use \/ Exit \/ Restart
        \/ IKey \/ ReadKey \/ SendingNewAddr \/ NewAddrSent \/ StartPop3Process

\* main goes through its start-up without waiting for anything but the time.
Spec == Init /\ [][Next]_vars /\ WF_vars(Main) /\ WF_vars(Use)

------------------------------------------------------------------------------
\* The types of the state, and of every key.
TypeOK ==
  /\ NetTypeOK
  /\ pc \in {"read", "load", "config", "nat", "natmail", "bdg", "bdgmail", "main", "exit", "off"}
  /\ \A i \in DOMAIN load.lines : load.lines[i] \in KeyLine
  /\ Keys \subseteq Key /\ \A i \in DOMAIN file : file[i] \in KeyLine
  /\ NATtype \in NatKind \cup {"UNKNOWN"} /\ LastType \in NatKind \cup {"UNKNOWN"}
  /\ cache.numbers \in Nat /\ using \in Nat /\ temp \in Nat \cup {-1}
  /\ runs \in 1..MaxRuns /\ cmds \in 0..MaxCmds /\ uses \in 0..2 /\ odd \in BOOLEAN

\* A number is that of one key, and KeyInfoWorksFine marks the key that was
\* used, whatever was inserted or deleted meanwhile.  An address is that of one
\* key, too, but for a CONFIG key that has counted on to the port of another.
NumbersTellKeys ==
  /\ \A k, l \in Keys : k # l => /\ k.num # l.num
                                 /\ k.addr = l.addr => "CONFIG" \in {k.type, l.type}
  /\ Len(cache.keys) = Cardinality(Keys)
  /\ proc.step # "none" => /\ FindKeyInfoByNum(cache, using) # 0
                           /\ KeyOf(using).valid = "NOT" /\ KeyOf(using).addr = proc.host

\* While the keys of a type are tried, none that works is behind: the search
\* goes to the mails, or gives up, only when every key has been tried.
GivesUpOnAll ==
  LET untried(t) == FindOf(cache, t, "UNSURE") # 0
  IN  /\ pc = "natmail" => ~untried("STUNSERVER") /\ LastOf(cache, "STUNSERVER", "WORKS") = 0
      /\ pc = "bdgmail" => ~untried("BRIDGEPEER")
      /\ pc = "main" /\ bdg.skip /\ cmds = 0 => ~untried("BRIDGEPEER") /\ ~untried("MAILSERVER")

\* The client registers with a peer that is there: an answer that comes late,
\* when the next peer is asked already, is not taken for its.
BridgeAnswered == pc = "main" /\ ~bdg.skip => bdg.addr \in Answering

\* Whatever is lost or late, and however many tests have punched holes: who
\* only lets in the address and port that was sent to is not taken for more
\* while STUN servers are asked at STUN_DEFAULT_PORT, where the third step goes
\* (nattype.c 156), and, wherever they are, not by the first test.  Who lets in
\* the address is taken for more only after an earlier test (nattype.c 224).
NeverTooOpen ==
  LastType \in {"FULL_CONE", "RESTRICTED"} =>
    /\ uses = 1 \/ ~odd => nat \in {"FULL_CONE", "RESTRICTED"}
    /\ uses = 1 /\ nat = "RESTRICTED" => LastType = "RESTRICTED"

\* Every run of the program leaves in the file, of each type that was there,
\* a key that has worked, or all of them.  The program's own address may go
\* with the check process's key.
KeysKept ==
  [][ KeyInfoWrite =>
      \A t \in KeyType :
        \/ \E l \in Lines(file', t) : \E k \in Keys : LineOf(k) = l /\ k.valid = "WORKS"
        \/ \A l \in Lines(file, t) : l.addr # Self => l \in Lines(file', t) ]_vars

\* The start-up comes to its end when replies are lost or late finitely often.
StartUpEnds == pc = "read" ~> pc \in {"main", "off"}

\* nattype.c 224: BindingRequestToAnotherServer is put behind ChangeIPAndPort
\* because it "will punch a hole which will lead a false judgement later", and
\* the judgement is "double checked" (main.c 254): what two tests agree on
\* is not more than the NAT lets in.
DoubleCheckedRight == pc = "bdg" /\ LastType = "FULL_CONE" => nat = "FULL_CONE"
=============================================================================
