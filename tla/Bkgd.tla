-------------------------------- MODULE Bkgd --------------------------------
(***************************************************************************)
(* The three threads of the program and the mutex between them: the main   *)
(* loop (main.c), StdinThread, which reads the user's lines, and BackGround*)
(* (bkgd.c), which runs them.  A line goes through one buffer, cmd, and    *)
(* one flag, flow, that BackGround polls without the mutex.  Three         *)
(* commands start a process on the processing list - Pop3Proc, StunProc or *)
(* SmtpProc, all on BackGround's stack - which the main loop then polls.   *)
(*                                                                         *)
(* What a thread does under the mutex is one step; a thread that wants the *)
(* mutex waits in "lock".  Commands that only print, or that Bridge or     *)
(* NetProc model, are "other".  Lines may be redirected elsewhere (pipes): *)
(* then nothing happens here.                                              *)
(***************************************************************************)
EXTENDS Integers, FiniteSets

CONSTANTS Key,    \* the keys of tknet.info that commands may name
          TmpKey, \* the content key CheckNAT inserts for a while
          NoKey,  \* a null key pointer, or a number no key has
          Addr,   \* the addresses a STUN server may see this node under
          Lines   \* the lines users type: [op, key]

Unknown  == "NAT_T_UNKNOWN"
NotCone  == "NAT_T_not_full_cone"

ASSUME BkgdAssumption ==
  /\ TmpKey \notin Key /\ NoKey \notin Key /\ NoKey # TmpKey
  /\ Unknown \notin Addr /\ NotCone \notin Addr
  /\ Lines \subseteq [op : {"pop3", "nat", "smtp", "exit", "other"},
                      key : Key \cup {NoKey}]

VARIABLES
  flag,     \* g_MainLoopFlag
  mutex,    \* who holds g_BkgdMutex between two steps
  main,     \* where the main thread is
  bkgd,     \* where BackGround is
  stdin,    \* where StdinThread is
  flow,     \* sta_ifBkgdFlow
  cmd,      \* sta_BkgdCmd
  coming,   \* sta_ifBkgdCmdComing
  subFlag,  \* sta_ifBkgdSubProcess
  stunFlag, \* sta_ifBkgdStunProc
  listed,   \* which of BackGround's processes are on the processing list
  keys,     \* the keys in the cache
  natRes,   \* g_BkgdNatTestRes and g_BkgdNatTestAddrRes: an address, if full cone
  content,  \* what SmtpProc sends: the text of the content key
  arrived   \* history: the addresses in mails that have come to the mailbox, where the
            \* user's dele may take them out again

threads == <<flag, mutex, main, bkgd, stdin>>
procs   == <<coming, subFlag, stunFlag, listed, content>>
results == <<keys, natRes, arrived>>

Free == "free"

Line(op, key) == [op |-> op, key |-> key]

BkgdInit ==
  /\ flag = TRUE
  /\ mutex = "main" /\ main = "wait" /\ bkgd = "init" /\ stdin = "read"
  /\ flow = FALSE /\ cmd = Line("other", NoKey) /\ coming = FALSE
  /\ subFlag = FALSE /\ stunFlag = FALSE /\ listed = {}
  /\ keys \in SUBSET Key /\ natRes = Unknown /\ content = Unknown /\ arrived = {}

\* CmdFlowCallbk
CmdFlow(line) == cmd' = line /\ flow' = TRUE

------------------------------------------------------------------------------
(* StdinThread *)

\* fgets has returned; the flag is read once more before the mutex.
StdinReads ==
  /\ stdin = "read"
  /\ stdin' = IF flag THEN "lock" ELSE "ended"
  /\ UNCHANGED <<flag, mutex, main, bkgd, flow, cmd, procs, results>>

StdinFlows ==
  /\ stdin = "lock" /\ mutex = Free
  /\ \E line \in Lines : CmdFlow(line)
  /\ stdin' = "read"
  /\ UNCHANGED <<flag, mutex, main, bkgd, procs, results>>

------------------------------------------------------------------------------
(* BackGround *)

\* "as a flag to say thread has been initialized": it unlocks what main locked.
BkgdReady ==
  /\ bkgd = "init"
  /\ bkgd' = "poll" /\ mutex' = Free
  /\ UNCHANGED <<flag, main, stdin, flow, cmd, procs, results>>

BkgdSees ==
  /\ bkgd = "poll" /\ flow
  /\ bkgd' = "lock"
  /\ UNCHANGED <<flag, mutex, main, stdin, flow, cmd, procs, results>>

\* While one of its processes runs, a line is for that process.
BkgdToggles ==
  /\ subFlag
  /\ coming' = ~coming
  /\ UNCHANGED <<subFlag, stunFlag, listed, content>>

\* pop3, nat and smtp with a key that is found.
BkgdStarts(text) ==
  /\ ~subFlag
  /\ cmd.op \in {"pop3", "nat", "smtp"} /\ cmd.key \in keys
  /\ listed' = listed \cup {cmd.op}
  /\ subFlag' = TRUE
  /\ stunFlag' = (stunFlag \/ cmd.op = "nat")
  /\ content' = IF cmd.key = TmpKey THEN text ELSE Unknown
  /\ UNCHANGED coming

\* "unable to find the key", and the commands of other modules.
BkgdOther ==
  /\ ~subFlag
  /\ cmd.op = "other" \/ (cmd.op \in {"pop3", "nat", "smtp"} /\ cmd.key \notin keys)
  /\ UNCHANGED procs

\* A round of BackGround's loop; text is that of the content key.
BkgdRuns(text) ==
  /\ bkgd = "lock" /\ mutex = Free
  /\ BkgdToggles \/ BkgdStarts(text) \/ BkgdOther
  /\ flow' = FALSE /\ bkgd' = "poll"
  /\ UNCHANGED <<flag, mutex, main, stdin, cmd, results>>

\* Mutant of BkgdBreaks: exit at once, whatever runs.
BkgdBreaksAnyway ==
  /\ bkgd = "lock" /\ mutex = Free
  /\ cmd.op = "exit"
  /\ bkgd' = "exiting" /\ mutex' = "bkgd"
  /\ UNCHANGED <<flag, main, stdin, flow, cmd, procs, results>>

\* exit: the loop is left with the mutex.
BkgdBreaks ==
  /\ bkgd = "lock" /\ mutex = Free
  /\ ~subFlag /\ cmd.op = "exit"
  /\ bkgd' = "exiting" /\ mutex' = "bkgd"
  /\ UNCHANGED <<flag, main, stdin, flow, cmd, procs, results>>

\* The processes are freed, the main loop is told, the thread ends.
BkgdEnds ==
  /\ bkgd = "exiting"
  /\ flag' = FALSE /\ bkgd' = "ended"
  /\ UNCHANGED <<mutex, main, stdin, flow, cmd, procs, results>>

BkgdStep(text) == BkgdReady \/ BkgdSees \/ BkgdRuns(text) \/ BkgdBreaks \/ BkgdEnds

------------------------------------------------------------------------------
(* BackGround's processes, polled by the main loop. *)

\* Mutant of SubEnds: StunProc ends like the others.
SubEndsStunLeft(x) ==
  /\ x \in listed
  /\ listed' = listed \ {x} /\ subFlag' = FALSE
  /\ natRes' \in IF x = "nat" THEN Addr \cup {Unknown, NotCone} ELSE {natRes}
  /\ arrived' \in IF x = "smtp" THEN {arrived, arrived \cup ({content} \ {Unknown})} ELSE {arrived}
  /\ UNCHANGED <<coming, stunFlag, content, keys>>

\* BkgdProcEndCallbk; of StunProc BkgdNatTypeNotify.
SubEnds(x) ==
  /\ x \in listed
  /\ listed' = listed \ {x} /\ subFlag' = FALSE
  /\ stunFlag' = (stunFlag /\ x # "nat")
  /\ natRes' \in IF x = "nat" THEN Addr \cup {Unknown, NotCone} ELSE {natRes}
  /\ arrived' \in IF x = "smtp" THEN {arrived, arrived \cup ({content} \ {Unknown})} ELSE {arrived}
  /\ UNCHANGED <<coming, content, keys>>

\* ProtoPOP3BackGround takes the line.
SubReads ==
  /\ "pop3" \in listed /\ coming
  /\ coming' = FALSE
  /\ UNCHANGED <<subFlag, stunFlag, listed, content, results>>

SubPolled == SubReads \/ (\E x \in listed : SubEnds(x)) \/ UNCHANGED <<procs, results>>
=============================================================================
