------------------------------ MODULE CheckNAT ------------------------------
(***************************************************************************)
(* The process with which a BDG server watches its own public address      *)
(* (nat_checkd.c), among the threads of Bkgd.  It works by command lines:  *)
(* "nat" to ask a STUN server, and, when the address has changed, "smtp"   *)
(* to mail the new one, whose text it inserts as a key for the time being. *)
(* A POP3 process of its own then looks whether the mail has arrived.      *)
(*                                                                         *)
(* How long its steps wait is left open: a poll that is not the first      *)
(* finds any timer state.                                                  *)
(***************************************************************************)
EXTENDS Bkgd

CONSTANTS StunKeys, \* the valid keys of type STUNSERVER
          MapAddr   \* g_NATMapAddr when the process starts

ASSUME CheckNATAssumption == StunKeys \subseteq Key /\ MapAddr \in Addr

CkStep == {"WaitToCheck", "BeginCheckNAT", "WaitCheckRes", "SendingNewAddr",
           "EssentialWait", "StartPop3Process", "WaitPop3Res", "Ended"}

VARIABLES
  ck,      \* the check process: step, its first poll, pFailedKey, STUNTryFlag, ifFisrtRun
  mapAddr, \* g_NATMapAddr
  natStr,  \* the address in sta_NatStr
  pop3     \* sta_Pop3ProcState; "RUN" while the POP3 process is on the list

check == <<ck, mapAddr, natStr, pop3>>
vars  == <<threads, flow, cmd, procs, results, check>>

Init ==
  /\ BkgdInit
  /\ ck = [step |-> "WaitToCheck", first |-> TRUE, failed |-> NoKey, fine |-> TRUE,
           firstRun |-> TRUE]
  /\ mapAddr = MapAddr /\ natStr = MapAddr /\ pop3 = "BEGIN"

------------------------------------------------------------------------------
CkAt(s)  == [ck EXCEPT !.step = s, !.first = TRUE]
CkStays  == ck' = [ck EXCEPT !.first = FALSE]
CkGoes(s) == ck' = CkAt(s)
CkAborts == CkGoes("Ended")   \* CheckNATProcNotify

Quiet  == UNCHANGED <<flow, cmd>>
NoKeys == UNCHANGED <<keys, natRes, arrived>>

Timer == IF ck.first THEN {"FIRST"} ELSE {"NORMAL", "OVERTIME", "LAST"}

WaitToCheck(t) ==
  /\ ck.step = "WaitToCheck"
  /\ IF ck.firstRun
     THEN ck' = [CkAt("SendingNewAddr") EXCEPT !.firstRun = FALSE] /\ natStr' = mapAddr
     ELSE /\ IF t \in {"OVERTIME", "LAST"} THEN CkGoes("BeginCheckNAT") ELSE CkStays
          /\ UNCHANGED natStr
  /\ Quiet /\ NoKeys /\ UNCHANGED <<mapAddr, pop3>>

\* FindPossibleKeyInfoByNotNum: another key than the failed one, if there is one.
Possible ==
  LET valid == StunKeys \cap keys
  IN  IF valid \ {ck.failed} # {} THEN valid \ {ck.failed} ELSE valid

\* Mutant of BeginCheckNAT: the key is not noted.
BeginCheckNATUnnoted ==
  /\ ck.step = "BeginCheckNAT"
  /\ \/ Possible = {} /\ CkAborts /\ Quiet /\ NoKeys
     \/ Possible # {} /\ subFlag /\ CkGoes("BeginCheckNAT") /\ Quiet /\ NoKeys
     \/ /\ ~subFlag
        /\ \E k \in Possible : CmdFlow(Line("nat", k)) /\ CkGoes("WaitCheckRes")
        /\ natRes' = Unknown
        /\ UNCHANGED <<keys, arrived>>
  /\ UNCHANGED <<mapAddr, natStr, pop3>>

BeginCheckNAT ==
  /\ ck.step = "BeginCheckNAT"
  /\ \/ Possible = {} /\ CkAborts /\ Quiet /\ NoKeys
     \/ Possible # {} /\ subFlag /\ CkGoes("BeginCheckNAT") /\ Quiet /\ NoKeys
     \/ /\ ~subFlag
        /\ \E k \in Possible : /\ CmdFlow(Line("nat", k))
                               /\ ck' = [CkAt("WaitCheckRes") EXCEPT !.failed = k]
        /\ natRes' = Unknown
        /\ UNCHANGED <<keys, arrived>>
  /\ UNCHANGED <<mapAddr, natStr, pop3>>

WaitCheckRes(t) ==
  /\ ck.step = "WaitCheckRes"
  /\ \/ /\ natRes = NotCone
        /\ ck' = [CkAt(IF ck.fine THEN "BeginCheckNAT" ELSE "WaitToCheck")
                    EXCEPT !.failed = NoKey, !.fine = FALSE]
        /\ UNCHANGED <<mapAddr, natStr>>
     \/ /\ natRes \in Addr /\ natRes = mapAddr
        /\ ck' = [CkAt("WaitToCheck") EXCEPT !.failed = NoKey, !.fine = TRUE]
        /\ UNCHANGED <<mapAddr, natStr>>
     \/ /\ natRes \in Addr /\ natRes # mapAddr
        /\ mapAddr' = natRes /\ natStr' = natRes
        /\ ck' = [CkAt("SendingNewAddr") EXCEPT !.failed = NoKey]
     \/ /\ natRes = Unknown
        /\ IF t = "LAST" THEN CkGoes("BeginCheckNAT") ELSE CkStays
        /\ UNCHANGED <<mapAddr, natStr>>
  /\ Quiet /\ NoKeys /\ UNCHANGED pop3

\* The first poll inserts the key and gives the command, once no other runs;
\* a later one takes the end of the mail process for the end of the mailing.
SendingNewAddr(t) ==
  /\ ck.step = "SendingNewAddr"
  /\ \/ t = "FIRST" /\ CkAborts /\ Quiet /\ UNCHANGED keys   \* no SMTPSERVER key
     \/ /\ t = "FIRST"
        /\ keys' = keys \cup {TmpKey}
        /\ IF subFlag THEN CkGoes("SendingNewAddr") /\ Quiet
           ELSE CkStays /\ CmdFlow(Line("smtp", TmpKey))
     \/ t = "LAST" /\ CkGoes("SendingNewAddr") /\ Quiet /\ UNCHANGED keys
     \/ /\ t \in {"NORMAL", "OVERTIME"} /\ ~subFlag
        /\ keys' = keys \ {TmpKey}
        /\ CkGoes("EssentialWait") /\ Quiet
     \/ t \in {"NORMAL", "OVERTIME"} /\ subFlag /\ CkStays /\ Quiet /\ UNCHANGED keys
  /\ UNCHANGED <<natRes, arrived, mapAddr, natStr, pop3>>

EssentialWait(t) ==
  /\ ck.step = "EssentialWait"
  /\ IF t \in {"OVERTIME", "LAST"} THEN CkGoes("StartPop3Process") ELSE CkStays
  /\ Quiet /\ NoKeys /\ UNCHANGED <<mapAddr, natStr, pop3>>

StartPop3Process ==
  /\ ck.step = "StartPop3Process"
  /\ \/ CkAborts /\ UNCHANGED pop3                           \* no MAILSERVER key
     \/ CkGoes("WaitPop3Res") /\ pop3' = "RUN"
  /\ Quiet /\ NoKeys /\ UNCHANGED <<mapAddr, natStr>>

\* Mutant of WaitPop3Res: a mail that has not come is not sent again.
WaitPop3ResOnce ==
  /\ ck.step = "WaitPop3Res"
  /\ CkGoes(CASE pop3 = "ERROR"    -> "StartPop3Process"
              [] pop3 = "SEE_IT"   -> "WaitToCheck"
              [] pop3 = "NOT_SEE"  -> "WaitToCheck"
              [] OTHER             -> "WaitPop3Res")
  /\ Quiet /\ NoKeys /\ UNCHANGED <<mapAddr, natStr, pop3>>

WaitPop3Res ==
  /\ ck.step = "WaitPop3Res"
  /\ CkGoes(CASE pop3 = "ERROR"    -> "StartPop3Process"
              [] pop3 = "SEE_IT"   -> "WaitToCheck"
              [] pop3 = "NOT_SEE"  -> "SendingNewAddr"
              [] OTHER             -> "WaitPop3Res")
  /\ Quiet /\ NoKeys /\ UNCHANGED <<mapAddr, natStr, pop3>>

CheckPolled ==
  \/ \E t \in Timer : WaitToCheck(t) \/ WaitCheckRes(t) \/ SendingNewAddr(t) \/ EssentialWait(t)
  \/ BeginCheckNAT \/ StartPop3Process \/ WaitPop3Res
  \/ ck.step = "Ended" /\ UNCHANGED <<flow, cmd, results, check>>

\* Pop3Notify: the mailbox could not be entered, or the address was seen in a
\* mail that has come, or in none of those that are still there and were read.
Pop3Polled ==
  \/ UNCHANGED pop3
  \/ /\ pop3 = "RUN"
     /\ pop3' \in {"ERROR", "NOT_SEE"} \cup (IF natStr \in arrived THEN {"SEE_IT"} ELSE {})

------------------------------------------------------------------------------
(* The main thread (main.c 306-357). *)

MainReady ==
  /\ main = "wait" /\ mutex = Free
  /\ main' = "check"
  /\ UNCHANGED <<flag, mutex, bkgd, stdin, flow, cmd, procs, results, check>>

MainChecks ==
  /\ main = "check"
  /\ main' = IF flag THEN "lock" ELSE "ended"
  /\ UNCHANGED <<flag, mutex, bkgd, stdin, flow, cmd, procs, results, check>>

\* DoProcessing under the mutex: the check process, which is the oldest on
\* the list, then BackGround's and the POP3 process.
MainLocks ==
  /\ main = "lock" /\ mutex = Free
  /\ mutex' = "main" /\ main' = "poll"
  /\ CheckPolled
  /\ UNCHANGED <<flag, bkgd, stdin, procs>>

MainPolls ==
  /\ main = "poll"
  /\ mutex' = Free /\ main' = "check"
  /\ SubPolled /\ Pop3Polled
  /\ UNCHANGED <<flag, bkgd, stdin, flow, cmd, ck, mapAddr, natStr>>

MainStep == MainReady \/ MainChecks \/ MainLocks \/ MainPolls

StdinStep == (StdinReads \/ StdinFlows) /\ UNCHANGED check

Next == MainStep \/ StdinStep \/ (BkgdStep(natStr) /\ UNCHANGED check)

Spec == Init /\ [][Next]_vars

\* The threads run, and the mutex is not withheld from one of them for ever.
Fairness ==
  /\ WF_vars(MainStep) /\ SF_vars(MainReady) /\ SF_vars(MainLocks)
  /\ WF_vars(BkgdStep(natStr) /\ UNCHANGED check)
  /\ SF_vars((BkgdRuns(natStr) \/ BkgdBreaks) /\ UNCHANGED check)

FairSpec == Spec /\ Fairness

------------------------------------------------------------------------------
(* Properties. *)

\* The two flags tell, whenever another thread may read them, which of
\* BackGround's processes is on the list: none is started a second time, two
\* never share the command buffer, and the main loop leaves the socket to
\* StunProc for as long as that runs and no longer.
FlagsTellList ==
  /\ subFlag <=> listed # {}
  /\ stunFlag <=> "nat" \in listed
  /\ \A x, y \in listed : x = y

\* When BackGround leaves its loop, and its stack, the main loop polls none of
\* the processes that live on that stack.
NoDanglingProcess == bkgd \in {"exiting", "ended"} => listed = {}

\* While the check process only watches the address, the address it watches was
\* mailed, and the mail has come to the mailbox, where peers look for the bridge
\* peer: it is not only a mail process that has ended.
NewAddressMailed ==
  ck.step \in {"WaitToCheck", "BeginCheckNAT", "WaitCheckRes"} /\ ~ck.firstRun
     => mapAddr \in arrived

\* WaitCheckRes writes to the key that failed: there is one, still in the cache.
FailedKeyThere == ck.step = "WaitCheckRes" => ck.failed \in keys

\* "exit (exit this program)" ends the main loop.
ExitEnds == bkgd = "exiting" ~> main = "ended"
=============================================================================
