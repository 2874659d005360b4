--------------------------- MODULE CheckNATProofs ---------------------------
(***************************************************************************)
(* Proofs about the threads and the NAT check process, for any keys,       *)
(* addresses and lines.                                                    *)
(***************************************************************************)
EXTENDS CheckNAT, TLAPS

\* The flags, and with them BackGround's exit, are inductive by themselves.
FlagsInv == FlagsTellList /\ NoDanglingProcess

USE DEF Free

\* FlagsInv holds at the start: nothing runs yet.
LEMMA FlagsInit == Init => FlagsInv
  BY DEF Init, BkgdInit, FlagsInv, FlagsTellList, NoDanglingProcess

\* No step of a thread breaks FlagsInv: a process is started only when the
\* list holds none, and one that ends takes its flags along.
LEMMA FlagsStep == FlagsInv /\ [Next]_vars => FlagsInv'
<1> SUFFICES ASSUME FlagsInv, [Next]_vars PROVE FlagsInv'
  OBVIOUS
<1> USE DEF FlagsInv, FlagsTellList, NoDanglingProcess
<1>1. CASE MainReady \/ MainChecks \/ MainLocks
  BY <1>1 DEF MainReady, MainChecks, MainLocks, procs
<1>2. CASE MainPolls
  <2> USE DEF procs, results
  <2>1. bkgd' = bkgd /\ SubPolled
    BY <1>2 DEF MainPolls
  <2>2. CASE SubReads
    BY <2>1, <2>2 DEF SubReads
  <2>3. ASSUME NEW x \in listed, SubEnds(x) PROVE FlagsInv'
    <3>1. listed' = {} /\ ~subFlag'
      BY <2>3 DEF SubEnds
    <3>2. ~stunFlag'
      BY <2>3 DEF SubEnds
    <3> QED BY <2>1, <3>1, <3>2
  <2>4. CASE UNCHANGED <<procs, results>>
    BY <2>1, <2>4
  <2> QED BY <2>1, <2>2, <2>3, <2>4 DEF SubPolled
<1>3. CASE StdinStep
  BY <1>3 DEF StdinStep, StdinReads, StdinFlows, procs
<1>4. CASE BkgdStep(natStr)
  <2>1. CASE BkgdReady \/ BkgdSees
    BY <2>1 DEF BkgdReady, BkgdSees, procs
  <2>2. CASE BkgdBreaks
    BY <2>2 DEF BkgdBreaks, procs
  <2>3. CASE BkgdEnds
    BY <2>3 DEF BkgdEnds, procs
  <2>4. CASE BkgdRuns(natStr)
    <3>1. bkgd' = "poll"
      BY <2>4 DEF BkgdRuns
    <3>2. CASE BkgdToggles \/ BkgdOther
      BY <3>1, <3>2 DEF BkgdToggles, BkgdOther, procs
    <3>3. CASE BkgdStarts(natStr)
      <4>1. listed = {} /\ ~stunFlag
        BY <3>3 DEF BkgdStarts
      <4>2. listed' = {cmd.op} /\ subFlag'
        BY <3>3, <4>1 DEF BkgdStarts
      <4>3. stunFlag' <=> cmd.op = "nat"
        BY <3>3, <4>1 DEF BkgdStarts
      <4> QED BY <3>1, <4>2, <4>3
    <3> QED BY <2>4, <3>2, <3>3 DEF BkgdRuns
  <2> QED BY <1>4, <2>1, <2>2, <2>3, <2>4 DEF BkgdStep
<1>5. CASE UNCHANGED vars
  BY <1>5 DEF vars, threads, procs
<1> QED BY <1>1, <1>2, <1>3, <1>4, <1>5 DEF Next, MainStep

\* sta_ifBkgdSubProcess and sta_ifBkgdStunProc tell in every reachable state
\* which of BackGround's processes is listed: at most one ever is.
THEOREM FlagsRight == Spec => []FlagsTellList
<1>1. FlagsInv => FlagsTellList
  BY DEF FlagsInv
<1> QED BY <1>1, FlagsInit, FlagsStep, PTL DEF Spec

\* When BackGround's stack goes, nothing on the processing list lies on it.
THEOREM NothingDangles == Spec => []NoDanglingProcess
<1>1. FlagsInv => NoDanglingProcess
  BY DEF FlagsInv
<1> QED BY <1>1, FlagsInit, FlagsStep, PTL DEF Spec

------------------------------------------------------------------------------
(* The check process.  What its POP3 process has seen it has seen of the     *)
(* address being watched: natStr does not change between StartPop3Process    *)
(* and the answer.  The key it asks with is a STUNSERVER key, so not the one *)
(* it inserts and deletes.                                                   *)

CkType == ck \in [step : CkStep, first : BOOLEAN, failed : Key \cup {NoKey}, fine : BOOLEAN,
                  firstRun : BOOLEAN]

SeenIsMailed == ck.step = "WaitPop3Res" /\ pop3 = "SEE_IT" => natStr \in arrived

AsksWithStunKey == ck.step = "WaitCheckRes" => ck.failed \in StunKeys \cap keys

CheckInv ==
  /\ CkType
  /\ natStr = mapAddr
  /\ ck.firstRun => ck.step = "WaitToCheck"
  /\ SeenIsMailed
  /\ NewAddressMailed
  /\ AsksWithStunKey

\* CheckInv holds at the start: the first run mails the address.
LEMMA CheckInit == Init => CheckInv
  BY CheckNATAssumption, BkgdAssumption
  DEF Init, BkgdInit, CheckInv, CkType, CkStep, SeenIsMailed, NewAddressMailed, AsksWithStunKey

\* Steps that leave the check process and what it looks at alone, or only add
\* mails, keep CheckInv.
LEMMA CheckUnmoved ==
  ASSUME CheckInv, UNCHANGED <<ck, mapAddr, natStr, pop3, keys>>, arrived \subseteq arrived'
  PROVE  CheckInv'
  BY DEF CheckInv, CkType, SeenIsMailed, NewAddressMailed, AsksWithStunKey

\* The record of another step, and what a poll that stays makes of it.
LEMMA CkAtFields ==
  ASSUME CkType, NEW s
  PROVE  CkAt(s) = [step |-> s, first |-> TRUE, failed |-> ck.failed, fine |-> ck.fine,
                    firstRun |-> ck.firstRun]
<1>1. CkAt(s) = [[ck EXCEPT !.step = s] EXCEPT !.first = TRUE]
  BY DEF CkAt
<1>2. [ck EXCEPT !.step = s] = [step |-> s, first |-> ck.first, failed |-> ck.failed,
                               fine |-> ck.fine, firstRun |-> ck.firstRun]
  BY DEF CkType
<1> QED BY <1>1, <1>2

\* Where a poll of the check process may leave it.
LEMMA CheckPolledKeeps == CheckInv /\ CheckPolled => CheckInv'
<1> SUFFICES ASSUME CheckInv, CheckPolled PROVE CheckInv'
  OBVIOUS
<1> USE CheckNATAssumption, BkgdAssumption
    DEF CheckInv, CkType, CkStep, SeenIsMailed, NewAddressMailed, AsksWithStunKey, CkAt, CkStays,
        CkGoes, CkAborts, NoKeys, Quiet
<1>1. ASSUME NEW t \in Timer, WaitToCheck(t) PROVE CheckInv'
  <2>1. CASE ck.firstRun
    <3>1. CkAt("SendingNewAddr") = [step |-> "SendingNewAddr", first |-> TRUE, failed |-> ck.failed,
                                    fine |-> ck.fine, firstRun |-> ck.firstRun]
      BY CkAtFields
    <3>2. ck' = [CkAt("SendingNewAddr") EXCEPT !.firstRun = FALSE]
      BY <1>1, <2>1 DEF WaitToCheck
    <3>3. ck' \in [step : CkStep, first : BOOLEAN, failed : Key \cup {NoKey}, fine : BOOLEAN,
                   firstRun : BOOLEAN]
      BY <3>1, <3>2
    <3>4. ck'.step = "SendingNewAddr" /\ ck'.firstRun = FALSE
      BY <3>1, <3>2
    <3> QED BY <1>1, <2>1, <3>3, <3>4 DEF WaitToCheck
  <2>2. CASE ~ck.firstRun
    BY <1>1, <2>2 DEF WaitToCheck
  <2> QED BY <2>1, <2>2
<1>2. ASSUME NEW t \in Timer, WaitCheckRes(t) PROVE CheckInv'
  <2> USE DEF WaitCheckRes, Unknown, NotCone
  <2>1. CASE natRes = NotCone
    <3>1. PICK next \in {"BeginCheckNAT", "WaitToCheck"} :
            ck' = [CkAt(next) EXCEPT !.failed = NoKey, !.fine = FALSE]
      <4>1. CASE ck.fine
        BY <1>2, <2>1, <4>1
      <4>2. CASE ~ck.fine
        BY <1>2, <2>1, <4>2
      <4> QED BY <4>1, <4>2
    <3>2. CkAt(next) = [step |-> next, first |-> TRUE, failed |-> ck.failed, fine |-> ck.fine,
                        firstRun |-> ck.firstRun]
      BY CkAtFields
    <3>3. ck' = [step |-> next, first |-> TRUE, failed |-> NoKey, fine |-> FALSE,
                 firstRun |-> ck.firstRun]
      BY <3>1, <3>2
    <3> QED BY <1>2, <2>1, <3>3
  <2>2. CASE natRes \in Addr /\ natRes = mapAddr
    BY <1>2, <2>2
  <2>3. CASE natRes \in Addr /\ natRes # mapAddr
    BY <1>2, <2>3
  <2>4. CASE natRes = Unknown
    <3>1. CASE t = "LAST"
      BY <1>2, <2>4, <3>1
    <3>2. CASE t # "LAST"
      BY <1>2, <2>4, <3>2
    <3> QED BY <3>1, <3>2
  <2> QED BY <1>2, <2>1, <2>2, <2>3, <2>4
<1>3. ASSUME NEW t \in Timer, SendingNewAddr(t) PROVE CheckInv'
  BY <1>3 DEF SendingNewAddr
<1>4. ASSUME NEW t \in Timer, EssentialWait(t) PROVE CheckInv'
  BY <1>4 DEF EssentialWait
<1>5. CASE BeginCheckNAT
  <2>1. Possible \subseteq StunKeys \cap keys
    BY DEF Possible
  <2> QED BY <1>5, <2>1 DEF BeginCheckNAT
<1>6. CASE StartPop3Process
  BY <1>6 DEF StartPop3Process
<1>7. CASE WaitPop3Res
  <2>1. CASE pop3 = "SEE_IT"
    BY <1>7, <2>1 DEF WaitPop3Res
  <2>2. CASE pop3 # "SEE_IT"
    BY <1>7, <2>2 DEF WaitPop3Res
  <2> QED BY <2>1, <2>2
<1>8. CASE ck.step = "Ended" /\ UNCHANGED <<flow, cmd, results, check>>
  BY <1>8 DEF results, check
<1> QED BY <1>1, <1>2, <1>3, <1>4, <1>5, <1>6, <1>7, <1>8 DEF CheckPolled

\* No step of the threads breaks CheckInv.
LEMMA CheckStep == CheckInv /\ [Next]_vars => CheckInv'
<1> SUFFICES ASSUME CheckInv, [Next]_vars PROVE CheckInv'
  OBVIOUS
<1> USE DEF procs, results, check
<1>1. CASE MainReady \/ MainChecks
  BY <1>1, CheckUnmoved DEF MainReady, MainChecks
<1>2. CASE MainLocks
  BY <1>2, CheckPolledKeeps DEF MainLocks
<1>3. CASE MainPolls
  <2>1. keys' = keys /\ arrived \subseteq arrived'
    BY <1>3 DEF MainPolls, SubPolled, SubReads, SubEnds
  <2>2. CASE UNCHANGED pop3
    BY <1>3, <2>1, <2>2, CheckUnmoved DEF MainPolls
  <2>3. CASE pop3' \in {"ERROR", "NOT_SEE"} \cup (IF natStr \in arrived THEN {"SEE_IT"} ELSE {})
    <3>1. pop3' = "SEE_IT" => natStr \in arrived
      BY <2>3
    <3>2. UNCHANGED <<ck, mapAddr, natStr>>
      BY <1>3 DEF MainPolls
    <3> QED BY <2>1, <3>1, <3>2
            DEF CheckInv, CkType, SeenIsMailed, NewAddressMailed, AsksWithStunKey
  <2> QED BY <1>3, <2>2, <2>3 DEF MainPolls, Pop3Polled
<1>4. CASE StdinStep
  BY <1>4, CheckUnmoved DEF StdinStep, StdinReads, StdinFlows
<1>5. CASE BkgdStep(natStr) /\ UNCHANGED check
  BY <1>5, CheckUnmoved DEF BkgdStep, BkgdReady, BkgdSees, BkgdRuns, BkgdBreaks, BkgdEnds
<1>6. CASE UNCHANGED vars
  BY <1>6, CheckUnmoved DEF vars
<1> QED BY <1>1, <1>2, <1>3, <1>4, <1>5, <1>6 DEF Next, MainStep

\* An address that is only watched was mailed: the check process does not
\* stop mailing a new one before the POP3 process has seen it.
THEOREM AddressIsMailed == Spec => []NewAddressMailed
<1>1. CheckInv => NewAddressMailed
  BY DEF CheckInv
<1> QED BY <1>1, CheckInit, CheckStep, PTL DEF Spec

\* The key WaitCheckRes writes its result to is still in the cache.
THEOREM FailedKeyKept == Spec => []FailedKeyThere
<1>1. CheckInv => FailedKeyThere
  BY DEF CheckInv, AsksWithStunKey, FailedKeyThere
<1> QED BY <1>1, CheckInit, CheckStep, PTL DEF Spec

=============================================================================
