---------------------------- MODULE NetProcProofs ----------------------------
(***************************************************************************)
(* Theorems about the scheduler, for every set of processes, every table   *)
(* of steps and retries and every bound:                                   *)
(*                                                                         *)
(*   TypeCorrect       the type invariant;                                 *)
(*   ListStaysSound    the processing list stays one circle (ListSound);   *)
(*   BudgetKept        the retry discipline (RetryBudget);                 *)
(*   NotifyExactlyOnce each start is notified once (NotifiedOnce);         *)
(*   RepeatsBounded    a second call needs a restart of the walk           *)
(*                     (RepeatsOnlyAfterTailDrop);                         *)
(*   RoundsReachAll    a round leaves nobody out (RoundReachesAll);        *)
(*   QueueRefined      the list implements the queue of RoundRobin.        *)
(*                                                                         *)
(* ListSound carries the others: that a process in the list is another     *)
(* one than the process that just left, that the tail leads to the head,   *)
(* and that an empty head means an empty list, all come from it.           *)
(***************************************************************************)
EXTENDS NetProcRing, TkListProofs, FiniteSetTheorems

------------------------------------------------------------------------------
(* Helpers. *)

LEMMA FreshType ==
  ASSUME NEW p \in Proc, NEW s \in 1..NumSteps(p), cond \in Conds
  PROVE  Fresh(p, s) \in Ctl
BY StepsAssumption DEF Fresh, Ctl, NumSteps

LEMMA FirstStep == ASSUME NEW p \in Proc PROVE 1 \in 1..NumSteps(p)
BY StepsAssumption DEF NumSteps

LEMMA UpdateType ==
  ASSUME NEW T, NEW f \in [Proc -> T], NEW p, NEW v, p \in Proc => v \in T
  PROVE  /\ Update(f, p, v) \in [Proc -> T]
         /\ \A x \in Proc : Update(f, p, v)[x] = IF x = p THEN v ELSE f[x]
BY DEF Update

LEMMA PollTypes ==
  ASSUME TypeOK, NEW p \in Proc
  PROVE  /\ Charged(p) \in Ctl /\ Charged(p).step = ctl[p].step
         /\ ChargedTimer(p) \in {"running", "expired", "future"}
         /\ Saw(p) \in Seen
<1>1. /\ ctl[p] \in Ctl /\ seen[p] \in Seen
      /\ timer[p] \in {"running", "expired", "future"}
  BY DEF TypeOK
<1>2. Charged(p) \in Ctl /\ Charged(p).step = ctl[p].step
  <2>1. CASE PollState(p) = "FIRST"
    <3>1. Charged(p) = [ctl[p] EXCEPT !.first = FALSE]
      BY <2>1 DEF Charged
    <3>. QED  BY <1>1, <3>1 DEF Ctl
  <2>2. CASE PollState(p) = "OVERTIME"
    <3>1. Charged(p) = [ctl[p] EXCEPT !.retrys = @ - 1]
      BY <2>2 DEF Charged
    <3>2. ctl[p].retrys > 0
      BY <2>2 DEF PollState
    <3>. QED  BY <1>1, <3>1, <3>2 DEF Ctl
  <2>3. CASE PollState(p) \notin {"FIRST", "OVERTIME"}
    <3>1. Charged(p) = ctl[p]
      BY <2>3 DEF Charged
    <3>. QED  BY <1>1, <3>1
  <2>. QED  BY <2>1, <2>2, <2>3
<1>3. Saw(p) \in Seen
  <2>1. CASE PollState(p) = "OVERTIME"
    <3>1. Saw(p) = [seen[p] EXCEPT !.over = @ + 1]
      BY <2>1 DEF Saw
    <3>. QED  BY <1>1, <3>1 DEF Seen
  <2>2. CASE PollState(p) = "LAST"
    <3>1. Saw(p) = [seen[p] EXCEPT !.last = TRUE]
      BY <2>2 DEF Saw
    <3>. QED  BY <1>1, <3>1 DEF Seen
  <2>3. CASE PollState(p) \notin {"OVERTIME", "LAST"}
    <3>1. Saw(p) = seen[p]
      BY <2>3 DEF Saw
    <3>. QED  BY <1>1, <3>1
  <2>. QED  BY <2>1, <2>2, <2>3
<1>. QED  BY <1>1, <1>2, <1>3 DEF ChargedTimer

\* Outside ProcessListFree the invariant on the list is the one of TkListProofs.
LEMMA SoundFromInv ==
  ASSUME TypeOK, ListSound, mode # "free"
  PROVE  Sound(ln, head) /\ OnList = Members(ln, head)
BY DEF TypeOK, ListSound, Sound, BothWays, OneCircle, OnList, Proc

\* And back, after an action that ends outside ProcessListFree.
LEMMA InvFromSound ==
  ASSUME Sound(ln', head'), mode' # "free",
         mode' = "round" => cur' \in Members(ln', head')
  PROVE  ListSound' /\ OnList' = Members(ln', head')
BY DEF ListSound, Sound, BothWays, OneCircle, OnList, Proc

\* What a call that starts q (or nobody) makes of the list.
LEMMA SafeStartedFacts ==
  ASSUME TypeOK, ListSound, mode = "round",
         NEW q \in Proc \cup {NoNode}, q \in Proc => ~Attached(q)
  PROVE  LET l == SafeStarted(q)
         IN  /\ Sound(l.ln, l.head) /\ l.head # NoIter
             /\ Members(l.ln, l.head) = OnList \cup ({q} \cap Proc)
             /\ l.head.now = head.now
             /\ l.fwd = l.ln.next[cur]
             /\ cur \in Members(l.ln, l.head) /\ cur \in OnList /\ cur \in Proc
             /\ q # cur
             /\ IF q \in Proc
                THEN /\ l.head.last = q
                     /\ \A p \in Proc : l.ln.next[p] =
                          IF p = q THEN head.now
                          ELSE IF p = head.last THEN q ELSE ln.next[p]
                ELSE l.ln = ln /\ l.head = head
<1>1. Sound(ln, head) /\ OnList = Members(ln, head) /\ cur \in OnList
  BY SoundFromInv DEF ListSound
<1>2. cur \in Proc /\ InList(ln, head, cur)
  BY <1>1 DEF Members, Proc
<1>3. head # NoIter
  BY <1>1, <1>2, NodeAssumption DEF Sound, InList, NoIter, Proc
<1>4. CASE q = NoNode
  <2>1. SafeStarted(q) = [ln |-> ln, head |-> head, fwd |-> ln.next[cur]]
    BY <1>4 DEF SafeStarted
  <2>. QED  BY <2>1, <1>1, <1>2, <1>3, <1>4, NodeAssumption DEF Proc
<1>5. CASE q # NoNode
  <2> DEFINE add == AddOneToListTail(ln, head, q)
  <2>1. q \in Node /\ ~InList(ln, head, q) /\ q \in Proc
    BY <1>5 DEF Attached, Proc
  <2>2. SafeStarted(q) = [ln |-> add.ln, head |-> add.head, fwd |-> add.ln.next[cur]]
    BY <1>5 DEF SafeStarted, AddOneToListTailSafe
  <2>3. /\ Sound(add.ln, add.head)
        /\ Members(add.ln, add.head) = Members(ln, head) \cup {q}
        /\ add.head # NoIter /\ add.head.last = q /\ add.head.now = head.now
        /\ \A p \in Proc : add.ln.next[p] =
             IF p = q THEN head.now
             ELSE IF p = head.last THEN q ELSE ln.next[p]
    BY <2>1, <1>1, <1>3, AddSound DEF Proc
  <2> HIDE DEF add
  <2>. QED  BY <2>1, <2>2, <2>3, <1>1, <1>2
<1>. QED  BY <1>4, <1>5

------------------------------------------------------------------------------
(* The list. *)

\* The list after a call of DoProcess, by its outcome.
LEMMA PollList ==
  ASSUME TypeOK, ListSound, Poll
  PROVE  ListSound' /\ ln' \in Links /\ head' \in Iterator
<1>1. PICK r \in Returns(cur), q \in Proc \cup {NoNode} :
        /\ mode = "round"
        /\ q \in Proc => MayStart(q)
        /\ StepStays(r, q) \/ StepMoves(r, q) \/ StepEnds(r, q)
  BY DEF Poll
<1> DEFINE l == SafeStarted(q)
           M == Members(l.ln, l.head)
<1>2. /\ Sound(l.ln, l.head) /\ l.head # NoIter
      /\ cur \in M /\ l.fwd = l.ln.next[cur]
  BY <1>1, SafeStartedFacts DEF MayStart
<1> HIDE DEF l
<1>3. /\ l.fwd \in M
      /\ l.ln \in Links /\ l.head \in Iterator
  BY <1>2, MembersClosed DEF Sound
<1>4. ASSUME ln' = l.ln, head' = l.head, Walk(cur = l.head.last, l.fwd, q, 0)
      PROVE  ListSound' /\ ln' \in Links /\ head' \in Iterator
  <2>1. mode' # "free" /\ (mode' = "round" => cur' \in Members(ln', head'))
    BY <1>1, <1>3, <1>4 DEF Walk
  <2>. QED  BY <2>1, <1>2, <1>3, <1>4, InvFromSound
<1>5. CASE StepStays(r, q)
  BY <1>4, <1>5 DEF StepStays, l
<1>6. CASE StepMoves(r, q)
  BY <1>4, <1>6 DEF StepMoves, l
<1>7. CASE StepEnds(r, q)
  <2> DEFINE d == ListDragOneOut(l.ln, l.head, cur)
  <2>1. /\ ln' = d.ln /\ head' = d.head
        /\ \E k : Walk(d.ret, l.fwd, q, k)
    BY <1>7 DEF StepEnds, l
  <2>2. /\ Sound(d.ln, d.head) /\ Members(d.ln, d.head) = M \ {cur}
        /\ d.ret = (l.ln.next[cur] = cur)
    BY <1>2, DragSound
  <2> HIDE DEF d
  <2>3. mode' # "free" /\ (mode' = "round" => cur' \in M \ {cur})
    BY <1>1, <1>2, <1>3, <2>1, <2>2 DEF Walk
  <2>. QED  BY <2>1, <2>2, <2>3, InvFromSound DEF Sound
<1>. QED  BY <1>1, <1>5, <1>6, <1>7

LEMMA FreeOneList ==
  ASSUME TypeOK, ListSound, FreeOne
  PROVE  /\ ListSound' /\ ln' \in Links /\ head' \in Iterator
         /\ cur' \in Proc \cup {NoNode}
         /\ OnList' = OnList \ {cur} /\ cur \in OnList
<1> DEFINE F == ln.next[cur]
<1>1. /\ mode = "free" /\ cur \in Proc /\ head # NoIter /\ ln \in Links
      /\ head \in Iterator /\ head.last = ln.last[cur] /\ F \in Proc
      /\ BothWays(ln) /\ OneCircle(ln, OnList) /\ OnList \subseteq Proc
      /\ cur \in OnList
      /\ OnList = {p \in Proc : ln.next[p] # p} \cup {cur}
  BY DEF FreeOne, TypeOK, ListSound, OnList, BothWays, OneCircle, Proc, Links
<1>2. /\ ln' = Tk(ln, GetIterator(ln, cur), GetIterator(ln, F))
      /\ head' = IF cur = head.last THEN NoIter ELSE head
      /\ mode' = IF cur = head.last THEN "freed" ELSE "free"
      /\ cur' = IF cur = head.last THEN NoNode ELSE F
  BY DEF FreeOne
<1>3. /\ ln' \in Links /\ BothWays(ln') /\ OneCircle(ln', OnList \ {cur})
      /\ \A p \in Proc :
           /\ ln'.next[p] = IF p = cur THEN cur
                            ELSE IF p = ln.last[cur] THEN F ELSE ln.next[p]
           /\ ln'.last[p] = IF p = cur THEN cur
                            ELSE IF p = F THEN ln.last[cur] ELSE ln.last[p]
  <2> DEFINE cut == Tk(ln, GetIterator(ln, cur), GetIterator(ln, ln.next[cur]))
  <2>1. OnList \in SUBSET Node /\ cur \in Node /\ ln' = cut
    BY <1>1, <1>2 DEF Proc
  <2>2. /\ cut \in Links /\ BothWays(cut)
        /\ \A p \in Node :
           /\ cut.next[p] = IF p = cur THEN cur
                            ELSE IF p = ln.last[cur] THEN ln.next[cur] ELSE ln.next[p]
           /\ cut.last[p] = IF p = cur THEN cur
                            ELSE IF p = ln.next[cur] THEN ln.last[cur] ELSE ln.last[p]
        /\ \A K \in SUBSET Node :
             cur \in K /\ OneCircle(ln, K) => OneCircle(cut, K \ {cur})
    BY <1>1, <2>1, CutSound
  <2> HIDE DEF cut
  <2>. QED  BY <1>1, <2>1, <2>2 DEF Proc
<1>4. /\ ln.last[F] = cur /\ ln.next[ln.last[cur]] = cur
      /\ ln.last[cur] \in Proc /\ (F = cur <=> ln.last[cur] = cur)
  BY <1>1 DEF BothWays, Proc, Links
<1>5. CASE cur = head.last
  <2>1. OnList = {cur}
    BY <1>1, <1>4, <1>5 DEF OneCircle
  <2>2. \A p \in Proc : ln'.next[p] = p
    BY <2>1, <1>1, <1>3, <1>4, <1>5
  <2>3. OnList' = {}
    BY <2>2, <1>2, <1>5, NodeAssumption DEF OnList, Members, InList, NoIter, Proc
  <2>4. ListSound'
    BY <2>2, <2>3, <1>2, <1>3, <1>5 DEF ListSound, BothWays, Proc
  <2>. QED  BY <2>1, <2>3, <2>4, <1>1, <1>2, <1>3, <1>5 DEF Iterator
<1>6. CASE cur # head.last
  <2>1. F # cur /\ ln.last[cur] # cur
    BY <1>1, <1>4, <1>6
  <2>2. OnList' = {p \in Proc : ln'.next[p] # p} \cup {F}
    BY <1>2, <1>6 DEF OnList
  <2>3. F \in OnList \ {cur}
    BY <1>1, <1>4, <2>1 DEF BothWays, Proc
  <2>4. ASSUME NEW p \in Proc, p # F
        PROVE  ln'.next[p] # p <=> ln.next[p] # p /\ p # cur
    <3>1. CASE p = cur
      BY <3>1, <1>3
    <3>2. CASE p # cur /\ p = ln.last[cur]
      BY <3>2, <2>4, <1>3, <1>4
    <3>3. CASE p # cur /\ p # ln.last[cur]
      BY <3>3, <1>3
    <3>. QED  BY <3>1, <3>2, <3>3
  <2>5. OnList' = OnList \ {cur}
    BY <2>1, <2>2, <2>3, <2>4, <1>1
  <2>6. head'.last = ln'.last[cur']
    BY <1>1, <1>2, <1>3, <1>6, <2>1
  <2>7. ListSound'
    BY <2>5, <2>6, <1>1, <1>2, <1>3, <1>6 DEF ListSound, BothWays, OneCircle, Proc
  <2>. QED  BY <2>5, <2>7, <1>1, <1>2, <1>3, <1>6
<1>. QED  BY <1>5, <1>6

\* ProcessStart between rounds and ProcessDisattach in the teardown.
LEMMA StartList ==
  ASSUME TypeOK, ListSound, NEW q \in Proc, Start(q)
  PROVE  /\ ListSound' /\ ln' \in Links /\ head' \in Iterator
         /\ OnList' = OnList \cup {q} /\ q \notin OnList
<1> DEFINE add == AddOneToListTail(ln, head, q)
<1>1. /\ Sound(ln, head) /\ OnList = Members(ln, head)
      /\ q \in Node /\ ~InList(ln, head, q)
      /\ mode = "idle" /\ mode' = "idle" /\ ln' = add.ln /\ head' = add.head
  BY SoundFromInv DEF Start, MayStart, Attached, Proc
<1>2. /\ Sound(add.ln, add.head)
      /\ Members(add.ln, add.head) = Members(ln, head) \cup {q}
  BY <1>1, AddSound
<1>3. ListSound' /\ OnList' = Members(ln', head')
  BY <1>1, <1>2, InvFromSound
<1> HIDE DEF add
<1>. QED  BY <1>1, <1>2, <1>3 DEF Sound, Members

LEMMA DetachList ==
  ASSUME TypeOK, ListSound, NEW p \in Proc, Detach(p)
  PROVE  /\ ListSound' /\ ln' \in Links /\ head' \in Iterator
         /\ OnList' = OnList \ {p} /\ p \in OnList
<1> DEFINE d == ListDragOneOut(ln, head, p)
<1>1. /\ Sound(ln, head) /\ OnList = Members(ln, head) /\ p \in Members(ln, head)
      /\ mode' = "teardown" /\ ln' = d.ln /\ head' = d.head
  BY SoundFromInv DEF Detach, Attached, Members, Proc
<1>2. /\ Sound(d.ln, d.head)
      /\ Members(d.ln, d.head) = Members(ln, head) \ {p}
  BY <1>1, DragSound
<1>3. ListSound' /\ OnList' = Members(ln', head')
  BY <1>1, <1>2, InvFromSound
<1> HIDE DEF d
<1>. QED  BY <1>1, <1>2, <1>3 DEF Sound

LEMMA BeginRoundList ==
  ASSUME TypeOK, ListSound, BeginRound
  PROVE  ListSound' /\ cur' \in Proc /\ OnList' = OnList
<1>1. Sound(ln, head) /\ OnList = Members(ln, head) /\ head # NoIter
  BY SoundFromInv DEF BeginRound
<1>2. head.now \in OnList
  BY <1>1, MembersClosed
<1>. QED  BY <1>1, <1>2, InvFromSound DEF BeginRound, list, Members, Proc

LEMMA BeginFreeList ==
  ASSUME TypeOK, ListSound, BeginFree
  PROVE  ListSound' /\ cur' \in Proc \cup {NoNode} /\ OnList' = OnList
<1>1. /\ Sound(ln, head) /\ OnList = Members(ln, head)
      /\ ln' = ln /\ head' = head /\ cur' = head.now
      /\ mode' = IF head = NoIter THEN "freed" ELSE "free"
  BY SoundFromInv DEF BeginFree, list
<1>2. CASE head = NoIter
  BY <1>1, <1>2, InvFromSound DEF NoIter
<1>3. CASE head # NoIter
  <2>1. head.now \in OnList /\ head.now \in Proc
    BY <1>1, <1>3, MembersClosed DEF Members, Proc
  <2>2. OnList' = {p \in Proc : ln.next[p] # p} \cup {head.now}
    BY <1>1, <1>3 DEF OnList
  <2>3. OnList' = OnList
    BY <2>1, <2>2, <1>1 DEF Members, InList, Proc
  <2>. QED  BY <2>1, <2>3, <1>1, <1>3 DEF ListSound, Sound, OnList
<1>. QED  BY <1>2, <1>3

------------------------------------------------------------------------------
(* Types. *)

LEMMA CalledTypes ==
  ASSUME TypeOK, cur \in Proc, NEW q \in Proc \cup {NoNode},
         NEW c \in Ctl, NEW t \in {"running", "expired", "future"}, NEW s \in Seen,
         c.step <= NumSteps(cur), Called(q, c, t, s)
  PROVE  /\ ctl' \in [Proc -> Ctl] /\ \A p \in Proc : ctl'[p].step <= NumSteps(p)
         /\ timer' \in [Proc -> {"running", "expired", "future"}]
         /\ seen' \in [Proc -> Seen]
         /\ starts' \in [Proc -> Nat]
         /\ cond' \in Conds /\ sets' \in Nat /\ backs' \in Nat
<1>1. q \in Proc => /\ Fresh(q, 1) \in Ctl /\ Unseen(Fresh(q, 1)) \in Seen
                    /\ Fresh(q, 1).step <= NumSteps(q)
  <2>1. q \in Proc => Fresh(q, 1) \in Ctl
    BY FreshType, FirstStep DEF TypeOK
  <2>2. q \in Proc => Unseen(Fresh(q, 1)) \in Seen
    BY <2>1 DEF Unseen, Seen, Ctl
  <2>3. q \in Proc => Fresh(q, 1).step <= NumSteps(q)
    BY FirstStep DEF Fresh
  <2>. QED  BY <2>1, <2>2, <2>3
<1>2. \A p \in Proc :
        /\ ctl'[p] = IF p = q THEN Fresh(q, 1) ELSE IF p = cur THEN c ELSE ctl[p]
        /\ seen'[p] = IF p = q THEN Unseen(Fresh(q, 1)) ELSE IF p = cur THEN s ELSE seen[p]
        /\ timer'[p] = IF p = q THEN "running" ELSE IF p = cur THEN t ELSE timer[p]
        /\ starts'[p] = IF p = q THEN starts[q] + 1 ELSE starts[p]
  BY DEF Called, Update
<1>3. /\ ctl' = [p \in Proc |-> ctl'[p]] /\ seen' = [p \in Proc |-> seen'[p]]
      /\ timer' = [p \in Proc |-> timer'[p]] /\ starts' = [p \in Proc |-> starts'[p]]
  BY DEF Called, Update
<1>4. \A p \in Proc : ctl'[p] \in Ctl /\ ctl'[p].step <= NumSteps(p)
  BY <1>1, <1>2 DEF TypeOK
<1>5. \A p \in Proc : seen'[p] \in Seen
  BY <1>1, <1>2 DEF TypeOK
<1>6. \A p \in Proc : timer'[p] \in {"running", "expired", "future"}
  BY <1>2 DEF TypeOK
<1>7. \A p \in Proc : starts'[p] \in Nat
  BY <1>2 DEF TypeOK
<1>8. cond' \in Conds /\ sets' \in Nat /\ backs' \in Nat
  BY DEF Called, TypeOK
<1>9. ctl' \in [Proc -> Ctl] /\ seen' \in [Proc -> Seen]
  BY <1>3, <1>4, <1>5
<1>10. /\ timer' \in [Proc -> {"running", "expired", "future"}]
       /\ starts' \in [Proc -> Nat]
  BY <1>3, <1>6, <1>7
<1>. QED  BY <1>4, <1>8, <1>9, <1>10

LEMMA GoesToType ==
  ASSUME TypeOK, NEW p \in Proc, NEW r \in Returns(p), ~Stays(p, r), ~Ends(p, r)
  PROVE  GoesTo(p, r) \in 1..NumSteps(p)
<1>1. ctl[p].step \in 1..NumSteps(p) /\ NumSteps(p) \in Nat
  BY StepsAssumption DEF TypeOK, Ctl, NumSteps
<1>2. CASE IsJump(p, r)
  <2>1. r.num \in 0..NumSteps(p) /\ r.num < NumSteps(p)
    BY <1>2 DEF IsJump, Returns
  <2>. QED  BY <1>1, <1>2, <2>1 DEF GoesTo
<1>3. CASE ~IsJump(p, r) /\ IsDone(p, r)
  BY <1>1, <1>3 DEF GoesTo, Ends
<1>4. CASE ~IsJump(p, r) /\ ~IsDone(p, r)
  BY <1>1, <1>4 DEF GoesTo
<1>. QED  BY <1>2, <1>3, <1>4

LEMMA WalkTypes ==
  ASSUME TypeOK, cur \in Proc, mode = "round", NEW ret, NEW fwd \in Proc,
         NEW q \in Proc \cup {NoNode}, NEW k \in Nat, Walk(ret, fwd, q, k)
  PROVE  /\ mode' \in {"idle", "round", "teardown", "free", "freed"}
         /\ cur' \in Proc \cup {NoNode}
         /\ polled' \in [Proc -> Nat] /\ drops' \in Nat
<1>1. CASE ret
  BY <1>1 DEF Walk, NoPolls, TypeOK
<1>2. CASE ~ret
  BY <1>2 DEF Walk, Update, TypeOK
<1>. QED  BY <1>1, <1>2

LEMMA PollTypeOK ==
  ASSUME TypeOK, ListSound, Poll
  PROVE  TypeOK'
<1>1. PICK r \in Returns(cur), q \in Proc \cup {NoNode} :
        /\ mode = "round"
        /\ q \in Proc => MayStart(q)
        /\ StepStays(r, q) \/ StepMoves(r, q) \/ StepEnds(r, q)
  BY DEF Poll
<1> DEFINE l == SafeStarted(q)
<1>2. /\ Sound(l.ln, l.head) /\ l.head # NoIter
      /\ cur \in Members(l.ln, l.head) /\ cur \in Proc /\ l.fwd = l.ln.next[cur]
  BY <1>1, SafeStartedFacts DEF MayStart
<1>3. l.fwd \in Proc
  BY <1>2, MembersClosed DEF Members, Proc
<1> HIDE DEF l
<1>4. ctl[cur].step <= NumSteps(cur)
  BY <1>2 DEF TypeOK
<1>5. /\ Charged(cur) \in Ctl /\ Charged(cur).step <= NumSteps(cur)
      /\ ChargedTimer(cur) \in {"running", "expired", "future"}
      /\ Saw(cur) \in Seen
  BY <1>2, <1>4, PollTypes
<1>6. ln' \in Links /\ head' \in Iterator
  BY PollList
<1>7. CASE StepStays(r, q)
  <2>1. /\ Called(q, Charged(cur), ChargedTimer(cur), Saw(cur))
        /\ Walk(cur = l.head.last, l.fwd, q, 0)
        /\ unnotified' = Update(unnotified, q, unnotified[q] + 1)
    BY <1>7 DEF StepStays, l
  <2>2. unnotified' \in [Proc -> Int]
    BY <2>1 DEF Update, TypeOK
  <2>. QED  BY <1>1, <1>2, <1>3, <1>5, <1>6, <2>1, <2>2, CalledTypes, WalkTypes DEF TypeOK
<1>8. CASE StepMoves(r, q)
  <2> DEFINE c == Fresh(cur, GoesTo(cur, r))
  <2>1. /\ Called(q, c, "running", Unseen(c))
        /\ Walk(cur = l.head.last, l.fwd, q, 0)
        /\ unnotified' = Update(unnotified, q, unnotified[q] + 1)
        /\ ~Stays(cur, r) /\ ~Ends(cur, r)
    BY <1>8 DEF StepMoves, l
  <2>2. unnotified' \in [Proc -> Int]
    BY <2>1 DEF Update, TypeOK
  <2>3. GoesTo(cur, r) \in 1..NumSteps(cur)
    BY <1>2, <2>1, GoesToType
  <2>4. c \in Ctl /\ c.step <= NumSteps(cur)
    <3>1. c \in Ctl
      BY <1>2, <2>3, FreshType DEF TypeOK
    <3>2. c.step = GoesTo(cur, r)
      BY DEF Fresh
    <3>. QED  BY <2>3, <3>1, <3>2
  <2>5. Unseen(c) \in Seen
    BY <2>4 DEF Unseen, Seen, Ctl
  <2> HIDE DEF c
  <2>. QED  BY <1>1, <1>2, <1>3, <1>6, <2>1, <2>2, <2>4, <2>5, CalledTypes, WalkTypes
            DEF TypeOK
<1>9. CASE StepEnds(r, q)
  <2> DEFINE d == ListDragOneOut(l.ln, l.head, cur)
             k == IF cur = l.head.last THEN 1 ELSE 0
  <2>1. /\ Called(q, Charged(cur), ChargedTimer(cur), Saw(cur))
        /\ Walk(d.ret, l.fwd, q, k)
        /\ unnotified' = Update(Update(unnotified, cur, unnotified[cur] - 1),
                                q, unnotified[q] + 1)
    BY <1>9 DEF StepEnds, l
  <2>2. unnotified' \in [Proc -> Int]
    BY <1>2, <2>1 DEF Update, TypeOK
  <2>3. k \in Nat
    OBVIOUS
  <2> HIDE DEF d, k
  <2>. QED  BY <1>1, <1>2, <1>3, <1>5, <1>6, <2>1, <2>2, <2>3, CalledTypes, WalkTypes
            DEF TypeOK
<1>. QED  BY <1>1, <1>7, <1>8, <1>9

------------------------------------------------------------------------------
(* Types and list together: one inductive invariant. *)

LEMMA InitListInv == Init => TypeOK /\ ListSound
<1> SUFFICES ASSUME Init PROVE TypeOK /\ ListSound
  OBVIOUS
<1>1. \A p \in Proc : /\ Fresh(p, 1) \in Ctl /\ Fresh(p, 1).step <= NumSteps(p)
                     /\ Unseen(Fresh(p, 1)) \in Seen
  <2> TAKE p \in Proc
  <2>1. Fresh(p, 1) \in Ctl
    BY FreshType, FirstStep DEF Init
  <2>2. Fresh(p, 1).step <= NumSteps(p)
    BY FirstStep DEF Fresh
  <2>3. Unseen(Fresh(p, 1)) \in Seen
    BY <2>1 DEF Unseen, Seen, Ctl
  <2>. QED  BY <2>1, <2>2, <2>3
<1>2. /\ ctl \in [Proc -> Ctl] /\ \A p \in Proc : ctl[p].step <= NumSteps(p)
      /\ seen \in [Proc -> Seen]
  BY <1>1 DEF Init
<1>3. ln \in Links /\ head \in Iterator /\ \A p \in Proc : ln.next[p] = p /\ ln.last[p] = p
  BY DEF Init, Alone, Links, Iterator, Proc
<1>4. OnList = {}
  BY <1>3, NodeAssumption DEF Init, OnList, Members, InList, NoIter, Proc
<1>5. ListSound
  BY <1>3, <1>4 DEF Init, ListSound
<1>. QED  BY <1>2, <1>3, <1>5 DEF Init, TypeOK

LEMMA NextListInv == TypeOK /\ ListSound /\ [Next]_vars => TypeOK' /\ ListSound'
<1> SUFFICES ASSUME TypeOK, ListSound, [Next]_vars
             PROVE  TypeOK' /\ ListSound'
  OBVIOUS
<1>1. ASSUME NEW p \in Proc, Start(p)
      PROVE  TypeOK' /\ ListSound'
  <2>1. /\ Fresh(p, 1) \in Ctl /\ Fresh(p, 1).step <= NumSteps(p)
    <3>1. Fresh(p, 1) \in Ctl
      BY FreshType, FirstStep DEF TypeOK
    <3>. QED  BY <3>1, FirstStep DEF Fresh
  <2>2. Unseen(Fresh(p, 1)) \in Seen
    BY <2>1 DEF Unseen, Seen, Ctl
  <2>3. /\ ctl' \in [Proc -> Ctl] /\ \A x \in Proc : ctl'[x].step <= NumSteps(x)
        /\ seen' \in [Proc -> Seen]
    BY <1>1, <2>1, <2>2 DEF Start, Update, TypeOK
  <2>4. /\ timer' \in [Proc -> {"running", "expired", "future"}]
        /\ starts' \in [Proc -> Nat] /\ unnotified' \in [Proc -> Int]
    BY <1>1 DEF Start, Update, TypeOK
  <2>. QED  BY <1>1, <2>3, <2>4, StartList DEF Start, TypeOK
<1>2. ASSUME NEW p \in Proc, Elapse(p) \/ SetBack(p)
      PROVE  TypeOK' /\ ListSound'
  <2>1. TypeOK'
    BY <1>2 DEF Elapse, SetBack, TypeOK, list, hist
  <2>2. ListSound'
    BY <1>2 DEF Elapse, SetBack, ListSound, OnList, Members, list, hist
  <2>. QED  BY <2>1, <2>2
<1>3. ASSUME NEW p \in Proc, Detach(p)
      PROVE  TypeOK' /\ ListSound'
  <2>1. unnotified' \in [Proc -> Int]
    BY <1>3 DEF Detach, TypeOK
  <2>2. ListSound' /\ ln' \in Links /\ head' \in Iterator
    BY <1>3, DetachList
  <2>. QED  BY <1>3, <2>1, <2>2 DEF Detach, TypeOK
<1>4. ASSUME NEW c \in Conds, SetCondition(c)
      PROVE  TypeOK' /\ ListSound'
  <2>1. TypeOK'
    BY <1>4 DEF SetCondition, TypeOK, list, hist
  <2>2. ListSound'
    BY <1>4 DEF SetCondition, ListSound, OnList, Members, list, hist
  <2>. QED  BY <2>1, <2>2
<1>5. CASE BeginRound
  BY <1>5, BeginRoundList DEF BeginRound, TypeOK, list, hist
<1>6. CASE Poll
  BY <1>6, PollTypeOK, PollList
<1>7. CASE StopLoop
  <2>1. TypeOK'
    BY <1>7 DEF StopLoop, TypeOK, list, hist
  <2>2. ListSound'
    BY <1>7 DEF StopLoop, ListSound, OnList, Members, list, hist
  <2>. QED  BY <2>1, <2>2
<1>8. CASE BeginFree
  BY <1>8, BeginFreeList DEF BeginFree, TypeOK, list, hist
<1>9. CASE FreeOne
  <2>1. unnotified' \in [Proc -> Int]
    BY <1>9 DEF FreeOne, TypeOK, ListSound
  <2>2. /\ ListSound' /\ ln' \in Links /\ head' \in Iterator
        /\ cur' \in Proc \cup {NoNode}
    BY <1>9, FreeOneList
  <2>3. mode' \in {"free", "freed"}
    BY <1>9 DEF FreeOne
  <2>. QED  BY <1>9, <2>1, <2>2, <2>3 DEF FreeOne, TypeOK
<1>10. CASE UNCHANGED vars
  <2>1. TypeOK'
    BY <1>10 DEF vars, TypeOK, hist
  <2>2. ListSound'
    BY <1>10 DEF vars, ListSound, OnList, Members
  <2>. QED  BY <2>1, <2>2
<1>. QED  BY <1>1, <1>2, <1>3, <1>4, <1>5, <1>6, <1>7, <1>8, <1>9, <1>10 DEF Next, Stopped

\* The variables of the scheduler keep their types, for all processes and tables.
THEOREM TypeCorrect == Spec => []TypeOK
BY InitListInv, NextListInv, PTL DEF Spec

\* The processing list of DoProcessing is one sound circle in every state.
THEOREM ListStaysSound == Spec => []ListSound
BY InitListInv, NextListInv, PTL DEF Spec

------------------------------------------------------------------------------
(* Retries. *)

\* Who is in the list after a call, by its outcome.
LEMMA PollMembers ==
  ASSUME TypeOK, ListSound, mode = "round", NEW r, NEW q \in Proc \cup {NoNode},
         q \in Proc => MayStart(q)
  PROVE  /\ StepStays(r, q) \/ StepMoves(r, q) =>
              OnList' = OnList \cup ({q} \cap Proc)
         /\ StepEnds(r, q) => OnList' = (OnList \cup ({q} \cap Proc)) \ {cur}
         /\ q \notin OnList /\ cur \in OnList /\ cur \in Proc /\ q # cur
<1> DEFINE l == SafeStarted(q)
           d == ListDragOneOut(l.ln, l.head, cur)
<1>1. /\ Sound(l.ln, l.head) /\ cur \in Members(l.ln, l.head)
      /\ Members(l.ln, l.head) = OnList \cup ({q} \cap Proc)
      /\ cur \in OnList /\ cur \in Proc /\ q # cur
  BY SafeStartedFacts DEF MayStart
<1>2. q \notin OnList
  BY NodeAssumption DEF MayStart, Attached, OnList, Members, Proc
<1>3. Members(d.ln, d.head) = Members(l.ln, l.head) \ {cur}
  BY <1>1, DragSound
<1> HIDE DEF l, d
<1>4. ASSUME StepStays(r, q) \/ StepMoves(r, q)
      PROVE  OnList' = OnList \cup ({q} \cap Proc)
  <2>1. ln' = l.ln /\ head' = l.head /\ mode' # "free"
    BY <1>4 DEF StepStays, StepMoves, Walk, l
  <2>. QED  BY <1>1, <2>1 DEF OnList
<1>5. ASSUME StepEnds(r, q)
      PROVE  OnList' = (OnList \cup ({q} \cap Proc)) \ {cur}
  <2>1. ln' = d.ln /\ head' = d.head /\ mode' # "free"
    BY <1>5 DEF StepEnds, Walk, l, d
  <2>. QED  BY <1>1, <1>3, <2>1 DEF OnList
<1>. QED  BY <1>1, <1>2, <1>4, <1>5

\* What a process is called with is charged to it.
LEMMA ChargeBudget ==
  ASSUME TypeOK, NEW p \in Proc,
         seen[p].over + ctl[p].retrys = seen[p].budget,
         seen[p].last => ctl[p].retrys = 0
  PROVE  /\ Saw(p).over + Charged(p).retrys = Saw(p).budget
         /\ Saw(p).last => Charged(p).retrys = 0
         /\ PollState(p) # "LAST" => Saw(p).last = seen[p].last
<1>1. ctl[p] \in Ctl /\ seen[p] \in Seen
  BY DEF TypeOK
<1>2. CASE PollState(p) = "FIRST"
  <2>1. Saw(p) = seen[p] /\ Charged(p) = [ctl[p] EXCEPT !.first = FALSE]
    BY <1>2 DEF Saw, Charged
  <2>2. Charged(p).retrys = ctl[p].retrys
    BY <1>1, <2>1 DEF Ctl
  <2>. QED  BY <2>1, <2>2
<1>3. CASE PollState(p) = "OVERTIME"
  <2>1. /\ Saw(p) = [seen[p] EXCEPT !.over = @ + 1]
        /\ Charged(p) = [ctl[p] EXCEPT !.retrys = @ - 1]
    BY <1>3 DEF Saw, Charged
  <2>2. Charged(p).retrys = ctl[p].retrys - 1
    BY <1>1, <2>1 DEF Ctl
  <2>3. /\ Saw(p).over = seen[p].over + 1 /\ Saw(p).budget = seen[p].budget
        /\ Saw(p).last = seen[p].last
    BY <1>1, <2>1 DEF Seen
  <2>4. ctl[p].retrys > 0
    BY <1>3 DEF PollState
  <2>5. ctl[p].retrys \in Nat /\ seen[p].over \in Nat /\ seen[p].budget \in Nat
    BY <1>1 DEF Ctl, Seen
  <2>6. ~seen[p].last
    BY <2>4, <2>5
  <2>7. Saw(p).over + Charged(p).retrys = Saw(p).budget
    BY <2>2, <2>3, <2>5
  <2>. QED  BY <2>3, <2>6, <2>7
<1>4. CASE PollState(p) = "LAST"
  <2>1. Saw(p) = [seen[p] EXCEPT !.last = TRUE] /\ Charged(p) = ctl[p]
    BY <1>4 DEF Saw, Charged
  <2>2. Saw(p).over = seen[p].over /\ Saw(p).budget = seen[p].budget
    BY <1>1, <2>1 DEF Seen
  <2>3. ~(ctl[p].retrys > 0)
    BY <1>4 DEF PollState
  <2>4. ctl[p].retrys = 0
    BY <1>1, <2>3 DEF Ctl
  <2>. QED  BY <1>4, <2>1, <2>2, <2>4
<1>5. CASE PollState(p) \notin {"FIRST", "OVERTIME", "LAST"}
  <2>1. Saw(p) = seen[p] /\ Charged(p) = ctl[p]
    BY <1>5 DEF Saw, Charged
  <2>. QED  BY <2>1
<1>. QED  BY <1>2, <1>3, <1>4, <1>5

LEMMA FreshBudget ==
  ASSUME NEW p \in Proc, NEW s \in 1..NumSteps(p), cond \in Conds
  PROVE  LET c == Fresh(p, s)
         IN  Unseen(c).over + c.retrys = Unseen(c).budget /\ Unseen(c).last = FALSE
<1>1. Fresh(p, s).retrys \in Nat
  BY FreshType DEF Ctl
<1>. QED  BY <1>1 DEF Unseen

LEMMA PollBudget ==
  ASSUME TypeOK, ListSound, RetryBudget, Poll
  PROVE  RetryBudget'
<1>1. PICK r \in Returns(cur), q \in Proc \cup {NoNode} :
        /\ mode = "round"
        /\ q \in Proc => MayStart(q)
        /\ StepStays(r, q) \/ StepMoves(r, q) \/ StepEnds(r, q)
  BY DEF Poll
<1>2. /\ q \notin OnList /\ cur \in OnList /\ cur \in Proc /\ q # cur
      /\ StepStays(r, q) \/ StepMoves(r, q) => OnList' = OnList \cup ({q} \cap Proc)
      /\ StepEnds(r, q) => OnList' = (OnList \cup ({q} \cap Proc)) \ {cur}
  BY <1>1, PollMembers
<1> SUFFICES ASSUME NEW p \in Proc
             PROVE  /\ seen'[p].over + ctl'[p].retrys = seen'[p].budget
                    /\ seen'[p].last => ctl'[p].retrys = 0 /\ p \notin OnList'
  BY DEF RetryBudget
<1>3. CASE p = q
  <2>1. ctl'[p] = Fresh(p, 1) /\ seen'[p] = Unseen(Fresh(p, 1))
    BY <1>1, <1>2, <1>3 DEF StepStays, StepMoves, StepEnds, Called, Update
  <2>. QED  BY <2>1, FreshBudget, FirstStep DEF TypeOK
<1>4. CASE p # q /\ p # cur
  <2>1. ctl'[p] = ctl[p] /\ seen'[p] = seen[p]
    BY <1>1, <1>4 DEF StepStays, StepMoves, StepEnds, Called, Update
  <2>2. p \notin OnList => p \notin OnList'
    BY <1>1, <1>2, <1>4
  <2>. QED  BY <2>1, <2>2 DEF RetryBudget
<1>5. CASE p # q /\ p = cur
  <2>1. ~seen[cur].last /\ seen[cur].over + ctl[cur].retrys = seen[cur].budget
    BY <1>2 DEF RetryBudget
  <2>2. /\ Saw(cur).over + Charged(cur).retrys = Saw(cur).budget
        /\ Saw(cur).last => Charged(cur).retrys = 0
        /\ PollState(cur) # "LAST" => Saw(cur).last = seen[cur].last
    BY <1>2, <2>1, ChargeBudget
  <2>3. CASE StepStays(r, q)
    <3>1. /\ ctl'[cur] = Charged(cur) /\ seen'[cur] = Saw(cur)
          /\ PollState(cur) # "LAST"
      BY <1>2, <2>3 DEF StepStays, Called, Update, Stays
    <3>. QED  BY <1>5, <2>1, <2>2, <3>1
  <2>4. CASE StepMoves(r, q)
    <3> DEFINE c == Fresh(cur, GoesTo(cur, r))
    <3>1. ctl'[cur] = c /\ seen'[cur] = Unseen(c)
      BY <1>2, <2>4 DEF StepMoves, Called, Update
    <3>2. GoesTo(cur, r) \in 1..NumSteps(cur)
      BY <1>2, <2>4, GoesToType DEF StepMoves
    <3>. QED  BY <1>2, <1>5, <3>1, <3>2, FreshBudget DEF TypeOK
  <2>5. CASE StepEnds(r, q)
    <3>1. ctl'[cur] = Charged(cur) /\ seen'[cur] = Saw(cur) /\ cur \notin OnList'
      BY <1>2, <2>5 DEF StepEnds, Called, Update
    <3>. QED  BY <1>5, <2>2, <3>1
  <2>. QED  BY <1>1, <2>3, <2>4, <2>5
<1>. QED  BY <1>3, <1>4, <1>5

LEMMA NextBudget ==
  TypeOK /\ ListSound /\ RetryBudget /\ [Next]_vars => RetryBudget'
<1> SUFFICES ASSUME TypeOK, ListSound, RetryBudget, [Next]_vars
             PROVE  RetryBudget'
  OBVIOUS
<1>1. ASSUME NEW q \in Proc, Start(q)
      PROVE  RetryBudget'
  <2>1. OnList' = OnList \cup {q}
    BY <1>1, StartList
  <2>2. \A p \in Proc :
          /\ ctl'[p] = IF p = q THEN Fresh(p, 1) ELSE ctl[p]
          /\ seen'[p] = IF p = q THEN Unseen(Fresh(p, 1)) ELSE seen[p]
    BY <1>1 DEF Start, Update
  <2>3. LET c == Fresh(q, 1)
        IN  Unseen(c).over + c.retrys = Unseen(c).budget /\ Unseen(c).last = FALSE
    BY FreshBudget, FirstStep DEF TypeOK
  <2>. QED  BY <2>1, <2>2, <2>3 DEF RetryBudget
<1>2. ASSUME ctl' = ctl, seen' = seen, OnList' \subseteq OnList
      PROVE  RetryBudget'
  BY <1>2 DEF RetryBudget
<1>3. ASSUME NEW p \in Proc, Elapse(p) \/ SetBack(p)
      PROVE  RetryBudget'
  BY <1>2, <1>3 DEF Elapse, SetBack, OnList, Members, list, hist
<1>4. ASSUME NEW p \in Proc, Detach(p)
      PROVE  RetryBudget'
  BY <1>2, <1>4, DetachList DEF Detach
<1>5. ASSUME NEW c \in Conds, SetCondition(c)
      PROVE  RetryBudget'
  BY <1>2, <1>5 DEF SetCondition, OnList, Members, list, hist
<1>6. CASE BeginRound
  BY <1>2, <1>6, BeginRoundList DEF BeginRound, hist
<1>7. CASE Poll
  BY <1>7, PollBudget
<1>8. CASE StopLoop
  BY <1>2, <1>8 DEF StopLoop, OnList, Members, list, hist
<1>9. CASE BeginFree
  BY <1>2, <1>9, BeginFreeList DEF BeginFree, hist
<1>10. CASE FreeOne
  BY <1>2, <1>10, FreeOneList DEF FreeOne
<1>11. CASE UNCHANGED vars
  BY <1>2, <1>11 DEF vars, hist, OnList, Members
<1>. QED  BY <1>1, <1>3, <1>4, <1>5, <1>6, <1>7, <1>8, <1>9, <1>10, <1>11 DEF Next, Stopped

LEMMA InitBudget == Init => RetryBudget
<1> SUFFICES ASSUME Init, NEW p \in Proc
             PROVE  /\ seen[p].over + ctl[p].retrys = seen[p].budget
                    /\ seen[p].last => ctl[p].retrys = 0 /\ p \notin OnList
  BY DEF RetryBudget
<1>1. ctl[p] = Fresh(p, 1) /\ seen[p] = Unseen(Fresh(p, 1))
  BY DEF Init
<1>. QED  BY <1>1, FreshBudget, FirstStep DEF Init

\* The retries a step was started with are what its overtime calls use up, and
\* no process waits on in a step after that step's LAST_TIME.
THEOREM BudgetKept == Spec => []RetryBudget
BY InitListInv, NextListInv, InitBudget, NextBudget, PTL DEF Spec

------------------------------------------------------------------------------
(* Notification. *)

LEMMA NextNotified ==
  TypeOK /\ ListSound /\ NotifiedOnce /\ [Next]_vars => NotifiedOnce'
<1> SUFFICES ASSUME TypeOK, ListSound, NotifiedOnce, [Next]_vars
             PROVE  NotifiedOnce'
  OBVIOUS
<1>0. unnotified \in [Proc -> Int]
  BY DEF TypeOK
<1>1. ASSUME NEW q \in Proc, Start(q)
      PROVE  NotifiedOnce'
  BY <1>1, StartList DEF Start, Update, NotifiedOnce
<1>2. ASSUME unnotified' = unnotified, OnList' = OnList
      PROVE  NotifiedOnce'
  BY <1>2 DEF NotifiedOnce
<1>3. ASSUME NEW p \in Proc, Elapse(p) \/ SetBack(p)
      PROVE  NotifiedOnce'
  BY <1>2, <1>3 DEF Elapse, SetBack, OnList, Members, list, hist
<1>4. ASSUME NEW p \in Proc, Detach(p)
      PROVE  NotifiedOnce'
  <2>1. OnList' = OnList \ {p} /\ p \in OnList
    BY <1>4, DetachList
  <2>2. \A x \in Proc : unnotified'[x] = IF x = p THEN unnotified[p] - 1 ELSE unnotified[x]
    BY <1>0, <1>4 DEF Detach
  <2>. QED  BY <2>1, <2>2 DEF NotifiedOnce
<1>5. ASSUME NEW c \in Conds, SetCondition(c)
      PROVE  NotifiedOnce'
  BY <1>2, <1>5 DEF SetCondition, OnList, Members, list, hist
<1>6. CASE BeginRound
  BY <1>2, <1>6, BeginRoundList DEF BeginRound, hist
<1>7. CASE Poll
  <2>1. PICK r \in Returns(cur), q \in Proc \cup {NoNode} :
          /\ mode = "round"
          /\ q \in Proc => MayStart(q)
          /\ StepStays(r, q) \/ StepMoves(r, q) \/ StepEnds(r, q)
    BY <1>7 DEF Poll
  <2>2. /\ q \notin OnList /\ cur \in OnList /\ cur \in Proc /\ q # cur
        /\ StepStays(r, q) \/ StepMoves(r, q) => OnList' = OnList \cup ({q} \cap Proc)
        /\ StepEnds(r, q) => OnList' = (OnList \cup ({q} \cap Proc)) \ {cur}
    BY <2>1, PollMembers
  <2>3. CASE StepStays(r, q) \/ StepMoves(r, q)
    <3>1. unnotified' = Update(unnotified, q, unnotified[q] + 1)
      BY <2>3 DEF StepStays, StepMoves
    <3>. QED  BY <2>2, <2>3, <3>1 DEF NotifiedOnce, Update
  <2>4. CASE StepEnds(r, q)
    <3>1. unnotified' = Update(Update(unnotified, cur, unnotified[cur] - 1),
                              q, unnotified[q] + 1)
      BY <2>4 DEF StepEnds
    <3>. QED  BY <2>2, <2>4, <3>1 DEF NotifiedOnce, Update
  <2>. QED  BY <2>1, <2>3, <2>4
<1>8. CASE StopLoop
  BY <1>2, <1>8 DEF StopLoop, OnList, Members, list, hist
<1>9. CASE BeginFree
  BY <1>2, <1>9, BeginFreeList DEF BeginFree, hist
<1>10. CASE FreeOne
  BY <1>0, <1>10, FreeOneList DEF FreeOne, NotifiedOnce
<1>11. CASE UNCHANGED vars
  BY <1>2, <1>11 DEF vars, hist, OnList, Members
<1>. QED  BY <1>1, <1>3, <1>4, <1>5, <1>6, <1>7, <1>8, <1>9, <1>10, <1>11 DEF Next, Stopped

LEMMA InitNotified == Init => NotifiedOnce
<1> SUFFICES ASSUME Init PROVE NotifiedOnce
  OBVIOUS
<1>1. mode = "idle" /\ head.now = NoNode /\ \A p \in Node : ln.next[p] = p
  BY DEF Init, Alone, NoIter
<1>2. OnList = {}
  BY <1>1, NodeAssumption DEF OnList, Members, InList
<1>. QED  BY <1>2 DEF Init, NotifiedOnce

\* Every start of a process is notified exactly once, or its owner detached it.
THEOREM NotifyExactlyOnce == Spec => []NotifiedOnce
BY InitListInv, NextListInv, InitNotified, NextNotified, PTL DEF Spec

------------------------------------------------------------------------------
(* The walk of ForEach. *)

WalkInv == WalkOrder /\ RepeatsOnlyAfterTailDrop

\* The calls of the round counted after a call of cur that starts q.
Count(q) == Update(Update(polled, cur, polled[cur] + 1), q, 0)

\* The order of the counts along the list, right after the call of cur.
LEMMA CountOrder ==
  ASSUME TypeOK, ListSound, WalkInv, mode = "round",
         NEW q \in Proc \cup {NoNode}, q \in Proc => MayStart(q)
  PROVE  LET l == SafeStarted(q)
             n == Count(q)
         IN  /\ \A p \in Members(l.ln, l.head) :
                  p # l.head.last => n[l.ln.next[p]] <= n[p]
             /\ cur # l.head.last => n[l.fwd] <= polled[cur]
             /\ cur # head.now => polled[cur] < n[l.ln.last[cur]]
             /\ \A p \in Proc : n[p] <= 1 + drops
             /\ n \in [Proc -> Nat] /\ n[cur] = polled[cur] + 1
             /\ \A p \in Proc : p # q /\ p # cur => n[p] = polled[p]
<1> DEFINE l == SafeStarted(q)
           n == Count(q)
<1>1. /\ Sound(l.ln, l.head) /\ l.head # NoIter
      /\ Members(l.ln, l.head) = OnList \cup ({q} \cap Proc)
      /\ l.head.now = head.now /\ l.fwd = l.ln.next[cur]
      /\ cur \in OnList /\ cur \in Proc /\ q # cur
      /\ IF q \in Proc
         THEN /\ l.head.last = q
              /\ \A p \in Proc : l.ln.next[p] =
                   IF p = q THEN head.now
                   ELSE IF p = head.last THEN q ELSE ln.next[p]
         ELSE l.ln = ln /\ l.head = head
  BY SafeStartedFacts DEF MayStart
<1> HIDE DEF l
<1>2. /\ Sound(ln, head) /\ OnList = Members(ln, head) /\ head # NoIter
      /\ OnList \subseteq Proc
  <2>1. Sound(ln, head) /\ OnList = Members(ln, head)
    BY SoundFromInv
  <2>2. head # NoIter
    BY <2>1, <1>1, NodeAssumption DEF Sound, Members, InList, NoIter, Proc
  <2>. QED  BY <2>1, <2>2 DEF Members, Proc
<1>3. /\ head.now \in OnList /\ head.last \in OnList /\ ln.next[head.last] = head.now
      /\ head.last = ln.last[head.now]
      /\ \A p \in OnList : ln.next[p] \in OnList /\ ln.last[p] \in OnList
  BY <1>2, MembersClosed DEF Sound
<1>4. q \notin OnList
  BY PollMembers
<1>5. /\ polled[cur] <= drops
      /\ cur # head.now => polled[cur] < polled[ln.last[cur]]
      /\ \A p \in OnList : p # head.last => polled[ln.next[p]] <= polled[p]
      /\ polled \in [Proc -> Nat] /\ drops \in Nat
      /\ \A p \in Proc : polled[p] <= 1 + drops
  BY DEF WalkInv, WalkOrder, RepeatsOnlyAfterTailDrop, TypeOK
<1>6. /\ n \in [Proc -> Nat] /\ n[cur] = polled[cur] + 1
      /\ \A p \in Proc : p # q /\ p # cur => n[p] = polled[p]
      /\ q \in Proc => n[q] = 0
  BY <1>1, <1>5 DEF Count, Update
<1> HIDE DEF n
<1>7. \A p \in Proc : ln.last[ln.next[p]] = p /\ ln.next[ln.last[p]] = p
  BY <1>2 DEF Sound, BothWays, Proc
<1>8. ASSUME NEW p \in OnList, p # head.last
      PROVE  n[ln.next[p]] <= n[p]
  <2>1. /\ ln.next[p] \in OnList /\ p \in Proc /\ ln.next[p] \in Proc
        /\ p # q /\ ln.next[p] # q
    BY <1>2, <1>3, <1>4
  <2>2. n[p] \in Nat /\ polled[p] \in Nat /\ polled[p] <= n[p] /\ polled[cur] \in Nat
    BY <2>1, <1>1, <1>5, <1>6
  <2>3. CASE ln.next[p] = cur
    <3>1. ln.last[cur] = p
      BY <2>1, <2>3, <1>7
    <3>2. cur # head.now
      BY <3>1, <1>3, <1>8
    <3>3. polled[cur] < polled[p]
      BY <3>1, <3>2, <1>5
    <3>. QED  BY <3>3, <2>2, <2>3, <1>6
  <2>4. CASE ln.next[p] # cur
    <3>1. n[ln.next[p]] = polled[ln.next[p]] /\ polled[ln.next[p]] \in Nat
      BY <2>1, <2>4, <1>5, <1>6
    <3>2. polled[ln.next[p]] <= polled[p]
      BY <1>5, <1>8
    <3>. QED  BY <3>1, <3>2, <2>2
  <2>. QED  BY <2>3, <2>4
<1>9. ASSUME NEW p \in Members(l.ln, l.head), p # l.head.last
      PROVE  n[l.ln.next[p]] <= n[p]
  <2>1. CASE q \in Proc
    <3>1. p # q /\ p \in OnList /\ p \in Proc
      BY <2>1, <1>1, <1>2, <1>9
    <3>2. CASE p = head.last
      BY <2>1, <3>1, <3>2, <1>1, <1>6
    <3>3. CASE p # head.last
      BY <2>1, <3>1, <3>3, <1>1, <1>8
    <3>. QED  BY <3>2, <3>3
  <2>2. CASE q \notin Proc
    BY <2>2, <1>1, <1>8, <1>9
  <2>. QED  BY <2>1, <2>2
<1>10. ASSUME cur # l.head.last
       PROVE  n[l.fwd] <= polled[cur]
  <2>1. CASE q \in Proc /\ cur = head.last
    <3>1. l.fwd = q
      BY <2>1, <1>1
    <3>. QED  BY <2>1, <3>1, <1>1, <1>5, <1>6
  <2>2. CASE cur # head.last
    <3>1. l.fwd = ln.next[cur] /\ ln.next[cur] \in OnList
      BY <2>2, <1>1, <1>3
    <3>2. ln.next[cur] # cur
      <4>1. OneCircle(ln, OnList)
        BY <1>2 DEF Sound
      <4>2. ln.next[cur] = cur => {cur} = OnList
        BY <4>1, <1>1 DEF OneCircle
      <4>. QED  BY <4>2, <2>2, <1>3
    <3>3. n[ln.next[cur]] = polled[ln.next[cur]]
      BY <3>1, <3>2, <1>2, <1>4, <1>6
    <3>. QED  BY <3>1, <3>3, <2>2, <1>1, <1>5
  <2>3. CASE q \notin Proc /\ cur = head.last
    BY <2>3, <1>1, <1>10
  <2>. QED  BY <2>1, <2>2, <2>3
<1>11. ASSUME cur # head.now
       PROVE  polled[cur] < n[l.ln.last[cur]]
  <2> DEFINE P == ln.last[cur]
  <2>1. /\ P \in OnList /\ P \in Proc /\ ln.next[P] = cur /\ P # q
        /\ polled[cur] < polled[P]
    BY <1>1, <1>2, <1>3, <1>4, <1>5, <1>7, <1>11
  <2>2. P # head.last /\ P # cur
    BY <2>1, <1>1, <1>3, <1>5, <1>11
  <2>3. l.ln.next[P] = cur
    BY <2>1, <2>2, <1>1
  <2>4. l.ln.last[cur] = P
    BY <2>1, <2>3, <1>1 DEF Sound, BothWays, Proc
  <2>5. n[P] = polled[P]
    BY <2>1, <2>2, <1>6
  <2>. QED  BY <2>1, <2>4, <2>5
<1>12. \A p \in Proc : n[p] <= 1 + drops
  <2> SUFFICES ASSUME NEW p \in Proc PROVE n[p] <= 1 + drops
    OBVIOUS
  <2>1. CASE p = q
    BY <2>1, <1>5, <1>6
  <2>2. CASE p = cur
    BY <2>2, <1>1, <1>5, <1>6
  <2>3. CASE p # q /\ p # cur
    BY <2>3, <1>5, <1>6
  <2>. QED  BY <2>1, <2>2, <2>3
<1>. QED  BY <1>6, <1>9, <1>10, <1>11, <1>12 DEF l, n

\* One call keeps the order of the counts, or ends the round.
LEMMA PollWalk ==
  ASSUME TypeOK, ListSound, WalkInv, Poll
  PROVE  WalkInv'
<1>1. PICK r \in Returns(cur), q \in Proc \cup {NoNode} :
        /\ mode = "round"
        /\ q \in Proc => MayStart(q)
        /\ StepStays(r, q) \/ StepMoves(r, q) \/ StepEnds(r, q)
  BY DEF Poll
<1> DEFINE l == SafeStarted(q)
           n == Count(q)
           M == Members(l.ln, l.head)
<1>2. /\ Sound(l.ln, l.head) /\ l.head # NoIter /\ l.head.now = head.now
      /\ l.fwd = l.ln.next[cur] /\ cur \in M /\ cur \in Proc
  BY <1>1, SafeStartedFacts DEF MayStart
<1>3. /\ \A p \in M : p # l.head.last => n[l.ln.next[p]] <= n[p]
      /\ cur # l.head.last => n[l.fwd] <= polled[cur]
      /\ cur # head.now => polled[cur] < n[l.ln.last[cur]]
      /\ \A p \in Proc : n[p] <= 1 + drops
      /\ n \in [Proc -> Nat] /\ n[cur] = polled[cur] + 1
  BY <1>1, CountOrder
<1>4. /\ polled[cur] <= drops /\ polled \in [Proc -> Nat] /\ drops \in Nat
  BY <1>1 DEF WalkInv, WalkOrder, TypeOK
<1> HIDE DEF l, n
<1>5. /\ l.ln.next[l.head.last] = l.head.now /\ l.head.last = l.ln.last[l.head.now]
      /\ l.head.now \in M /\ l.head.last \in M /\ M \subseteq Proc
      /\ l.ln.next[cur] \in M /\ l.ln.last[cur] \in M
      /\ \A p \in Proc : l.ln.last[l.ln.next[p]] = p /\ l.ln.next[l.ln.last[p]] = p
  <2>1. /\ l.ln.next[l.head.last] = l.head.now
        /\ l.head.now \in M /\ l.head.last \in M
        /\ l.ln.next[cur] \in M /\ l.ln.last[cur] \in M
    BY <1>2, MembersClosed
  <2>2. M \subseteq Proc
    BY DEF Members, Proc
  <2>. QED  BY <2>1, <2>2, <1>2 DEF Sound, BothWays, Proc
<1>6. ASSUME mode' = "idle", polled' = NoPolls, drops' = 0
      PROVE  WalkInv'
  BY <1>6 DEF WalkInv, WalkOrder, RepeatsOnlyAfterTailDrop, NoPolls
<1>7. CASE StepStays(r, q) \/ StepMoves(r, q)
  <2>1. ln' = l.ln /\ head' = l.head /\ Walk(cur = l.head.last, l.fwd, q, 0)
    BY <1>7 DEF StepStays, StepMoves, l
  <2>2. CASE cur = l.head.last
    BY <2>1, <2>2, <1>6 DEF Walk
  <2>3. CASE cur # l.head.last
    <3>1. /\ mode' = "round" /\ cur' = l.fwd /\ polled' = n /\ drops' = drops
      BY <2>1, <2>3, <1>1, <1>4 DEF Walk, Count, n
    <3>2. OnList' = M
      BY <2>1, <3>1 DEF OnList
    <3>3. l.ln.last[l.fwd] = cur
      BY <1>2, <1>5
    <3>4. l.fwd \in Proc /\ n[l.fwd] \in Nat /\ polled[cur] \in Nat
      BY <1>2, <1>3, <1>4, <1>5
    <3>5. n[l.fwd] <= drops /\ n[l.fwd] < n[cur]
      BY <2>3, <3>4, <1>3, <1>4
    <3>6. WalkOrder'
      BY <2>1, <3>1, <3>2, <3>3, <3>5, <1>3 DEF WalkOrder
    <3>. QED  BY <3>1, <3>6, <1>3 DEF WalkInv, RepeatsOnlyAfterTailDrop
  <2>. QED  BY <2>2, <2>3
<1>8. CASE StepEnds(r, q)
  <2> DEFINE d == ListDragOneOut(l.ln, l.head, cur)
             P == l.ln.last[cur]
             F == l.ln.next[cur]
             k == IF cur = l.head.last THEN 1 ELSE 0
  <2>1. ln' = d.ln /\ head' = d.head /\ Walk(d.ret, l.fwd, q, k)
    BY <1>8 DEF StepEnds, l
  <2>2. /\ Members(d.ln, d.head) = M \ {cur}
        /\ d.ret = (d.head = NoIter) /\ d.ret = (F = cur)
        /\ d.head # NoIter =>
             /\ d.head.now = IF cur = l.head.now THEN F ELSE l.head.now
             /\ d.head.last = IF cur = l.head.last THEN P ELSE l.head.last
        /\ \A p \in Proc :
             /\ d.ln.next[p] = IF p = cur THEN cur ELSE IF p = P THEN F ELSE l.ln.next[p]
             /\ d.ln.last[p] = IF p = cur THEN cur ELSE IF p = F THEN P ELSE l.ln.last[p]
    BY <1>2, DragSound DEF Proc
  <2> HIDE DEF d
  <2>3. CASE d.ret
    BY <2>1, <2>3, <1>6 DEF Walk
  <2>4. CASE ~d.ret
    <3>1. /\ mode' = "round" /\ cur' = F /\ polled' = n /\ drops' = drops + k
      BY <2>1, <2>4, <1>1, <1>2 DEF Walk, Count, n
    <3>2. OnList' = M \ {cur}
      BY <2>1, <2>2, <3>1 DEF OnList
    <3>3. /\ F # cur /\ P # cur /\ F \in Proc /\ P \in Proc
          /\ l.ln.next[P] = cur /\ d.head # NoIter
          /\ n[F] \in Nat /\ n[P] \in Nat /\ polled[cur] \in Nat
      BY <2>2, <2>4, <1>2, <1>3, <1>4, <1>5
    <3>4. n[F] <= drops + k
      <4>1. CASE cur = l.head.last
        BY <4>1, <3>3, <1>3, <1>4
      <4>2. CASE cur # l.head.last
        BY <4>2, <3>3, <1>2, <1>3, <1>4
      <4>. QED  BY <4>1, <4>2
    <3>5. ASSUME cur # l.head.last, cur # l.head.now
          PROVE  n[F] < n[P]
      BY <3>3, <3>5, <1>2, <1>3
    <3>6. F # d.head.now => n[F] < n[P] /\ d.ln.last[F] = P
      <4>1. F # d.head.now => cur # l.head.last /\ cur # l.head.now
        BY <3>3, <2>2, <1>5
      <4>. QED  BY <4>1, <3>3, <3>5, <2>2
    <3>7. ASSUME NEW p \in M \ {cur}, p # d.head.last
          PROVE  n[d.ln.next[p]] <= n[p]
      <4>1. p \in Proc /\ p # l.head.last
        BY <3>3, <3>7, <2>2, <1>5
      <4>2. CASE p = P
        <5>1. cur # l.head.last /\ cur # l.head.now
          BY <4>1, <4>2, <3>3, <3>7, <2>2, <1>5
        <5>2. d.ln.next[p] = F
          BY <4>1, <4>2, <3>3, <2>2
        <5>. QED  BY <4>2, <5>1, <5>2, <3>3, <3>5
      <4>3. CASE p # P
        BY <4>1, <4>3, <3>7, <2>2, <1>3
      <4>. QED  BY <4>2, <4>3
    <3>8. WalkOrder'
      BY <3>1, <3>2, <3>4, <3>6, <3>7, <2>1 DEF WalkOrder
    <3>9. RepeatsOnlyAfterTailDrop'
      <4>1. \A p \in Proc : n[p] <= 1 + (drops + k)
        BY <1>3, <1>4
      <4>. QED  BY <3>1, <4>1 DEF RepeatsOnlyAfterTailDrop
    <3>. QED  BY <3>8, <3>9 DEF WalkInv
  <2>. QED  BY <2>3, <2>4
<1>. QED  BY <1>1, <1>7, <1>8

LEMMA InitWalk == Init => WalkInv
BY DEF Init, WalkInv, WalkOrder, RepeatsOnlyAfterTailDrop, NoPolls

LEMMA NextWalk ==
  TypeOK /\ ListSound /\ WalkInv /\ [Next]_vars => WalkInv'
<1> SUFFICES ASSUME TypeOK, ListSound, WalkInv, [Next]_vars
             PROVE  WalkInv'
  OBVIOUS
<1>1. ASSUME UNCHANGED <<ln, head, mode, cur, polled, drops>>
      PROVE  WalkInv'
  <2>1. OnList' = OnList
    BY <1>1 DEF OnList, Members
  <2>. QED  BY <2>1, <1>1 DEF WalkInv, WalkOrder, RepeatsOnlyAfterTailDrop
<1>2. ASSUME mode # "round", mode' # "round", UNCHANGED <<polled, drops>>
      PROVE  WalkInv'
  BY <1>2 DEF WalkInv, WalkOrder, RepeatsOnlyAfterTailDrop
<1>3. CASE \E p \in Proc : Start(p) \/ Detach(p)
  BY <1>2, <1>3 DEF Start, Detach
<1>4. CASE \E p \in Proc : Elapse(p) \/ SetBack(p)
  BY <1>1, <1>4 DEF Elapse, SetBack, list, hist
<1>5. CASE \E c \in Conds : SetCondition(c)
  BY <1>1, <1>5 DEF SetCondition, list, hist
<1>6. CASE BeginRound
  <2>1. /\ polled = NoPolls /\ drops = 0 /\ polled' = polled /\ drops' = drops
        /\ mode' = "round" /\ cur' = head.now /\ head' = head /\ ln' = ln
    BY <1>6 DEF BeginRound, WalkInv, WalkOrder, list, hist
  <2>2. cur' \in Proc /\ ListSound' /\ OnList' = OnList
    BY <1>6, BeginRoundList
  <2>3. \A p \in OnList : ln.next[p] \in Proc /\ p \in Proc
    <3>1. \A p \in Proc : ln.next[p] \in Proc
      BY DEF TypeOK, Links, Proc
    <3>2. OnList \subseteq Proc
      BY <1>6 DEF BeginRound, OnList, Members, Proc
    <3>. QED  BY <3>1, <3>2
  <2>. QED  BY <2>1, <2>2, <2>3 DEF WalkInv, WalkOrder, RepeatsOnlyAfterTailDrop, NoPolls
<1>7. CASE Poll
  BY <1>7, PollWalk
<1>8. CASE StopLoop \/ BeginFree \/ FreeOne
  BY <1>2, <1>8 DEF StopLoop, BeginFree, FreeOne, list, hist
<1>9. CASE UNCHANGED vars
  BY <1>1, <1>9 DEF vars, hist
<1>. QED  BY <1>3, <1>4, <1>5, <1>6, <1>7, <1>8, <1>9 DEF Next, Stopped

\* A process is called a second time in one round only after the tail was
\* detached in that round, whatever the callbacks start and end.
THEOREM RepeatsBounded == Spec => []RepeatsOnlyAfterTailDrop
<1>1. WalkInv => RepeatsOnlyAfterTailDrop
  BY DEF WalkInv
<1>. QED  BY <1>1, InitListInv, NextListInv, InitWalk, NextWalk, PTL DEF Spec

\* The step of RoundReachesAll, from the order of the counts.
LEMMA RoundEnd ==
  ASSUME TypeOK, ListSound, WalkInv, Poll, mode' = "idle",
         NEW p \in Proc, Attached(p)'
  PROVE  p = cur \/ polled[p] > 0
<1>1. PICK r \in Returns(cur), q \in Proc \cup {NoNode} :
        /\ mode = "round"
        /\ q \in Proc => MayStart(q)
        /\ StepStays(r, q) \/ StepMoves(r, q) \/ StepEnds(r, q)
  BY DEF Poll
<1> DEFINE l == SafeStarted(q)
           d == ListDragOneOut(l.ln, l.head, cur)
<1>2. /\ Sound(l.ln, l.head) /\ cur \in Members(l.ln, l.head)
      /\ cur \in OnList /\ cur \in Proc /\ q # cur
      /\ IF q \in Proc THEN l.head.last = q ELSE l.ln = ln /\ l.head = head
  BY <1>1, SafeStartedFacts DEF MayStart
<1>3. p \in OnList'
  BY DEF Attached, OnList, Members, Proc
<1>4. CASE StepEnds(r, q)
  <2>1. d.ret
    <3>1. \E k : Walk(d.ret, l.fwd, q, k)
      BY <1>4 DEF StepEnds
    <3>. QED  BY <3>1, <1>1 DEF Walk
  <2>2. d.ret = (d.head = NoIter) /\ Sound(d.ln, d.head)
    BY <1>2, DragSound
  <2>3. ln' = d.ln /\ head' = d.head
    BY <1>4 DEF StepEnds
  <2> HIDE DEF d, l
  <2>4. head' = NoIter /\ ln'.next[p] = p
    BY <2>1, <2>2, <2>3 DEF Sound, Proc
  <2>. QED  BY <2>4, NodeAssumption DEF Attached, InList, NoIter, Proc
<1>5. CASE StepStays(r, q) \/ StepMoves(r, q)
  <2>1. cur = l.head.last
    <3>1. Walk(cur = l.head.last, l.fwd, q, 0)
      BY <1>5 DEF StepStays, StepMoves
    <3>. QED  BY <3>1, <1>1 DEF Walk
  <2> HIDE DEF l, d
  <2>2. q = NoNode /\ cur = head.last
    BY <2>1, <1>2
  <2>3. OnList' = OnList
    BY <2>2, <1>1, <1>5, PollMembers, NodeAssumption DEF Proc
  <2> DEFINE W == {x \in OnList : polled[x] = 0 /\ x # cur}
  <2>4. /\ OneCircle(ln, OnList) /\ head.last = ln.last[head.now]
        /\ OnList \subseteq Proc
        /\ \A x \in OnList : ln.next[x] \in OnList /\ ln.last[ln.next[x]] = x
    <3>1. Sound(ln, head) /\ OnList = Members(ln, head)
      BY <1>1, SoundFromInv
    <3>2. head # NoIter
      BY <3>1, <1>2, NodeAssumption DEF Sound, Members, InList, NoIter, Proc
    <3>3. \A x \in OnList : ln.next[x] \in OnList
      BY <3>1, <3>2, MembersClosed
    <3>4. OnList \subseteq Proc
      BY <3>1 DEF Members, Proc
    <3>. QED  BY <3>1, <3>2, <3>3, <3>4 DEF Sound, BothWays, Proc
  <2>5. /\ cur # head.now => polled[cur] < polled[ln.last[cur]]
        /\ \A x \in OnList : x # head.last => polled[ln.next[x]] <= polled[x]
        /\ polled \in [Proc -> Nat]
    BY <1>1 DEF WalkInv, WalkOrder, TypeOK
  <2>6. \A x \in W : ln.next[x] \in W
    <3> SUFFICES ASSUME NEW x \in W PROVE ln.next[x] \in W
      OBVIOUS
    <3>1. /\ x \in OnList /\ polled[x] = 0 /\ x # head.last
          /\ ln.next[x] \in OnList /\ ln.next[x] \in Proc
      BY <2>2, <2>4
    <3>2. polled[ln.next[x]] = 0
      BY <3>1, <2>5
    <3>3. ln.next[x] # cur
      BY <3>1, <3>2, <2>4, <2>5, <1>2
    <3>. QED  BY <3>1, <3>2, <3>3
  <2>7. W = {}
    <3>1. cur \notin W /\ W \in SUBSET OnList
      OBVIOUS
    <3>. QED  BY <3>1, <2>4, <2>6, <1>2 DEF OneCircle
  <2>. QED  BY <2>3, <2>4, <2>5, <2>7, <1>3
<1>. QED  BY <1>1, <1>4, <1>5

\* When ForEach leaves the list, every process in it has been called in the
\* round, the ones started and the neighbours of those ended in it included.
THEOREM RoundsReachAll == Spec => RoundReachesAll
<1> DEFINE A == mode = "round" /\ mode' = "idle" =>
                  \A p \in Proc : Attached(p)' => p = cur \/ polled[p] > 0
<1>1. TypeOK /\ ListSound /\ WalkInv /\ [Next]_vars => [A]_vars
  <2> SUFFICES ASSUME TypeOK, ListSound, WalkInv, Next, mode = "round", mode' = "idle"
               PROVE  \A p \in Proc : Attached(p)' => p = cur \/ polled[p] > 0
    OBVIOUS
  <2>1. Poll
    BY DEF Next, Start, Elapse, SetBack, Detach, SetCondition, BeginRound,
           StopLoop, BeginFree, FreeOne, Stopped, vars
  <2>. QED  BY <2>1, RoundEnd
<1>2. RoundReachesAll <=> [][A]_vars
  BY DEF RoundReachesAll
<1>. QED  BY <1>1, <1>2, InitListInv, NextListInv, InitWalk, NextWalk, PTL DEF Spec

------------------------------------------------------------------------------
(* The circle read from its head is the queue of RoundRobin.               *)

\* The walk along next is the line itself.
LEMMA RingIsLine ==
  ASSUME NEW next, NEW M, NEW first, NEW q, Lined(q, M, next, first)
  PROVE  RingFrom(next, M, first) = q
<1> DEFINE n == Cardinality(M)
           IsWalk(w) == w = [i \in 1..n |-> IF i > 1 THEN next[w[i - 1]] ELSE first]
           walk == CHOOSE w : IsWalk(w)
<1>1. /\ Len(q) \in Nat /\ q \in [1..Len(q) -> M]
      /\ \A i, j \in 1..Len(q) : q[i] = q[j] => i = j
      /\ \A m \in M : \E i \in 1..Len(q) : q[i] = m
  BY LinedIn DEF Lined
<1>2. n = Len(q)
  <2>1. q \in Bijection(1..Len(q), M)
    BY <1>1 DEF Bijection, Injection, Surjection, IsInjective
  <2>2. ExistsBijection(1..Len(q), M)
    BY <2>1 DEF ExistsBijection
  <2>3. IsFiniteSet(1..Len(q)) /\ Cardinality(1..Len(q)) = Len(q)
    <3>1. 1 \in Int /\ Len(q) \in Int
      BY <1>1
    <3>2. /\ IsFiniteSet(1..Len(q))
          /\ Cardinality(1..Len(q)) = IF 1 > Len(q) THEN 0 ELSE Len(q) - 1 + 1
      BY <3>1, FS_Interval
    <3> QED BY <1>1, <3>2
  <2> QED BY <2>2, <2>3, FS_Bijection
<1> HIDE DEF n
<1>3. IsWalk(q)
  <2>1. q = [i \in 1..n |-> q[i]]
    BY <1>1, <1>2
  <2>2. ASSUME NEW i \in 1..n
        PROVE  q[i] = IF i > 1 THEN next[q[i - 1]] ELSE first
    <3>1. CASE i > 1
      <4>1. i - 1 \in 1..Len(q) - 1 /\ (i - 1) + 1 = i
        BY <1>1, <1>2, <3>1
      <4>2. next[q[i - 1]] = q[(i - 1) + 1]
        BY <4>1 DEF Lined
      <4> QED BY <3>1, <4>1, <4>2
    <3>2. CASE ~(i > 1)
      <4>1. i = 1 /\ Len(q) # 0
        BY <1>1, <1>2, <3>2
      <4> QED BY <3>2, <4>1 DEF Lined
    <3> QED BY <3>1, <3>2
  <2> QED BY <2>1, <2>2
<1>4. IsWalk(walk)
  <2>1. \E w : IsWalk(w)
    BY <1>3
  <2> HIDE DEF IsWalk
  <2> QED BY <2>1
<1>5. RingFrom(next, M, first) = [i \in 1..n |-> walk[i]]
  BY DEF RingFrom, n
<1> HIDE DEF walk
<1>6. \A i \in 1..n : walk[i] = IF i > 1 THEN next[walk[i - 1]] ELSE first
  BY <1>4
<1>7. \A i \in 1..n : q[i] = IF i > 1 THEN next[q[i - 1]] ELSE first
  BY <1>3
<1> DEFINE T == {k \in 0..n : k # 0 => walk[k] = q[k]}
<1>8. 0 \in T
  BY <1>1, <1>2
<1>9. ASSUME NEW k \in 1..n, k - 1 \in T
      PROVE  k \in T
  <2>1. n \in Nat /\ k \in 0..n
    BY <1>1, <1>2
  <2>2. CASE k > 1
    <3>1. k - 1 # 0 /\ walk[k - 1] = q[k - 1]
      BY <1>9, <2>1, <2>2
    <3> QED BY <1>6, <1>7, <2>1, <2>2, <3>1
  <2>3. CASE ~(k > 1)
    BY <1>6, <1>7, <2>1, <2>3
  <2> QED BY <2>2, <2>3
<1>10. \A i \in 1..n : walk[i] = q[i]
  <2>1. 0..n \subseteq T
    <3> HIDE DEF T
    <3> QED BY <1>1, <1>2, <1>8, <1>9, InductionUpTo
  <2> QED BY <1>1, <1>2, <2>1
<1>11. q = [i \in 1..n |-> q[i]]
  BY <1>1, <1>2
<1> QED BY <1>5, <1>10, <1>11

\* The processes in the list are lined up from the first one on.
InLine == Lined(Ring, OnList, ln.next, First)

LEMMA NowInLine ==
  ASSUME NEW q, Lined(q, OnList', ln'.next, First')
  PROVE  Ring' = q /\ InLine'
BY RingIsLine DEF Ring, InLine

LEMMA QueuedAre ==
  ASSUME InLine
  PROVE  RR!Queued = OnList /\ Len(Ring) \in Nat /\ (Ring = <<>> <=> Len(Ring) = 0)
<1>1. \A i \in 1..Len(Ring) : Ring[i] \in OnList
  BY LinedIn DEF InLine
<1>2. \A m \in OnList : \E i \in 1..Len(Ring) : Ring[i] = m
  BY DEF InLine, Lined
<1>3. Len(Ring) \in Nat /\ Ring \in Seq(OnList)
  BY LinedIn DEF InLine, Lined
<1>4. RR!Queued = OnList
  BY <1>1, <1>2 DEF RR!Queued
<1>5. Ring = <<>> <=> Len(Ring) = 0
  BY <1>3, EmptySeq
<1> QED BY <1>3, <1>4, <1>5

LEMMA PlaceOf ==
  ASSUME NEW q, \A i, j \in 1..Len(q) : q[i] = q[j] => i = j, NEW i \in 1..Len(q), NEW c, q[i] = c
  PROVE  (CHOOSE k \in 1..Len(q) : q[k] = c) = i
<1>1. \A k \in 1..Len(q) : q[k] = c <=> k = i
  OBVIOUS
<1> QED BY <1>1

\* A call is a visit: the process called is the one in place, whoever it
\* starts joins behind the last one, and if it ends it leaves the line.
LEMMA VisitedLine ==
  ASSUME TypeOK, ListSound, InLine, mode = "round",
         NEW j \in Proc \cup {NoNode}, j \in Proc => MayStart(j)
  PROVE  /\ j \in (Proc \ RR!Queued) \cup {NoNode}
         /\ LET l == SafeStarted(j)
                q == RR!Joined(j)
            IN  /\ Lined(q, Members(l.ln, l.head), l.ln.next, l.head.now)
                /\ Place \in 1..Len(q) /\ q[Place] = cur
<1> DEFINE l == SafeStarted(j)
           q == RR!Joined(j)
<1>1. Sound(ln, head) /\ OnList = Members(ln, head) /\ First = head.now
  BY SoundFromInv DEF First
<1>2. cur \in OnList
  BY DEF ListSound
<1>3. Lined(Ring, Members(ln, head), ln.next, head.now)
  BY <1>1 DEF InLine
<1>4. PICK i \in 1..Len(Ring) : Ring[i] = cur
  BY <1>2 DEF InLine, Lined
<1>5. Place = i
  <2>1. \A h, k \in 1..Len(Ring) : Ring[h] = Ring[k] => h = k
    BY DEF InLine, Lined
  <2>2. (CHOOSE k \in 1..Len(Ring) : Ring[k] = cur) = i
    BY <1>4, <2>1, PlaceOf
  <2> QED BY <2>2 DEF Place
<1>6. CASE j = NoNode
  <2>1. l.ln = ln /\ l.head = head
    BY <1>6 DEF SafeStarted
  <2>2. q = Ring
    BY <1>6 DEF RR!Joined
  <2> HIDE DEF l, q
  <2> QED BY <1>3, <1>4, <1>5, <1>6, <2>1, <2>2 DEF l, q
<1>7. CASE j # NoNode
  <2> DEFINE add == AddOneToListTail(ln, head, j)
  <2>1. j \in Node /\ ~InList(ln, head, j) /\ j \in Proc
    BY <1>7 DEF MayStart, Attached, Proc
  <2>2. l.ln = add.ln /\ l.head = add.head
    BY <1>7 DEF SafeStarted, AddOneToListTailSafe
  <2>3. q = Append(Ring, j)
    BY <1>7 DEF RR!Joined
  <2>4. Lined(Append(Ring, j), Members(add.ln, add.head), add.ln.next, add.head.now)
    BY <1>1, <1>3, <2>1, LineAdded
  <2>5. /\ Len(Append(Ring, j)) = Len(Ring) + 1 /\ Len(Ring) \in Nat
        /\ \A k \in 1..Len(Ring) : Append(Ring, j)[k] = Ring[k]
    <3>1. Ring \in Seq(Proc)
      <4>1. Ring \in Seq(OnList) /\ OnList \subseteq Proc
        BY <1>1 DEF InLine, Lined, Members, Proc
      <4> QED BY <4>1, SeqMonotonic
    <3> QED BY <2>1, <3>1, AppendProperties, LenProperties
  <2>6. j \notin OnList
    BY <1>1, <2>1 DEF Members
  <2> HIDE DEF l, q, add
  <2>7. j \in Proc \ RR!Queued
    BY <2>1, <2>6, QueuedAre
  <2> QED BY <1>4, <1>5, <2>2, <2>3, <2>4, <2>5, <2>7 DEF l, q
<1> QED BY <1>6, <1>7

\* After the call ForEach stands on the next process in line; behind the last
\* one the round is over, unless the last one left: then it is back at the first.
LEMMA PollLine ==
  ASSUME TypeOK, ListSound, InLine, Poll
  PROVE  InLine' /\ RR!RRNext
<1>1. PICK r \in Returns(cur), j \in Proc \cup {NoNode} :
        /\ mode = "round"
        /\ j \in Proc => MayStart(j)
        /\ StepStays(r, j) \/ StepMoves(r, j) \/ StepEnds(r, j)
  BY DEF Poll
<1> DEFINE l == SafeStarted(j)
           q == RR!Joined(j)
           M == Members(l.ln, l.head)
           i == Place
<1>2. /\ Sound(l.ln, l.head) /\ l.head # NoIter /\ l.fwd = l.ln.next[cur]
      /\ cur \in M
  BY <1>1, SafeStartedFacts DEF MayStart
<1>3. /\ Lined(q, M, l.ln.next, l.head.now) /\ i \in 1..Len(q) /\ q[i] = cur
      /\ j \in (Proc \ RR!Queued) \cup {NoNode}
  BY <1>1, VisitedLine
<1> HIDE DEF l, q, i
<1>4. /\ Len(q) \in 1..Len(q) /\ q[Len(q)] = l.head.last /\ q[1] = l.head.now
      /\ Len(q) \in Nat /\ \A h, k \in 1..Len(q) : q[h] = q[k] => h = k
      /\ \A k \in 1..Len(q) - 1 : l.ln.next[q[k]] = q[k + 1]
  <2>1. Len(q) \in 1..Len(q) /\ q[Len(q)] = l.head.last /\ q[1] = l.head.now
    BY <1>2, <1>3, LineEnds
  <2>2. Len(q) \in Nat
    BY <1>3, LinedIn
  <2>3. \A h, k \in 1..Len(q) : q[h] = q[k] => h = k
    BY <1>3 DEF Lined
  <2>4. \A k \in 1..Len(q) - 1 : l.ln.next[q[k]] = q[k + 1]
    BY <1>3 DEF Lined
  <2> QED BY <2>1, <2>2, <2>3, <2>4
<1>5. cur = l.head.last <=> i = Len(q)
  BY <1>3, <1>4
<1>6. l.ln.next[q[Len(q)]] = q[1]
  BY <1>2, <1>4, MembersClosed
<1>7. ASSUME ln' = l.ln, head' = l.head, Walk(cur = l.head.last, l.fwd, j, 0)
      PROVE  InLine' /\ RR!RRNext
  <2>1. /\ mode' = (IF i = Len(q) THEN "idle" ELSE "round")
        /\ i # Len(q) => cur' = l.ln.next[cur]
    BY <1>1, <1>2, <1>5, <1>7 DEF Walk
  <2>2. OnList' = M /\ First' = l.head.now
    BY <1>7, <2>1 DEF OnList, First
  <2>3. Ring' = q /\ InLine'
    BY <1>3, <1>7, <2>2, NowInLine
  <2>4. Place' = IF i = Len(q) THEN 0 ELSE i + 1
    <3>1. CASE i = Len(q)
      BY <2>1, <3>1 DEF Place
    <3>2. CASE i # Len(q)
      <4>1. i + 1 \in 1..Len(q) /\ cur' = q[i + 1]
        BY <1>3, <1>4, <2>1, <3>2
      <4>2. (CHOOSE k \in 1..Len(q) : q[k] = cur') = i + 1
        BY <1>4, <4>1, PlaceOf
      <4>3. Place' = CHOOSE k \in 1..Len(q) : q[k] = cur'
        BY <2>1, <2>3, <3>2 DEF Place
      <4> QED BY <3>2, <4>2, <4>3
    <3> QED BY <3>1, <3>2
  <2>5. Place > 0
    BY <1>3, <1>4 DEF i
  <2>6. RR!VisitStays(j)
    BY <2>3, <2>4, <2>5 DEF RR!VisitStays, q, i
  <2> QED BY <1>3, <2>3, <2>6 DEF RR!RRNext
<1>8. CASE StepStays(r, j)
  BY <1>7, <1>8 DEF StepStays, l
<1>9. CASE StepMoves(r, j)
  BY <1>7, <1>9 DEF StepMoves, l
<1>10. CASE StepEnds(r, j)
  <2> DEFINE d == ListDragOneOut(l.ln, l.head, cur)
             rest == RemoveAt(q, i)
  <2>1. /\ ln' = d.ln /\ head' = d.head
        /\ \E k : Walk(d.ret, l.fwd, j, k)
    BY <1>10 DEF StepEnds, l
  <2>2. /\ Lined(rest, Members(d.ln, d.head), d.ln.next, d.head.now)
        /\ d.ret = (Len(q) = 1)
    <3>1. /\ Lined(RemoveAt(q, i), Members(ListDragOneOut(l.ln, l.head, q[i]).ln, ListDragOneOut(l.ln, l.head, q[i]).head),
                   ListDragOneOut(l.ln, l.head, q[i]).ln.next, ListDragOneOut(l.ln, l.head, q[i]).head.now)
          /\ ListDragOneOut(l.ln, l.head, q[i]).ret = (Len(q) = 1)
      BY <1>2, <1>3, LineDragged
    <3> QED BY <1>3, <3>1
  <2>3. /\ Len(rest) = Len(q) - 1
        /\ \A k \in 1..Len(q) - 1 : rest[k] = IF k < i THEN q[k] ELSE q[k + 1]
    <3>1. q \in Seq(M)
      BY <1>3 DEF Lined
    <3> QED BY <1>3, <3>1, RemoveAtPlaces
  <2>4. \A h, k \in 1..Len(rest) : rest[h] = rest[k] => h = k
    BY <2>2 DEF Lined
  <2>5. rest = <<>> <=> Len(q) = 1
    <3>1. rest = <<>> <=> Len(rest) = 0
      BY <2>2, EmptySeq, LinedIn DEF Lined
    <3> QED BY <1>4, <2>3, <3>1
  <2> HIDE DEF d, rest
  <2>6. /\ mode' = (IF Len(q) = 1 THEN "idle" ELSE "round")
        /\ Len(q) # 1 => cur' = l.ln.next[cur]
    BY <1>1, <1>2, <2>1, <2>2 DEF Walk
  <2>7. OnList' = Members(d.ln, d.head) /\ First' = d.head.now
    BY <2>1, <2>6 DEF OnList, First
  <2>8. Ring' = rest /\ InLine'
    BY <2>1, <2>2, <2>7, NowInLine
  <2>9. Place' = CASE rest = <<>> -> 0
                   [] i = Len(rest) + 1 /\ rest # <<>> -> 1
                   [] OTHER -> i
    <3>1. CASE Len(q) = 1
      BY <2>5, <2>6, <3>1 DEF Place
    <3>2. CASE Len(q) # 1
      <4>1. Place' = CHOOSE k \in 1..Len(rest) : rest[k] = cur'
        BY <2>6, <2>8, <3>2 DEF Place
      <4>2. CASE i = Len(q)
        <5>1. 1 \in 1..Len(rest) /\ rest[1] = q[1] /\ cur' = q[1] /\ i = Len(rest) + 1
          BY <1>3, <1>4, <1>6, <2>3, <2>6, <3>2, <4>2
        <5>2. Place' = 1
          BY <2>4, <4>1, <5>1, PlaceOf
        <5> QED BY <2>5, <3>2, <5>1, <5>2
      <4>3. CASE i # Len(q)
        <5>1. i \in 1..Len(rest) /\ rest[i] = q[i + 1] /\ cur' = q[i + 1] /\ i # Len(rest) + 1
          BY <1>3, <1>4, <2>3, <2>6, <3>2, <4>3
        <5>2. Place' = i
          BY <2>4, <4>1, <5>1, PlaceOf
        <5> QED BY <2>5, <3>2, <5>1, <5>2
      <4> QED BY <4>2, <4>3
    <3> QED BY <3>1, <3>2
  <2>10. Place > 0
    BY <1>3, <1>4 DEF i
  <2>11. RR!VisitLeaves(j)
    <3>1. Ring' = RemoveAt(RR!Joined(j), Place)
      BY <2>8 DEF q, i, rest
    <3>2. Place' = CASE Ring' = <<>> -> 0
                     [] Place = Len(Ring') + 1 /\ Ring' # <<>> -> 1
                     [] OTHER -> Place
      BY <2>8, <2>9 DEF i
    <3> QED BY <2>10, <3>1, <3>2 DEF RR!VisitLeaves, RR!RemoveAt, RemoveAt
  <2> QED BY <1>3, <2>8, <2>11 DEF RR!RRNext
<1> QED BY <1>1, <1>8, <1>9, <1>10

\* Between two rounds a process joins behind the last one.
LEMMA StartLine ==
  ASSUME TypeOK, ListSound, InLine, NEW p \in Proc, Start(p)
  PROVE  InLine' /\ RR!RRNext
<1> DEFINE add == AddOneToListTail(ln, head, p)
<1>1. /\ Sound(ln, head) /\ OnList = Members(ln, head) /\ First = head.now
      /\ p \in Node /\ ~InList(ln, head, p)
      /\ mode = "idle" /\ mode' = "idle" /\ ln' = add.ln /\ head' = add.head
  BY SoundFromInv DEF Start, MayStart, Attached, Proc, First
<1>2. Lined(Append(Ring, p), Members(add.ln, add.head), add.ln.next, add.head.now)
  BY <1>1, LineAdded DEF InLine
<1>3. p \notin OnList /\ p # NoNode
  BY <1>1, NodeAssumption DEF Members
<1> HIDE DEF add
<1>4. OnList' = Members(add.ln, add.head) /\ First' = add.head.now
  BY <1>1 DEF OnList, First
<1>5. Ring' = Append(Ring, p) /\ InLine'
  BY <1>1, <1>2, <1>4, NowInLine
<1>6. Place = 0 /\ Place' = 0
  BY <1>1 DEF Place
<1>7. RR!Join(p)
  BY <1>3, <1>5, <1>6, QueuedAre DEF RR!Join, RR!Joined
<1> QED BY <1>5, <1>7 DEF RR!RRNext

\* A step that leaves list and walk alone.
LEMMA SameLine ==
  ASSUME InLine, OnList' = OnList, ln' = ln, Ring # <<>> => First' = First
  PROVE  InLine' /\ Ring' = Ring
<1>1. Lined(Ring, OnList', ln'.next, First')
  <2>1. Len(Ring) # 0 => First' = First
    BY QueuedAre
  <2> QED BY <2>1 DEF InLine, Lined
<1> QED BY <1>1, NowInLine

LEMMA IdleLine ==
  ASSUME InLine, UNCHANGED <<ln, head, mode, cur>>
  PROVE  InLine' /\ UNCHANGED <<Ring, Place>>
<1>1. OnList' = OnList /\ First' = First
  BY DEF OnList, Members, First
<1>2. InLine' /\ Ring' = Ring
  BY <1>1, SameLine
<1> QED BY <1>2 DEF Place

LEMMA DetachLine ==
  ASSUME TypeOK, ListSound, InLine, NEW p \in Proc, Detach(p)
  PROVE  InLine' /\ RR!RRNext
<1> DEFINE d == ListDragOneOut(ln, head, p)
<1>1. /\ Sound(ln, head) /\ OnList = Members(ln, head) /\ First = head.now
      /\ p \in OnList
      /\ mode = "teardown" /\ mode' = "teardown" /\ ln' = d.ln /\ head' = d.head
  BY SoundFromInv DEF Detach, Attached, Members, Proc, First
<1>2. PICK i \in 1..Len(Ring) : Ring[i] = p
  BY <1>1 DEF InLine, Lined
<1>3. Lined(RemoveAt(Ring, i), Members(d.ln, d.head), d.ln.next, d.head.now)
  <2>1. Lined(Ring, Members(ln, head), ln.next, head.now)
    BY <1>1 DEF InLine
  <2>2. Lined(RemoveAt(Ring, i), Members(ListDragOneOut(ln, head, Ring[i]).ln, ListDragOneOut(ln, head, Ring[i]).head),
              ListDragOneOut(ln, head, Ring[i]).ln.next, ListDragOneOut(ln, head, Ring[i]).head.now)
    BY <1>1, <2>1, LineDragged
  <2> QED BY <1>2, <2>2
<1> HIDE DEF d
<1>4. OnList' = Members(d.ln, d.head) /\ First' = d.head.now
  BY <1>1 DEF OnList, First
<1>5. Ring' = RemoveAt(Ring, i) /\ InLine'
  BY <1>1, <1>3, <1>4, NowInLine
<1>6. Place = 0 /\ Place' = 0
  BY <1>1 DEF Place
<1>7. RR!Leave(i)
  BY <1>5, <1>6 DEF RR!Leave, RR!RemoveAt, RemoveAt
<1> QED BY <1>5, <1>7 DEF RR!RRNext

LEMMA BeginRoundLine ==
  ASSUME TypeOK, ListSound, InLine, BeginRound
  PROVE  InLine' /\ RR!RRNext
<1>1. /\ Sound(ln, head) /\ OnList = Members(ln, head) /\ head # NoIter
      /\ mode = "idle" /\ mode' = "round" /\ cur' = head.now /\ UNCHANGED <<ln, head>>
  BY SoundFromInv DEF BeginRound, list
<1>2. OnList' = OnList /\ First' = First /\ First = head.now
  BY <1>1 DEF OnList, Members, First
<1>3. InLine' /\ Ring' = Ring
  BY <1>1, <1>2, SameLine
<1>4. 1 \in 1..Len(Ring) /\ Ring[1] = head.now
  <2>1. Len(Ring) \in 1..Len(Ring) /\ Ring[1] = head.now
    BY <1>1, <1>2, LineEnds DEF InLine
  <2> QED BY <2>1, QueuedAre
<1>5. Place' = 1
  <2>1. \A i, j \in 1..Len(Ring) : Ring[i] = Ring[j] => i = j
    BY DEF InLine, Lined
  <2>2. (CHOOSE k \in 1..Len(Ring) : Ring[k] = cur') = 1
    BY <1>1, <1>4, <2>1, PlaceOf
  <2> QED BY <1>1, <1>3, <2>2 DEF Place
<1>6. Place = 0 /\ Ring # <<>>
  BY <1>1, <1>4, QueuedAre DEF Place
<1>7. RR!Begin
  BY <1>3, <1>5, <1>6 DEF RR!Begin
<1> QED BY <1>3, <1>7 DEF RR!RRNext

LEMMA BeginFreeLine ==
  ASSUME TypeOK, ListSound, InLine, BeginFree
  PROVE  InLine' /\ UNCHANGED <<Ring, Place>>
<1>1. OnList' = OnList
  BY BeginFreeList
<1>2. ln' = ln /\ head' = head /\ mode = "teardown" /\ cur' = head.now /\ mode' \in {"freed", "free"}
  BY DEF BeginFree, list
<1>3. First' = First
  BY <1>2 DEF First
<1> QED BY <1>1, <1>2, <1>3, SameLine DEF Place

\* ProcessListFree takes the first one out of the line.
LEMMA FreeOneLine ==
  ASSUME TypeOK, ListSound, InLine, FreeOne
  PROVE  InLine' /\ RR!RRNext
<1>1. /\ mode = "free" /\ cur \in Node /\ ln \in Links /\ BothWays(ln) /\ OnList \subseteq Node
      /\ cur \in OnList /\ First = cur /\ head.last = ln.last[cur]
      /\ ln' = Tk(ln, GetIterator(ln, cur), GetIterator(ln, ln.next[cur]))
      /\ mode' = IF cur = head.last THEN "freed" ELSE "free"
      /\ cur' = IF cur = head.last THEN NoNode ELSE ln.next[cur]
      /\ head' = IF cur = head.last THEN NoIter ELSE head
  BY DEF FreeOne, TypeOK, ListSound, OnList, BothWays, Proc, First
<1>2. OnList' = OnList \ {cur}
  BY FreeOneList
<1>3. /\ \A i, j \in 1..Len(Ring) : Ring[i] = Ring[j] => i = j
      /\ Len(Ring) \in Nat /\ \A i \in 1..Len(Ring) : Ring[i] \in Node
  BY <1>1, LinedIn DEF InLine, Lined
<1>4. 1 \in 1..Len(Ring) /\ Ring[1] = cur
  <2>1. PICK i \in 1..Len(Ring) : Ring[i] = cur
    BY <1>1 DEF InLine, Lined
  <2>2. Len(Ring) # 0 /\ 1 \in 1..Len(Ring)
    BY <1>3
  <2> QED BY <1>1, <2>2 DEF InLine, Lined
<1>5. \A p \in Node : ln'.next[p] = IF p = cur THEN cur
                                    ELSE IF p = ln.last[cur] THEN ln.next[cur]
                                    ELSE ln.next[p]
  BY <1>1, CutSound
<1>6. \A p \in Node : p = ln.last[cur] <=> ln.next[p] = cur
  BY <1>1 DEF BothWays
<1>7. \A j \in 1..Len(Ring) : j # 1 =>
        ln'.next[Ring[j]] = IF ln.next[Ring[j]] = Ring[1] THEN ln.next[Ring[1]] ELSE ln.next[Ring[j]]
  <2> SUFFICES ASSUME NEW j \in 1..Len(Ring), j # 1
               PROVE  ln'.next[Ring[j]] = IF ln.next[Ring[j]] = cur THEN ln.next[cur] ELSE ln.next[Ring[j]]
    BY <1>4
  <2>1. Ring[j] \in Node /\ Ring[j] # cur
    BY <1>3, <1>4
  <2> QED BY <1>5, <1>6, <2>1
<1>8. Len(Ring) # 1 => First' = ln.next[Ring[1]]
  <2> SUFFICES ASSUME Len(Ring) # 1
               PROVE  First' = ln.next[cur]
    BY <1>4
  <2>1. cur # head.last
    <3>1. Ring[2] \in Node /\ Ring[2] # Ring[1] /\ ln.next[Ring[1]] = Ring[2]
      <4>1. 2 \in 1..Len(Ring) /\ 1 \in 1..Len(Ring) - 1
        BY <1>3, <1>4
      <4> QED BY <1>3, <1>4, <4>1 DEF InLine, Lined
    <3> QED BY <1>1, <1>4, <1>6, <3>1
  <2> QED BY <1>1, <2>1 DEF First
<1>9. Lined(RemoveAt(Ring, 1), OnList \ {Ring[1]}, ln'.next, First')
  BY <1>4, <1>7, <1>8, LineLeft DEF InLine
<1>10. Ring' = RemoveAt(Ring, 1) /\ InLine'
  BY <1>2, <1>4, <1>9, NowInLine
<1>11. Place = 0 /\ Place' = 0
  BY <1>1 DEF Place
<1>12. RR!Leave(1)
  BY <1>10, <1>11 DEF RR!Leave, RR!RemoveAt, RemoveAt
<1> QED BY <1>4, <1>10, <1>12 DEF RR!RRNext

LEMMA InitLine == Init => InLine /\ RR!RRInit
<1> SUFFICES ASSUME Init PROVE InLine /\ RR!RRInit
  OBVIOUS
<1>1. ListSound /\ TypeOK /\ mode = "idle" /\ head = NoIter
  BY InitListInv DEF Init
<1>2. OnList = {}
  BY <1>1, SoundFromInv, NoneListed
<1>3. Lined(<<>>, OnList, ln.next, First)
  BY <1>2, EmptySeq DEF Lined
<1>4. Ring = <<>>
  BY <1>3, RingIsLine DEF Ring
<1>5. Place = 0
  BY <1>1 DEF Place
<1> QED BY <1>3, <1>4, <1>5 DEF InLine, RR!RRInit

LEMMA NextLine ==
  TypeOK /\ ListSound /\ InLine /\ [Next]_vars => InLine' /\ [RR!RRNext]_RR!rrvars
<1> SUFFICES ASSUME TypeOK, ListSound, InLine, [Next]_vars
             PROVE  InLine' /\ (RR!RRNext \/ UNCHANGED <<Ring, Place>>)
  BY DEF RR!rrvars
<1>1. CASE \E p \in Proc : Start(p)
  BY <1>1, StartLine
<1>2. CASE \E p \in Proc : Elapse(p) \/ SetBack(p)
  BY <1>2, IdleLine DEF Elapse, SetBack, list
<1>3. CASE \E p \in Proc : Detach(p)
  BY <1>3, DetachLine
<1>4. CASE \E c \in Conds : SetCondition(c)
  BY <1>4, IdleLine DEF SetCondition, list
<1>5. CASE BeginRound
  BY <1>5, BeginRoundLine
<1>6. CASE Poll
  BY <1>6, PollLine
<1>7. CASE StopLoop
  <2>1. /\ ln' = ln /\ head' = head /\ mode = "idle" /\ mode' = "teardown" /\ cur' = cur
    BY <1>7 DEF StopLoop, list
  <2>2. OnList' = OnList /\ First' = First
    BY <2>1 DEF OnList, Members, First
  <2> QED BY <2>1, <2>2, SameLine DEF Place
<1>8. CASE BeginFree
  BY <1>8, BeginFreeLine
<1>9. CASE FreeOne
  BY <1>9, FreeOneLine
<1>10. CASE UNCHANGED vars
  BY <1>10, IdleLine DEF vars
<1> QED BY <1>1, <1>2, <1>3, <1>4, <1>5, <1>6, <1>7, <1>8, <1>9, <1>10 DEF Next, Stopped

\* The circular list under ForEach, tk and the three iterators is the plain
\* queue of RoundRobin, in every state and at every step: processes are called
\* in the order they were started in, and the walk starts over only where
\* RoundRobin says so.
THEOREM QueueRefined == Spec => ImplementsRoundRobin
BY InitListInv, NextListInv, InitLine, NextLine, PTL DEF Spec, ImplementsRoundRobin, RR!RRSpec
=============================================================================
