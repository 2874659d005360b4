------------------------------- MODULE NetProc -------------------------------
(***************************************************************************)
(* The cooperative scheduler of tknet: netproc.c on the lists of list.c.   *)
(*                                                                         *)
(* A Process is a sequence of steps.  DoProcessing walks the processing    *)
(* list with ForEach and calls, for every process, the callback of its     *)
(* current step with the state FIRST_TIME, NORMAL, OVERTIME or LAST_TIME;  *)
(* the value the callback returns decides where the process goes.  The     *)
(* callback may start another process (ProcessSafeStart), which changes    *)
(* the list ForEach is walking.  Between two rounds the main thread and    *)
(* the background thread start processes under the mutex.                  *)
(*                                                                         *)
(* What a step callback does besides that is its own affair: every value   *)
(* some callback returns is allowed here at every call.                    *)
(***************************************************************************)
EXTENDS Integers, Sequences, TkList

CONSTANTS Steps,       \* Steps[p][s]: the wait level of step s of process p
          Retrys,      \* Retrys[c][l]: sta_RetryValue, by condition and level
          GoOnOnly,    \* processes whose callbacks only ever return GO_ON
          MaxStarts,   \* bound: how often one process is started
          MaxSets,     \* bound: how often the net condition is set
          MaxBacks     \* bound: how often the clock is set back

Proc  == Node
Conds == DOMAIN Retrys

NumSteps(p) == Len(Steps[p])

ASSUME StepsAssumption ==
  /\ \A p \in Proc : Len(Steps[p]) \in Nat \ {0}
  /\ \A p \in Proc, c \in Conds : \A s \in 1..Len(Steps[p]) :
       Retrys[c][Steps[p][s]] \in Nat

ASSUME GoOnOnlyAssumption == GoOnOnly \subseteq Proc

VARIABLES
  ln, head,   \* the processing list: pointers of the UndergoLN nodes, IUndergoProcess
  mode,       \* where the main thread is: between rounds, in DoProcessing, ...
  cur,        \* the INow of the running ForEach, or NoNode
  ctl,        \* per process: IProcessNow, CurrentStepRetrys, isCurrentStepFirstTime
  timer,      \* per process: now against CurrentStepStartTime and the interval
  cond,       \* the condition g_WaitLevel points into
  sets, backs, starts,   \* how much of the bounds is used
  seen,       \* history: what the current step was called with since it started
  polled,     \* history: calls in the current round
  drops,      \* history: tail processes detached in the current round
  unnotified  \* history: starts without a NotifyCallbk or a detach by the owner

list == <<ln, head>>
hist == <<seen, polled, drops, unnotified>>
vars == <<ln, head, mode, cur, ctl, timer, cond, sets, backs, starts, hist>>

Attached(p) == InList(ln, head, p)

------------------------------------------------------------------------------
(* Steps of one process. *)

\* ProcessUpdateCurrentStep at step s.
Fresh(p, s) == [step |-> s, retrys |-> Retrys[cond][Steps[p][s]], first |-> TRUE]

\* Mutant of PollState: no LAST_TIME when the retries are used up.
PollStateUnlimited(p) ==
  IF ctl[p].first THEN "FIRST"
  ELSE IF timer[p] = "expired" THEN "OVERTIME" ELSE "NORMAL"

\* DoProcess up to the callback: the state the step is called with, and the
\* charge made for it.
PollState(p) ==
  CASE ctl[p].first                                  -> "FIRST"
    [] ~ctl[p].first /\ timer[p] # "expired"         -> "NORMAL"
    [] ~ctl[p].first /\ timer[p] = "expired"
         /\ ctl[p].retrys > 0                        -> "OVERTIME"
    [] OTHER                                         -> "LAST"

Charged(p) ==
  CASE PollState(p) = "FIRST"    -> [ctl[p] EXCEPT !.first = FALSE]
    [] PollState(p) = "OVERTIME" -> [ctl[p] EXCEPT !.retrys = @ - 1]
    [] OTHER                     -> ctl[p]

ChargedTimer(p) ==
  IF \/ PollState(p) = "OVERTIME"
     \/ PollState(p) = "NORMAL" /\ timer[p] = "future"
  THEN "running"
  ELSE timer[p]

\* The return values of step callbacks.  A value without the high bit is a
\* step's FlagNum, its position from 0; NumSteps(p) stands for the unknown ones.
Returns(p) ==
  IF p \in GoOnOnly THEN {[op |-> "GO_ON"]}
  ELSE [op : {"ABORT", "GO_ON", "DONE", "REDO"}]
         \cup [op : {"FLAG"}, num : 0..NumSteps(p)]

IsJump(p, r) == r.op = "FLAG" /\ r.num < NumSteps(p)

\* DONE, an unknown flag, and GO_ON at LAST_TIME (the case falls through).
IsDone(p, r) ==
  \/ r.op = "DONE"
  \/ r.op = "FLAG" /\ ~IsJump(p, r)
  \/ r.op = "GO_ON" /\ PollState(p) = "LAST"

\* Mutant of Stays: GO_ON does not fall through at LAST_TIME.
StaysAtLast(p, r) == r.op = "GO_ON"

Stays(p, r) == r.op = "GO_ON" /\ PollState(p) # "LAST"

Ends(p, r) ==
  \/ r.op = "ABORT"
  \/ IsDone(p, r) /\ ctl[p].step = NumSteps(p)

\* The step a process that neither stays nor ends is restarted at.
GoesTo(p, r) ==
  IF IsJump(p, r) THEN r.num + 1
  ELSE IF IsDone(p, r) THEN ctl[p].step + 1
  ELSE ctl[p].step

Unseen(c) == [budget |-> c.retrys, over |-> 0, last |-> FALSE]

Saw(p) ==
  CASE PollState(p) = "OVERTIME" -> [seen[p] EXCEPT !.over = @ + 1]
    [] PollState(p) = "LAST"     -> [seen[p] EXCEPT !.last = TRUE]
    [] OTHER                     -> seen[p]

------------------------------------------------------------------------------
Update(f, p, v) == [x \in Proc |-> IF x = p THEN v ELSE f[x]]

Init ==
  /\ ln = Alone /\ head = NoIter
  /\ mode = "idle" /\ cur = NoNode
  /\ cond \in Conds
  /\ ctl = [p \in Proc |-> Fresh(p, 1)]
  /\ timer = [p \in Proc |-> "running"]
  /\ sets = 0 /\ backs = 0 /\ starts = [p \in Proc |-> 0]
  /\ seen = [p \in Proc |-> Unseen(ctl[p])]
  /\ polled = [p \in Proc |-> 0] /\ drops = 0
  /\ unnotified = [p \in Proc |-> 0]

MayStart(q) == ~Attached(q) /\ starts[q] < MaxStarts

\* ProcessStart from the main or the background thread, between two rounds.
Start(q) ==
  LET add == AddOneToListTail(ln, head, q)
  IN  /\ mode = "idle"
      /\ MayStart(q)
      /\ ln' = add.ln /\ head' = add.head
      /\ ctl' = Update(ctl, q, Fresh(q, 1))
      /\ timer' = Update(timer, q, "running")
      /\ seen' = Update(seen, q, Unseen(Fresh(q, 1)))
      /\ starts' = Update(starts, q, starts[q] + 1)
      /\ unnotified' = Update(unnotified, q, unnotified[q] + 1)
      /\ UNCHANGED <<mode, cur, cond, sets, backs, polled, drops>>

\* ProcessSetCondition (the command setc): every later restart of a step
\* takes its retries from the new condition, running steps keep theirs.
SetCondition(c) ==
  /\ mode = "idle" /\ sets < MaxSets
  /\ c # cond
  /\ cond' = c /\ sets' = sets + 1
  /\ UNCHANGED <<list, mode, cur, ctl, timer, backs, starts, hist>>

\* The clock passes the interval of p's step, or is set back behind its start.
Elapse(p) ==
  /\ Attached(p) /\ timer[p] = "running"
  /\ timer' = [timer EXCEPT ![p] = "expired"]
  /\ UNCHANGED <<list, mode, cur, ctl, cond, sets, backs, starts, hist>>

SetBack(p) ==
  /\ Attached(p) /\ timer[p] # "future" /\ backs < MaxBacks
  /\ timer' = [timer EXCEPT ![p] = "future"]
  /\ backs' = backs + 1
  /\ UNCHANGED <<list, mode, cur, ctl, cond, sets, starts, hist>>

------------------------------------------------------------------------------
(* DoProcessing: ForEach over the list, DoProcess as its callback. *)

NoPolls == [p \in Proc |-> 0]

BeginRound ==
  /\ mode = "idle" /\ head # NoIter
  /\ mode' = "round" /\ cur' = head.now
  /\ UNCHANGED <<list, ctl, timer, cond, sets, backs, starts, hist>>

\* The callback of cur starts q (ProcessSafeStart), or nobody when q = NoNode.
SafeStarted(q) ==
  IF q = NoNode
  THEN [ln |-> ln, head |-> head, fwd |-> ln.next[cur]]
  ELSE AddOneToListTailSafe(ln, head, cur, q)

\* What the call leaves behind for cur (its ctl, timer and seen) and for q.
Called(q, c, t, s) ==
  /\ ctl' = Update(Update(ctl, cur, c), q, Fresh(q, 1))
  /\ timer' = Update(Update(timer, cur, t), q, "running")
  /\ seen' = Update(Update(seen, cur, s), q, Unseen(Fresh(q, 1)))
  /\ starts' = Update(starts, q, starts[q] + 1)
  /\ UNCHANGED <<cond, sets, backs>>

\* ForEach after the callback: it leaves on TRUE and goes to fwd otherwise.
Walk(ret, fwd, q, dropped) ==
  IF ret
  THEN /\ mode' = "idle" /\ cur' = NoNode
       /\ polled' = NoPolls /\ drops' = 0
  ELSE /\ mode' = mode /\ cur' = fwd
       /\ polled' = Update(Update(polled, cur, polled[cur] + 1), q, 0)
       /\ drops' = drops + dropped

\* Mutant of StepStays: ForEach compares with the tail from before the call.
StepStaysOldTail(r, q) ==
  LET l == SafeStarted(q)
  IN  /\ Stays(cur, r)
      /\ Called(q, Charged(cur), ChargedTimer(cur), Saw(cur))
      /\ ln' = l.ln /\ head' = l.head
      /\ unnotified' = Update(unnotified, q, unnotified[q] + 1)
      /\ Walk(cur = head.last, l.fwd, q, 0)

\* The process keeps its step (GO_ON), or a step is started (its own or another).
StepStays(r, q) ==
  LET l == SafeStarted(q)
  IN  /\ Stays(cur, r)
      /\ Called(q, Charged(cur), ChargedTimer(cur), Saw(cur))
      /\ ln' = l.ln /\ head' = l.head
      /\ unnotified' = Update(unnotified, q, unnotified[q] + 1)
      /\ Walk(cur = l.head.last, l.fwd, q, 0)

StepMoves(r, q) ==
  LET l == SafeStarted(q)
      c == Fresh(cur, GoesTo(cur, r))
  IN  /\ ~Stays(cur, r) /\ ~Ends(cur, r)
      /\ Called(q, c, "running", Unseen(c))
      /\ ln' = l.ln /\ head' = l.head
      /\ unnotified' = Update(unnotified, q, unnotified[q] + 1)
      /\ Walk(cur = l.head.last, l.fwd, q, 0)

\* NotifyCallbk, then ProcessDisattach, whose result ForEach gets.
StepEnds(r, q) ==
  LET l == SafeStarted(q)
      d == ListDragOneOut(l.ln, l.head, cur)
  IN  /\ Ends(cur, r)
      /\ Called(q, Charged(cur), ChargedTimer(cur), Saw(cur))
      /\ ln' = d.ln /\ head' = d.head
      /\ unnotified' = Update(Update(unnotified, cur, unnotified[cur] - 1),
                              q, unnotified[q] + 1)
      /\ Walk(d.ret, l.fwd, q, IF cur = l.head.last THEN 1 ELSE 0)

Poll ==
  /\ mode = "round"
  /\ \E r \in Returns(cur), q \in Proc \cup {NoNode} :
       /\ q \in Proc => MayStart(q)
       /\ StepStays(r, q) \/ StepMoves(r, q) \/ StepEnds(r, q)

------------------------------------------------------------------------------
(* The end of tkNetMain: owners detach, ProcessListFree notifies the rest. *)

StopLoop ==
  /\ mode = "idle"
  /\ mode' = "teardown"
  /\ UNCHANGED <<list, cur, ctl, timer, cond, sets, backs, starts, hist>>

\* Mutant of Detach: ProcessDisattach without its test.
DetachUntested(p) ==
  LET d == ListDragOneOut(ln, head, p)
  IN  /\ mode = "teardown"
      /\ ln' = d.ln /\ head' = d.head
      /\ unnotified' = [unnotified EXCEPT ![p] = @ - 1]
      /\ UNCHANGED <<mode, cur, ctl, timer, cond, sets, backs, starts,
                     seen, polled, drops>>

\* ProcessDisattach of the main thread's own process; nothing when detached.
Detach(p) ==
  LET d == ListDragOneOut(ln, head, p)
  IN  /\ mode = "teardown" /\ Attached(p)
      /\ ln' = d.ln /\ head' = d.head
      /\ unnotified' = [unnotified EXCEPT ![p] = @ - 1]
      /\ UNCHANGED <<mode, cur, ctl, timer, cond, sets, backs, starts,
                     seen, polled, drops>>

BeginFree ==
  /\ mode = "teardown"
  /\ mode' = IF head = NoIter THEN "freed" ELSE "free"
  /\ cur' = head.now
  /\ UNCHANGED <<list, ctl, timer, cond, sets, backs, starts, hist>>

\* FreeProcess: the head stays where it was until the tail has been freed.
FreeOne ==
  LET fwd  == ln.next[cur]
      done == cur = head.last
  IN  /\ mode = "free"
      /\ ln' = Tk(ln, GetIterator(ln, cur), GetIterator(ln, fwd))
      /\ head' = IF done THEN NoIter ELSE head
      /\ mode' = IF done THEN "freed" ELSE "free"
      /\ cur' = IF done THEN NoNode ELSE fwd
      /\ unnotified' = [unnotified EXCEPT ![cur] = @ - 1]
      /\ UNCHANGED <<ctl, timer, cond, sets, backs, starts, seen, polled, drops>>

Stopped == mode = "freed" /\ UNCHANGED vars

Next ==
  \/ \E p \in Proc : Start(p) \/ Elapse(p) \/ SetBack(p) \/ Detach(p)
  \/ \E c \in Conds : SetCondition(c)
  \/ BeginRound \/ Poll
  \/ StopLoop \/ BeginFree \/ FreeOne \/ Stopped

\* The main thread keeps going round, the clock keeps going.
Fairness ==
  /\ WF_vars(BeginRound) /\ WF_vars(Poll)
  /\ WF_vars(BeginFree) /\ WF_vars(FreeOne)
  /\ \A p \in Proc : WF_vars(Elapse(p))

Spec == Init /\ [][Next]_vars
FairSpec == Spec /\ Fairness

------------------------------------------------------------------------------
(* Properties. *)

Ctl  == [step : Nat \ {0}, retrys : Nat, first : BOOLEAN]
Seen == [budget : Nat, over : Nat, last : BOOLEAN]

\* The variables keep their types, and every process stands at one of its steps.
TypeOK ==
  /\ ln \in Links /\ head \in Iterator
  /\ mode \in {"idle", "round", "teardown", "free", "freed"}
  /\ cur \in Proc \cup {NoNode}
  /\ ctl \in [Proc -> Ctl] /\ \A p \in Proc : ctl[p].step <= NumSteps(p)
  /\ timer \in [Proc -> {"running", "expired", "future"}]
  /\ cond \in Conds
  /\ sets \in Nat /\ backs \in Nat /\ starts \in [Proc -> Nat]
  /\ seen \in [Proc -> Seen]
  /\ polled \in [Proc -> Nat] /\ drops \in Nat
  /\ unnotified \in [Proc -> Int]

\* The processes in the list; ProcessListFree does not move the head along.
OnList == IF mode = "free"
          THEN {p \in Proc : ln.next[p] # p} \cup {cur}
          ELSE Members(ln, head)

\* The processing list stays one sound circle through every splice of tk,
\* whoever joins or leaves in the middle of an iteration: next and last are
\* inverse to each other, whoever follows next from one process in the list
\* comes past all of them, the head iterator's last is the tail, and ForEach
\* stands on a process in the list.
ListSound ==
  /\ \A p \in Proc : ln.last[ln.next[p]] = p /\ ln.next[ln.last[p]] = p
  /\ \A S \in SUBSET OnList :
       S # {} /\ (\A p \in S : ln.next[p] \in S) => S = OnList
  /\ IF head = NoIter THEN \A p \in Proc : ln.next[p] = p
     ELSE mode # "free" => head.last = ln.last[head.now]
  /\ mode = "round" => cur \in OnList
  /\ mode = "free"  => cur \in Proc /\ head # NoIter /\ head.last = ln.last[cur]

\* The contract of the retry tables: since a step was started, the overtime
\* calls it got and the retries it has left add up to the retries it was
\* started with, LAST_TIME comes only when all of them are used, and a step
\* that was called with LAST_TIME is not the current step any more.
RetryBudget ==
  \A p \in Proc :
    /\ seen[p].over + ctl[p].retrys = seen[p].budget
    /\ seen[p].last => ctl[p].retrys = 0 /\ p \notin OnList

\* Every start of a process is followed by exactly one notification, or by
\* its owner detaching it: a process in the list is owed one, others none.
NotifiedOnce == \A p \in Proc : unnotified[p] = IF p \in OnList THEN 1 ELSE 0

\* A round leaves nobody out: when ForEach leaves the list, every process in
\* it has been called in this round, those started and those whose
\* neighbours ended in the middle of the round included.
RoundReachesAll ==
  [][mode = "round" /\ mode' = "idle" =>
       \A p \in Proc : Attached(p)' => p = cur \/ polled[p] > 0]_vars

\* A process is called once in a round, except that each detach of the tail
\* sends ForEach round the circle again.
RepeatsOnlyAfterTailDrop ==
  \A p \in Proc : polled[p] <= 1 + drops

\* Why the two hold: along the list the number of calls never grows, and it
\* drops where ForEach stands, to at most the passes completed.
WalkOrder ==
  IF mode # "round" THEN polled = NoPolls /\ drops = 0
  ELSE /\ polled[cur] <= drops
       /\ cur # head.now => polled[cur] < polled[ln.last[cur]]
       /\ \A p \in OnList : p # head.last => polled[ln.next[p]] <= polled[p]

\* Nobody has to answer: a process whose callbacks only return GO_ON leaves
\* the list in the end, its retries used up step by step (the fall through
\* of GO_ON at LAST_TIME).
GoOnEnds == \A p \in GoOnOnly : Attached(p) ~> ~Attached(p)
=============================================================================
