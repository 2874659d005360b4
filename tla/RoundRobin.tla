----------------------------- MODULE RoundRobin -----------------------------
(***************************************************************************)
(* What the processing list promises, without a pointer in sight: a queue  *)
(* of processes, walked from its front to its back.  A process joins at    *)
(* the back, also while the queue is being walked, and is then walked over *)
(* too.  The walk ends at the back, unless the process at the back leaves  *)
(* during its visit: then the walk starts over, which is the behaviour of  *)
(* ListDragOneOut under ForEach (list.c) and not what a reader of          *)
(* DoProcessing would guess.                                               *)
(***************************************************************************)
EXTENDS Naturals, Sequences, SequencesExt

CONSTANTS Member,   \* what may be queued
          Nobody    \* no member

VARIABLES queue,    \* the members in line, each once
          pos       \* the one being visited, 0 when no walk is going on

rrvars == <<queue, pos>>

Queued == {queue[i] : i \in 1..Len(queue)}

Joined(m) == IF m = Nobody THEN queue ELSE Append(queue, m)

RRInit == queue = <<>> /\ pos = 0

Join(m) ==
  /\ pos = 0 /\ m \in Member \ Queued
  /\ queue' = Joined(m)
  /\ UNCHANGED pos

Leave(i) ==
  /\ pos = 0
  /\ queue' = RemoveAt(queue, i)
  /\ UNCHANGED pos

Begin ==
  /\ pos = 0 /\ queue # <<>>
  /\ pos' = 1
  /\ UNCHANGED queue

\* The visited member stays in line; m joins (Nobody: no one does).
VisitStays(m) ==
  /\ pos > 0
  /\ queue' = Joined(m)
  /\ pos' = IF pos = Len(queue') THEN 0 ELSE pos + 1

VisitLeaves(m) ==
  /\ pos > 0
  /\ queue' = RemoveAt(Joined(m), pos)
  /\ pos' = CASE queue' = <<>>          -> 0
              [] pos = Len(queue') + 1
                 /\ queue' # <<>>       -> 1
              [] OTHER                  -> pos

RRNext ==
  \/ \E m \in Member : Join(m)
  \/ \E i \in 1..Len(queue) : Leave(i)
  \/ Begin
  \/ \E m \in (Member \ Queued) \cup {Nobody} : VisitStays(m) \/ VisitLeaves(m)

RRSpec == RRInit /\ [][RRNext]_rrvars
=============================================================================
