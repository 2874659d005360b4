---------------------------- MODULE NetProcRing -----------------------------
(***************************************************************************)
(* NetProc implements RoundRobin: the circle of pointers, read from the    *)
(* head (from the process ProcessListFree stands on, once it runs), is the *)
(* queue.                                                                  *)
(***************************************************************************)
EXTENDS NetProc, FiniteSets

RingFrom(next, M, first) ==
  LET walk[i \in 1..Cardinality(M)] == IF i > 1 THEN next[walk[i - 1]] ELSE first
  IN  [i \in 1..Cardinality(M) |-> walk[i]]

First == IF mode = "free" THEN cur ELSE head.now
Ring  == RingFrom(ln.next, OnList, First)

Place == IF mode # "round" THEN 0
         ELSE CHOOSE i \in 1..Len(Ring) : Ring[i] = cur

RR == INSTANCE RoundRobin
        WITH Member <- Proc, Nobody <- NoNode, queue <- Ring, pos <- Place

\* The pointer list behaves as the plain queue of RoundRobin: same order, new
\* processes at the back, nobody skipped or repeated except by the restart
\* RoundRobin shows.
ImplementsRoundRobin == RR!RRSpec
=============================================================================
