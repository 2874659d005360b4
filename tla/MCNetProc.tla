------------------------------ MODULE MCNetProc ------------------------------
(* Small instances of NetProc. *)
EXTENDS NetProcRing

CONSTANTS p1, p2, p3

\* Rows of sta_RetryValue for the conditions 0 and 1, wait levels 0, 1 and 3
\* (the levels differ in nothing else that matters here).
MCRetrys == [c \in 0..1 |-> [l \in {0, 1, 3} |->
               IF l = 0 THEN 2 ELSE IF c = 0 THEN 1 ELSE 2]]

\* One condition, no retries left to count: the shapes of the list alone.
NoRetrys == [c \in {0} |-> [l \in {0} |-> 0]]

TwoProcSteps == [p \in {p1, p2} |-> IF p = p1 THEN <<1, 3>> ELSE <<0>>]
OneStepEach  == [p \in {p1, p2, p3} |-> <<0>>]
=============================================================================
