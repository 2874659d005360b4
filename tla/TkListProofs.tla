---------------------------- MODULE TkListProofs ----------------------------
(***************************************************************************)
(* What the list operations of list.c preserve, for every set of nodes:    *)
(* adding at the tail and dragging out keep one sound circle, and change   *)
(* its members by exactly the node they were given.  Read from the head,   *)
(* the circle is a line: one joins at its end, and one leaves it.          *)
(***************************************************************************)
EXTENDS TkList, Lemmas

BothWays(ln) == \A p \in Node : ln.last[ln.next[p]] = p /\ ln.next[ln.last[p]] = p

\* Following next from any member comes past all the members M.
OneCircle(ln, M) ==
  \A S \in SUBSET M : S # {} /\ (\A p \in S : ln.next[p] \in S) => S = M

Sound(ln, head) ==
  /\ ln \in Links /\ head \in Iterator
  /\ BothWays(ln)
  /\ OneCircle(ln, Members(ln, head))
  /\ IF head = NoIter THEN \A p \in Node : ln.next[p] = p
     ELSE head.last = ln.last[head.now]

LEMMA IteratorFacts ==
  ASSUME NEW head \in Iterator
  PROVE  /\ head = NoIter <=> head.now = NoNode
         /\ head # NoIter => head.now \in Node /\ head.last \in Node
BY NodeAssumption DEF Iterator, NoIter

\* A circle is closed under next and last, and its tail leads to its head.
LEMMA MembersClosed ==
  ASSUME NEW ln, NEW head, Sound(ln, head), head # NoIter
  PROVE  /\ head.now \in Members(ln, head) /\ head.last \in Members(ln, head)
         /\ ln.next[head.last] = head.now
         /\ \A p \in Members(ln, head) :
              /\ ln.next[p] \in Members(ln, head)
              /\ ln.last[p] \in Members(ln, head)
<1>1. ln \in Links /\ head.now \in Node /\ head.last \in Node /\ head.now # NoNode
  BY IteratorFacts, NodeAssumption DEF Sound
<1>2. ln.next[head.last] = head.now
  BY <1>1 DEF Sound, BothWays
<1>3. head.now \in Members(ln, head)
  BY <1>1 DEF Members, InList
<1>4. ASSUME NEW p \in Members(ln, head)
      PROVE  ln.next[p] \in Members(ln, head) /\ ln.last[p] \in Members(ln, head)
  <2>1. p \in Node /\ ln.next[p] \in Node /\ ln.last[p] \in Node
    BY <1>1 DEF Members, Links
  <2>2. /\ ln.last[ln.next[p]] = p /\ ln.next[ln.last[p]] = p
        /\ ln.last[ln.next[ln.next[p]]] = ln.next[p]
    BY <2>1 DEF Sound, BothWays
  <2>3. CASE ln.next[p] = p
    BY <2>1, <2>2, <2>3, <1>1 DEF Members, InList, Sound, BothWays
  <2>4. CASE ln.next[p] # p
    <3>1. ln.next[ln.next[p]] # ln.next[p]
      BY <2>2, <2>4
    <3>2. ln.next[ln.last[p]] # ln.last[p]
      BY <2>2, <2>4
    <3>. QED  BY <3>1, <3>2, <2>1 DEF Members, InList
  <2>. QED  BY <2>3, <2>4
<1>5. head.last \in Members(ln, head)
  BY <1>3, <1>4 DEF Sound
<1>. QED  BY <1>2, <1>3, <1>4, <1>5

\* AddOneToListTail: the node becomes the tail of the one circle.
LEMMA AddSound ==
  ASSUME NEW ln, NEW head, Sound(ln, head),
         NEW n \in Node, ~InList(ln, head, n)
  PROVE  LET add == AddOneToListTail(ln, head, n)
         IN  /\ Sound(add.ln, add.head)
             /\ Members(add.ln, add.head) = Members(ln, head) \cup {n}
             /\ add.head # NoIter /\ add.head.last = n
             /\ add.head.now = IF head = NoIter THEN n ELSE head.now
             /\ \A p \in Node : add.ln.next[p] =
                  IF p = n THEN add.head.now
                  ELSE IF head # NoIter /\ p = head.last THEN n
                  ELSE ln.next[p]
<1> DEFINE add == AddOneToListTail(ln, head, n)
           M   == Members(ln, head)
<1>1. /\ ln \in Links /\ head \in Iterator /\ n # NoNode
      /\ ln.next[n] = n /\ ln.last[n] = n /\ head.now # n
  BY NodeAssumption DEF Sound, InList, BothWays
<1>2. CASE head = NoIter
  <2>1. add.head = [now |-> n, last |-> n]
    BY <1>1, <1>2 DEF AddOneToListTail, GetIterator, NoIter
  <2>2. add.ln = ln
    BY <1>1, <1>2 DEF AddOneToListTail, GetIterator, NoIter, Tk, Links
  <2>3. Members(ln, add.head) = {n} /\ M = {}
    BY <1>1, <1>2, <2>1, NodeAssumption DEF Members, InList, Sound, NoIter
  <2>4. add.head \in Iterator /\ add.head # NoIter
    BY <1>1, <2>1 DEF Iterator, NoIter
  <2>5. OneCircle(ln, {n})
    BY DEF OneCircle
  <2>. QED  BY <1>1, <1>2, <2>1, <2>2, <2>3, <2>4, <2>5 DEF Sound
<1>3. CASE head # NoIter
  <2> DEFINE H == head.now
             T == head.last
  <2>1. /\ H \in M /\ T \in M /\ ln.next[T] = H /\ ln.last[H] = T
        /\ H \in Node /\ T \in Node /\ H # NoNode
        /\ \A p \in M : ln.next[p] \in M
    BY <1>1, <1>3, MembersClosed, IteratorFacts, NodeAssumption DEF Sound
  <2>2. T # n /\ H # n
    BY <1>1, <2>1
  <2>3. /\ add.head = [now |-> H, last |-> n]
        /\ add.ln = [next |-> [ln.next EXCEPT ![T] = n, ![n] = H],
                     last |-> [ln.last EXCEPT ![H] = n, ![n] = T]]
    BY <1>1, <2>1 DEF AddOneToListTail, GetIterator, Tk
  <2>4. add.ln \in Links /\ add.head \in Iterator /\ add.head # NoIter
    BY <1>1, <2>1, <2>3, NodeAssumption DEF Links, Iterator, NoIter
  <2>5. \A p \in Node :
          /\ add.ln.next[p] = IF p = n THEN H ELSE IF p = T THEN n ELSE ln.next[p]
          /\ add.ln.last[p] = IF p = n THEN T ELSE IF p = H THEN n ELSE ln.last[p]
    BY <1>1, <2>1, <2>2, <2>3 DEF Links
  <2>6. BothWays(add.ln)
    <3> SUFFICES ASSUME NEW p \in Node
                 PROVE  /\ add.ln.last[add.ln.next[p]] = p
                        /\ add.ln.next[add.ln.last[p]] = p
      BY DEF BothWays
    <3>1. /\ ln.next[p] \in Node /\ ln.last[p] \in Node
          /\ ln.last[ln.next[p]] = p /\ ln.next[ln.last[p]] = p
      BY <1>1 DEF Sound, BothWays, Links
    <3> HIDE DEF add
    <3>2. add.ln.last[add.ln.next[p]] = p
      BY <3>1, <1>1, <2>1, <2>2, <2>5
    <3>3. add.ln.next[add.ln.last[p]] = p
      BY <3>1, <1>1, <2>1, <2>2, <2>5
    <3>. QED  BY <3>2, <3>3
  <2>7. Members(add.ln, add.head) = M \cup {n}
    BY <1>1, <2>1, <2>2, <2>3, <2>5 DEF Members, InList
  <2>8. OneCircle(add.ln, M \cup {n})
    <3> SUFFICES ASSUME NEW S \in SUBSET (M \cup {n}), S # {},
                        \A p \in S : add.ln.next[p] \in S
                 PROVE  S = M \cup {n}
      BY DEF OneCircle
    <3> DEFINE R == S \ {n}
    <3>1. M \subseteq Node
      BY DEF Members
    <3>2. \A p \in R : ln.next[p] \in R
      <4> SUFFICES ASSUME NEW p \in R  PROVE ln.next[p] \in R
        OBVIOUS
      <4>1. p \in Node /\ p \in S /\ p # n /\ p \in M
        BY <3>1
      <4>2. ln.next[p] # n
        BY <1>1, <4>1 DEF Sound, BothWays
      <4>3. CASE p = T
        BY <4>1, <4>3, <2>1, <2>2, <2>5
      <4>4. CASE p # T
        BY <4>1, <4>2, <4>4, <2>5
      <4>. QED  BY <4>3, <4>4
    <3>3. R # {}
      BY <2>2, <2>5
    <3>4. R = M
      BY <3>2, <3>3 DEF Sound, OneCircle
    <3>5. n \in S
      BY <3>4, <2>1, <2>2, <2>5
    <3>. QED  BY <3>4, <3>5
  <2>9. add.head.last = add.ln.last[add.head.now]
    BY <2>1, <2>2, <2>3, <2>5
  <2>10. Sound(add.ln, add.head)
    BY <2>4, <2>6, <2>7, <2>8, <2>9 DEF Sound
  <2>11. add.head.now = H /\ add.head.last = n
    BY <2>3
  <2> HIDE DEF add
  <2>. QED  BY <1>3, <2>4, <2>5, <2>7, <2>10, <2>11 DEF add
<1>. QED  BY <1>2, <1>3

\* tk on a node and its successor cuts the node out of its circle.
LEMMA CutSound ==
  ASSUME NEW ln \in Links, BothWays(ln), NEW n \in Node
  PROVE  LET cut == Tk(ln, GetIterator(ln, n), GetIterator(ln, ln.next[n]))
         IN  /\ cut \in Links /\ BothWays(cut)
             /\ \A p \in Node :
                  /\ cut.next[p] = IF p = n THEN n
                                   ELSE IF p = ln.last[n] THEN ln.next[n]
                                   ELSE ln.next[p]
                  /\ cut.last[p] = IF p = n THEN n
                                   ELSE IF p = ln.next[n] THEN ln.last[n]
                                   ELSE ln.last[p]
             /\ \A M \in SUBSET Node :
                  n \in M /\ OneCircle(ln, M) => OneCircle(cut, M \ {n})
<1> DEFINE P   == ln.last[n]
           F   == ln.next[n]
           cut == Tk(ln, GetIterator(ln, n), GetIterator(ln, F))
<1>1. /\ P \in Node /\ F \in Node
      /\ ln.last[F] = n /\ ln.next[P] = n /\ (P = n <=> F = n)
  BY DEF Links, BothWays
<1>2. cut = [next |-> [ln.next EXCEPT ![P] = F, ![n] = n],
             last |-> [ln.last EXCEPT ![n] = n, ![F] = P]]
  BY <1>1 DEF Tk, GetIterator
<1>3. cut \in Links
  BY <1>1, <1>2 DEF Links
<1>4. \A p \in Node :
        /\ cut.next[p] = IF p = n THEN n ELSE IF p = P THEN F ELSE ln.next[p]
        /\ cut.last[p] = IF p = n THEN n ELSE IF p = F THEN P ELSE ln.last[p]
  BY <1>1, <1>2 DEF Links
<1> HIDE DEF cut
<1>5. BothWays(cut)
  <2> SUFFICES ASSUME NEW p \in Node
               PROVE  cut.last[cut.next[p]] = p /\ cut.next[cut.last[p]] = p
    BY DEF BothWays
  <2>1. /\ ln.next[p] \in Node /\ ln.last[p] \in Node
        /\ ln.last[ln.next[p]] = p /\ ln.next[ln.last[p]] = p
    BY DEF BothWays, Links
  <2>2. cut.last[cut.next[p]] = p
    BY <2>1, <1>1, <1>4
  <2>3. cut.next[cut.last[p]] = p
    BY <2>1, <1>1, <1>4
  <2>. QED  BY <2>2, <2>3
<1>6. ASSUME NEW M \in SUBSET Node, n \in M, OneCircle(ln, M)
      PROVE  OneCircle(cut, M \ {n})
  <2> SUFFICES ASSUME NEW S \in SUBSET (M \ {n}), S # {},
                      \A p \in S : cut.next[p] \in S
               PROVE  S = M \ {n}
    BY DEF OneCircle
  <2>1. n \notin S /\ S \subseteq Node
    OBVIOUS
  <2>2. CASE P \in S
    <3> DEFINE R == S \cup {n}
    <3>1. \A p \in R : ln.next[p] \in R
      <4> SUFFICES ASSUME NEW p \in R  PROVE ln.next[p] \in R
        OBVIOUS
      <4>1. F \in S
        BY <2>1, <2>2, <1>4
      <4>. QED  BY <4>1, <2>1, <1>1, <1>4
    <3>2. R \in SUBSET M /\ R # {}
      BY <1>6
    <3>3. R = M
      BY <3>1, <3>2, <1>6 DEF OneCircle
    <3>. QED  BY <3>3, <2>1
  <2>3. CASE P \notin S
    <3>1. \A p \in S : ln.next[p] \in S
      BY <2>1, <2>3, <1>4
    <3>2. S = M
      BY <3>1, <1>6 DEF OneCircle
    <3>. QED  BY <3>2, <1>6, <2>1
  <2>. QED  BY <2>2, <2>3
<1>. QED  BY <1>3, <1>4, <1>5, <1>6 DEF cut

\* ListDragOneOut: exactly the node leaves, and the head iterator moves to its
\* neighbours when it named the node.
LEMMA DragSound ==
  ASSUME NEW ln, NEW head, Sound(ln, head), NEW n \in Members(ln, head)
  PROVE  LET d == ListDragOneOut(ln, head, n)
         IN  /\ Sound(d.ln, d.head)
             /\ Members(d.ln, d.head) = Members(ln, head) \ {n}
             /\ d.ret = (d.head = NoIter) /\ d.ret = (ln.next[n] = n)
             /\ head # NoIter
             /\ d.head # NoIter =>
                  /\ d.head.now = IF n = head.now THEN ln.next[n] ELSE head.now
                  /\ d.head.last = IF n = head.last THEN ln.last[n] ELSE head.last
             /\ \A p \in Node :
                  /\ d.ln.next[p] = IF p = n THEN n
                                    ELSE IF p = ln.last[n] THEN ln.next[n]
                                    ELSE ln.next[p]
                  /\ d.ln.last[p] = IF p = n THEN n
                                    ELSE IF p = ln.next[n] THEN ln.last[n]
                                    ELSE ln.last[p]
<1> DEFINE P   == ln.last[n]
           F   == ln.next[n]
           cut == Tk(ln, GetIterator(ln, n), GetIterator(ln, F))
           d   == ListDragOneOut(ln, head, n)
           M   == Members(ln, head)
<1>1. /\ n \in Node /\ ln \in Links /\ BothWays(ln) /\ M \subseteq Node
      /\ head \in Iterator /\ OneCircle(ln, M)
  BY DEF Sound, Members
<1>2. head # NoIter
  BY <1>1, NodeAssumption DEF Members, InList, Sound, NoIter
<1>3. /\ head.now \in M /\ head.last \in M /\ ln.next[head.last] = head.now
      /\ ln.last[head.now] = head.last /\ F \in M /\ P \in M
  BY <1>2, MembersClosed DEF Sound
<1>4. /\ cut \in Links /\ BothWays(cut) /\ OneCircle(cut, M \ {n})
      /\ \A p \in Node :
           /\ cut.next[p] = IF p = n THEN n ELSE IF p = P THEN F ELSE ln.next[p]
           /\ cut.last[p] = IF p = n THEN n ELSE IF p = F THEN P ELSE ln.last[p]
  <2> HIDE DEF M
  <2>1. /\ cut \in Links /\ BothWays(cut)
        /\ \A p \in Node :
             /\ cut.next[p] = IF p = n THEN n ELSE IF p = P THEN F ELSE ln.next[p]
             /\ cut.last[p] = IF p = n THEN n ELSE IF p = F THEN P ELSE ln.last[p]
        /\ \A K \in SUBSET Node :
             n \in K /\ OneCircle(ln, K) => OneCircle(cut, K \ {n})
    BY <1>1, CutSound
  <2>2. n \in M
    BY DEF M
  <2>. QED  BY <1>1, <2>1, <2>2
<1>5. /\ ln.last[F] = n /\ ln.next[P] = n /\ (P = n <=> F = n)
  BY <1>1, <1>3 DEF BothWays
<1> HIDE DEF cut
<1>6. cut.last[F] = P
  BY <1>1, <1>3, <1>4, <1>5
<1>7. d = IF P = n
          THEN [ln |-> cut, head |-> NoIter, ret |-> TRUE]
          ELSE [ln   |-> cut,
                head |-> IF n \in {head.now, head.last}
                         THEN [now |-> F, last |-> P] ELSE head,
                ret  |-> FALSE]
  BY <1>6 DEF ListDragOneOut, GetIterator, cut
<1>8. d.ln = cut
  BY <1>7
<1>9. CASE P = n
  <2>1. M = {n}
    BY <1>1, <1>5, <1>9 DEF OneCircle
  <2>2. d.head = NoIter /\ d.ret = TRUE
    BY <1>7, <1>9
  <2>3. \A p \in Node : ln.next[p] = p
    BY <2>1, <1>1, <1>5, <1>9 DEF Members, InList
  <2>4. Members(cut, NoIter) = {} /\ \A p \in Node : cut.next[p] = p
    BY <2>3, <1>4, <1>5, <1>9, NodeAssumption DEF Members, InList, NoIter
  <2>5. Sound(d.ln, d.head)
    BY <2>2, <2>4, <1>4, <1>8, <2>1 DEF Sound, Iterator
  <2>. QED  BY <2>1, <2>2, <2>4, <2>5, <1>2, <1>4, <1>5, <1>8, <1>9
<1>10. CASE P # n
  <2>1. /\ d.ret = FALSE
        /\ d.head = IF n \in {head.now, head.last}
                    THEN [now |-> F, last |-> P] ELSE head
    BY <1>7, <1>10
  <2>2. d.head \in Iterator /\ d.head # NoIter
    BY <2>1, <1>1, <1>2, <1>3, NodeAssumption DEF Iterator, NoIter
  <2>3. d.head.now = IF n = head.now THEN F ELSE head.now
    BY <2>1, <1>3
  <2>4. d.head.last = IF n = head.last THEN P ELSE head.last
    BY <2>1, <1>3
  <2>5. Members(cut, d.head) = M \ {n}
    <3> SUFFICES ASSUME NEW p \in Node
                 PROVE  InList(cut, d.head, p) <=> p \in M /\ p # n
      BY <1>1 DEF Members
    <3>1. ln.next[p] # n \/ p = P
      BY <1>1 DEF BothWays
    <3>2. CASE p = n
      BY <3>2, <2>3, <1>4, <1>5, <1>10 DEF InList
    <3>3. CASE p # n /\ p # P
      <4>1. cut.next[p] = ln.next[p]
        BY <3>3, <1>4
      <4>2. head.now = p \/ d.head.now = p => p \in M
        BY <2>3, <1>3
      <4>3. p \in M <=> ln.next[p] # p \/ head.now = p
        BY DEF Members, InList
      <4>4. ASSUME ln.next[p] = p  PROVE p \notin M
        <5>1. p \in M => {p} = M
          BY <4>4, <1>1 DEF OneCircle
        <5>. QED  BY <5>1, <3>3
      <4>. QED  BY <4>1, <4>2, <4>3, <4>4, <3>3 DEF InList
    <3>4. CASE p # n /\ p = P
      <4>1. cut.next[p] = F
        BY <3>4, <1>4
      <4>2. CASE F # P
        BY <4>1, <4>2, <3>4, <1>3 DEF InList
      <4>3. CASE F = P
        <5>1. ln.next[P] = n /\ ln.next[n] = P
          BY <1>5, <4>3
        <5>2. M = {n, P}
          BY <5>1, <1>1, <1>3 DEF OneCircle
        <5>3. d.head.now = P
          BY <5>2, <2>3, <1>3, <4>3
        <5>. QED  BY <5>3, <3>4, <1>3 DEF InList
      <4>. QED  BY <4>2, <4>3
    <3>. QED  BY <3>2, <3>3, <3>4
  <2>6. d.head.last = cut.last[d.head.now]
    <3>1. CASE n = head.now
      BY <3>1, <2>3, <2>4, <1>3, <1>5, <1>6, <1>10
    <3>2. CASE n = head.last
      BY <3>2, <2>3, <2>4, <1>3, <1>5, <1>6, <1>10
    <3>3. CASE n # head.now /\ n # head.last
      <4>1. head.now # F
        BY <3>3, <1>3, <1>5
      <4>. QED  BY <3>3, <4>1, <2>3, <2>4, <1>1, <1>3, <1>4
    <3>. QED  BY <3>1, <3>2, <3>3
  <2>7. Sound(d.ln, d.head)
    BY <2>2, <2>5, <2>6, <1>4, <1>8 DEF Sound
  <2>. QED  BY <2>1, <2>2, <2>3, <2>4, <2>5, <2>7, <1>2, <1>4, <1>5, <1>8, <1>10
<1>. QED  BY <1>9, <1>10

------------------------------------------------------------------------------
(* A circle as a line: its members in the order of next.                   *)

\* q lists the members M from first on, each once, each followed by its next.
Lined(q, M, next, first) ==
  /\ q \in Seq(M)
  /\ \A m \in M : \E i \in 1..Len(q) : q[i] = m
  /\ \A i, j \in 1..Len(q) : q[i] = q[j] => i = j
  /\ Len(q) # 0 => q[1] = first
  /\ \A i \in 1..Len(q) - 1 : next[q[i]] = q[i + 1]

LEMMA LinedIn ==
  ASSUME NEW q, NEW M, NEW next, NEW first, Lined(q, M, next, first)
  PROVE  Len(q) \in Nat /\ q \in [1..Len(q) -> M] /\ \A i \in 1..Len(q) : q[i] \in M
<1>1. q \in Seq(M)
  BY DEF Lined
<1> QED BY <1>1, LenProperties

\* A line is empty when and only when there is nobody to line up.
LEMMA LinedNone ==
  ASSUME NEW q, NEW M, NEW next, NEW first, Lined(q, M, next, first)
  PROVE  q = <<>> <=> M = {}
<1>1. q = <<>> <=> Len(q) = 0
  BY EmptySeq DEF Lined
<1>2. Len(q) = 0 => M = {}
  BY DEF Lined
<1>3. ASSUME Len(q) # 0
      PROVE  M # {}
  <2>1. 1 \in 1..Len(q)
    BY <1>3, LinedIn
  <2> QED BY <2>1, LinedIn
<1> QED BY <1>1, <1>2, <1>3

\* Who is put behind the last one is the last one.
LEMMA LineJoined ==
  ASSUME NEW q, NEW M, NEW next, NEW first, Lined(q, M, next, first), NEW n, n \notin M,
         NEW next2, \A i \in 1..Len(q) : next2[q[i]] = IF i = Len(q) THEN n ELSE next[q[i]],
         NEW first2, q = <<>> => first2 = n, q # <<>> => first2 = first
  PROVE  Lined(Append(q, n), M \cup {n}, next2, first2)
<1> DEFINE r == Append(q, n)
           N == M \cup {n}
<1>1. Len(q) \in Nat /\ (q = <<>> <=> Len(q) = 0) /\ \A i \in 1..Len(q) : q[i] \in M
  BY LinedIn, EmptySeq DEF Lined
<1>2. /\ r \in Seq(N) /\ Len(r) = Len(q) + 1 /\ r[Len(q) + 1] = n
      /\ \A i \in 1..Len(q) : r[i] = q[i]
  <2>1. M \subseteq N /\ n \in N /\ q \in Seq(M)
    BY DEF Lined
  <2> HIDE DEF N
  <2>2. q \in Seq(N)
    BY <2>1, SeqMonotonic
  <2> QED BY <2>1, <2>2, AppendProperties DEF r
<1> HIDE DEF r
<1>0. \A i \in 1..Len(r) : i \in 1..Len(q) \/ i = Len(q) + 1
  BY <1>1, <1>2
<1>3. \A m \in N : \E i \in 1..Len(r) : r[i] = m
  <2>1. \A m \in M : \E i \in 1..Len(q) : q[i] = m
    BY DEF Lined
  <2>2. \A i \in 1..Len(q) : i \in 1..Len(r)
    BY <1>1, <1>2
  <2>3. Len(q) + 1 \in 1..Len(r)
    BY <1>1, <1>2
  <2> QED BY <1>2, <2>1, <2>2, <2>3
<1>4. \A i, j \in 1..Len(r) : r[i] = r[j] => i = j
  <2>1. \A i, j \in 1..Len(q) : q[i] = q[j] => i = j
    BY DEF Lined
  <2>2. \A i \in 1..Len(q) : q[i] # n
    BY <1>1
  <2> QED BY <1>0, <1>2, <2>1, <2>2
<1>5. r[1] = first2
  <2>1. CASE Len(q) = 0
    BY <1>1, <1>2, <2>1
  <2>2. CASE Len(q) # 0
    <3>1. 1 \in 1..Len(q)
      BY <1>1, <2>2
    <3> QED BY <1>1, <1>2, <2>2, <3>1 DEF Lined
  <2> QED BY <2>1, <2>2
<1>6. ASSUME NEW i \in 1..Len(r) - 1
      PROVE  next2[r[i]] = r[i + 1]
  <2>1. i \in 1..Len(q) /\ r[i] = q[i]
    BY <1>1, <1>2
  <2>2. CASE i = Len(q)
    BY <1>2, <2>1, <2>2
  <2>3. CASE i # Len(q)
    <3>1. i \in 1..Len(q) - 1 /\ i + 1 \in 1..Len(q)
      BY <1>1, <2>1, <2>3
    <3>2. next[q[i]] = q[i + 1]
      BY <3>1 DEF Lined
    <3> QED BY <1>2, <2>1, <2>3, <3>1, <3>2
  <2> QED BY <2>2, <2>3
<1> QED BY <1>2, <1>3, <1>4, <1>5, <1>6 DEF Lined, r

\* Who is taken out leaves the others in their order.
LEMMA LineLeft ==
  ASSUME NEW q, NEW M, NEW next, NEW first, Lined(q, M, next, first), NEW i \in 1..Len(q),
         NEW next2,
         \A j \in 1..Len(q) : j # i =>
            next2[q[j]] = IF next[q[j]] = q[i] THEN next[q[i]] ELSE next[q[j]],
         NEW first2, Len(q) # 1 => first2 = IF i = 1 THEN next[q[1]] ELSE first
  PROVE  Lined(RemoveAt(q, i), M \ {q[i]}, next2, first2)
<1> DEFINE r == RemoveAt(q, i)
           N == M \ {q[i]}
           at(j) == IF j < i THEN j ELSE j + 1
<1>1. /\ Len(q) \in Nat /\ \A j \in 1..Len(q) : q[j] \in M
      /\ \A j, k \in 1..Len(q) : q[j] = q[k] => j = k
  BY LinedIn DEF Lined
<1>2. /\ r \in Seq(M) /\ Len(r) = Len(q) - 1
      /\ \A j \in 1..Len(q) - 1 : r[j] = IF j < i THEN q[j] ELSE q[j + 1]
  BY RemoveAtPlaces DEF Lined
<1> HIDE DEF r
<1>3. \A j \in 1..Len(q) - 1 : at(j) \in 1..Len(q) /\ at(j) # i /\ r[j] = q[at(j)]
  BY <1>1, <1>2
<1>4. \A j, k \in 1..Len(q) - 1 : at(j) = at(k) => j = k
  BY <1>1
<1>5. \A k \in 1..Len(q) : k # i => \E j \in 1..Len(q) - 1 : at(j) = k
  <2> SUFFICES ASSUME NEW k \in 1..Len(q), k # i
               PROVE  \E j \in 1..Len(q) - 1 : at(j) = k
    OBVIOUS
  <2>1. CASE k < i
    <3>1. k \in 1..Len(q) - 1 /\ at(k) = k
      BY <1>1, <2>1
    <3> QED BY <3>1
  <2>2. CASE k > i
    <3>1. k - 1 \in 1..Len(q) - 1 /\ at(k - 1) = k
      BY <1>1, <2>2
    <3> QED BY <3>1
  <2> QED BY <1>1, <2>1, <2>2
<1>6. r \in Seq(N)
  <2>1. r \in [1..Len(r) -> M] /\ Len(r) \in Nat
    BY <1>2, LenProperties
  <2>2. \A j \in 1..Len(r) : r[j] \in N
    <3> HIDE DEF at
    <3> QED BY <1>1, <1>2, <1>3
  <2>3. r \in [1..Len(r) -> N]
    BY <2>1, <2>2
  <2> HIDE DEF N
  <2> QED BY <2>1, <2>3, SeqDef
<1>7. \A m \in N : \E j \in 1..Len(r) : r[j] = m
  <2> SUFFICES ASSUME NEW m \in N
               PROVE  \E j \in 1..Len(r) : r[j] = m
    OBVIOUS
  <2>1. PICK k \in 1..Len(q) : q[k] = m
    BY DEF Lined
  <2>2. PICK j \in 1..Len(q) - 1 : at(j) = k
    BY <1>5, <2>1
  <2> HIDE DEF at
  <2> QED BY <1>2, <1>3, <2>1, <2>2
<1>8. \A j, k \in 1..Len(r) : r[j] = r[k] => j = k
  <2> HIDE DEF at
  <2> QED BY <1>1, <1>2, <1>3, <1>4
<1>9. Len(r) # 0 => r[1] = first2
  <2> SUFFICES ASSUME Len(r) # 0
               PROVE  r[1] = first2
    OBVIOUS
  <2>1. 1 \in 1..Len(q) - 1 /\ 1 \in 1..Len(q) /\ Len(q) # 1
    BY <1>1, <1>2
  <2>2. q[1] = first /\ next[q[1]] = q[2]
    BY <1>1, <2>1 DEF Lined
  <2> QED BY <1>1, <1>2, <2>1, <2>2
<1>10. ASSUME NEW j \in 1..Len(r) - 1
       PROVE  next2[r[j]] = r[j + 1]
  <2>1. /\ j \in 1..Len(q) - 1 /\ j + 1 \in 1..Len(q) - 1 /\ j + 2 \in 1..Len(q) /\ j \in 1..Len(q)
        /\ j + 1 \in 1..Len(q) /\ (j + 1) + 1 = j + 2
    BY <1>1, <1>2
  <2>2. next[q[j]] = q[j + 1] /\ next[q[j + 1]] = q[j + 2]
    BY <2>1 DEF Lined
  <2>3. CASE j + 1 < i
    BY <1>1, <1>2, <2>1, <2>2, <2>3
  <2>4. CASE j + 1 = i
    BY <1>1, <1>2, <2>1, <2>2, <2>4
  <2>5. CASE j + 1 > i
    <3>1. ~(j < i) /\ ~(j + 1 < i) /\ j + 1 # i /\ j + 2 # i
      BY <2>1, <2>5
    <3>2. r[j] = q[j + 1] /\ r[j + 1] = q[j + 2]
      BY <1>2, <2>1, <3>1
    <3>3. q[j + 2] # q[i]
      BY <1>1, <2>1, <3>1
    <3> QED BY <2>1, <2>2, <3>1, <3>2, <3>3
  <2> QED BY <2>1, <2>3, <2>4, <2>5
<1> QED BY <1>6, <1>7, <1>8, <1>9, <1>10 DEF Lined, r

\* Of a sound circle, the line from its head ends with its tail.
LEMMA LineEnds ==
  ASSUME NEW ln, NEW head, Sound(ln, head), head # NoIter,
         NEW q, Lined(q, Members(ln, head), ln.next, head.now)
  PROVE  Len(q) \in 1..Len(q) /\ q[Len(q)] = head.last /\ q[1] = head.now
<1>1. /\ head.now \in Members(ln, head) /\ head.last \in Members(ln, head)
      /\ ln.next[head.last] = head.now
  BY MembersClosed
<1>2. PICK i \in 1..Len(q) : q[i] = head.last
  BY <1>1 DEF Lined
<1>3. Len(q) \in Nat /\ Len(q) # 0 /\ 1 \in 1..Len(q) /\ Len(q) \in 1..Len(q) /\ q[1] = head.now
  BY LinedIn DEF Lined
<1>4. ASSUME i # Len(q)
      PROVE  FALSE
  <2>1. i \in 1..Len(q) - 1 /\ i + 1 \in 1..Len(q) /\ i + 1 # 1
    BY <1>3, <1>4
  <2>2. q[i + 1] = q[1]
    BY <1>1, <1>2, <1>3, <2>1 DEF Lined
  <2> QED BY <1>3, <2>1, <2>2 DEF Lined
<1> QED BY <1>2, <1>3, <1>4

\* An empty circle has no members.
LEMMA NoneListed ==
  ASSUME NEW ln, Sound(ln, NoIter)
  PROVE  Members(ln, NoIter) = {}
BY NodeAssumption DEF Sound, Members, InList, NoIter

\* AddOneToListTail puts the node at the end of the line.
LEMMA LineAdded ==
  ASSUME NEW ln, NEW head, Sound(ln, head),
         NEW q, Lined(q, Members(ln, head), ln.next, head.now),
         NEW n \in Node, ~InList(ln, head, n)
  PROVE  LET add == AddOneToListTail(ln, head, n)
         IN  Lined(Append(q, n), Members(add.ln, add.head), add.ln.next, add.head.now)
<1> DEFINE add == AddOneToListTail(ln, head, n)
           M == Members(ln, head)
<1>1. /\ Members(add.ln, add.head) = M \cup {n}
      /\ add.head.now = IF head = NoIter THEN n ELSE head.now
      /\ \A p \in Node : add.ln.next[p] =
                  IF p = n THEN add.head.now
                  ELSE IF head # NoIter /\ p = head.last THEN n
                  ELSE ln.next[p]
  BY AddSound
<1> HIDE DEF add
<1>2. n \notin M /\ M \subseteq Node
  BY DEF Members
<1>3. Lined(q, M, ln.next, head.now) /\ \A i \in 1..Len(q) : q[i] \in M
  BY LinedIn
<1>4. CASE head = NoIter
  <2>1. M = {} /\ q = <<>>
    BY <1>4, NoneListed, LinedNone
  <2>2. \A i \in 1..Len(q) : FALSE
    BY <1>3, <2>1
  <2>3. q = <<>> /\ add.head.now = n
    BY <1>1, <1>4, <2>1
  <2>4. Lined(Append(q, n), M \cup {n}, add.ln.next, add.head.now)
    <3> HIDE DEF M
    <3> QED BY <1>2, <1>3, <2>2, <2>3, LineJoined
  <2> QED BY <1>1, <2>4 DEF add
<1>5. CASE head # NoIter
  <2>1. Len(q) \in 1..Len(q) /\ q[Len(q)] = head.last
    BY <1>5, LineEnds
  <2>2. \A i \in 1..Len(q) : add.ln.next[q[i]] = IF i = Len(q) THEN n ELSE ln.next[q[i]]
    <3>1. \A i, j \in 1..Len(q) : q[i] = q[j] => i = j
      BY DEF Lined
    <3>2. \A i \in 1..Len(q) : q[i] \in Node /\ q[i] # n
      BY <1>2, <1>3
    <3> QED BY <1>1, <1>5, <2>1, <3>1, <3>2
  <2>3. q # <<>>
    BY <1>3, <2>1, LinedNone
  <2>4. q # <<>> /\ add.head.now = head.now
    BY <1>1, <1>5, <2>3
  <2>5. Lined(Append(q, n), M \cup {n}, add.ln.next, add.head.now)
    <3> HIDE DEF M
    <3> QED BY <1>2, <1>3, <2>2, <2>4, LineJoined
  <2> QED BY <1>1, <2>5 DEF add
<1> QED BY <1>4, <1>5

\* ListDragOneOut takes the node out of the line.
LEMMA LineDragged ==
  ASSUME NEW ln, NEW head, Sound(ln, head),
         NEW q, Lined(q, Members(ln, head), ln.next, head.now), NEW i \in 1..Len(q)
  PROVE  LET d == ListDragOneOut(ln, head, q[i])
         IN  /\ Lined(RemoveAt(q, i), Members(d.ln, d.head), d.ln.next, d.head.now)
             /\ d.ret = (Len(q) = 1)
<1> DEFINE n == q[i]
           d == ListDragOneOut(ln, head, n)
           M == Members(ln, head)
<1>1. n \in M /\ M \subseteq Node /\ \A j \in 1..Len(q) : q[j] \in M
  BY LinedIn DEF Members
<1>2. /\ Members(d.ln, d.head) = M \ {n}
      /\ d.ret = (d.head = NoIter) /\ d.ret = (ln.next[n] = n)
      /\ head # NoIter
      /\ d.head # NoIter => d.head.now = IF n = head.now THEN ln.next[n] ELSE head.now
      /\ \A p \in Node : d.ln.next[p] = IF p = n THEN n
                                        ELSE IF p = ln.last[n] THEN ln.next[n]
                                        ELSE ln.next[p]
  <2> HIDE DEF n
  <2> QED BY <1>1, DragSound
<1> HIDE DEF d
<1>3. \A j, k \in 1..Len(q) : q[j] = q[k] => j = k
  BY DEF Lined
<1>4. q[1] = head.now /\ 1 \in 1..Len(q) /\ Len(q) \in Nat
  BY <1>2, LineEnds, LinedIn
<1>5. ln.next[n] = n => Len(q) = 1
  <2> SUFFICES ASSUME ln.next[n] = n
               PROVE  Len(q) = 1
    OBVIOUS
  <2>1. M = {n}
    BY <1>1 DEF Sound, OneCircle
  <2>2. Len(q) \in 1..Len(q)
    BY <1>4
  <2>3. q[1] = q[Len(q)]
    BY <1>1, <1>4, <2>1, <2>2
  <2> QED BY <1>3, <1>4, <2>2, <2>3
<1>6. Len(q) = 1 => ln.next[n] = n
  <2> SUFFICES ASSUME Len(q) = 1
               PROVE  ln.next[n] = n
    OBVIOUS
  <2>1. ln.next[n] \in M
    BY <1>1, <1>2, MembersClosed
  <2>2. PICK k \in 1..Len(q) : q[k] = ln.next[n]
    BY <2>1 DEF Lined
  <2>3. k = i
    BY <1>4
  <2> QED BY <2>2, <2>3
<1>7. d.ret = (Len(q) = 1)
  BY <1>2, <1>5, <1>6
<1>8. \A j \in 1..Len(q) : j # i =>
        d.ln.next[q[j]] = IF ln.next[q[j]] = q[i] THEN ln.next[q[i]] ELSE ln.next[q[j]]
  <2> SUFFICES ASSUME NEW j \in 1..Len(q), j # i
               PROVE  d.ln.next[q[j]] = IF ln.next[q[j]] = n THEN ln.next[n] ELSE ln.next[q[j]]
    OBVIOUS
  <2>1. q[j] \in Node /\ n \in Node /\ q[j] # n
    BY <1>1, <1>3
  <2>2. q[j] = ln.last[n] <=> ln.next[q[j]] = n
    BY <2>1 DEF Sound, BothWays
  <2> HIDE DEF n
  <2> QED BY <1>2, <2>1, <2>2
<1>9. Len(q) # 1 => d.head.now = IF i = 1 THEN ln.next[q[1]] ELSE head.now
  <2>1. n = head.now <=> i = 1
    BY <1>3, <1>4
  <2> QED BY <1>2, <1>5, <1>4, <2>1
<1>10. Lined(RemoveAt(q, i), M \ {q[i]}, d.ln.next, d.head.now)
  <2> HIDE DEF M
  <2> QED BY <1>8, <1>9, LineLeft DEF M
<1> QED BY <1>2, <1>7, <1>10 DEF d
=============================================================================
