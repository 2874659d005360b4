------------------------------- MODULE TkList -------------------------------
(***************************************************************************)
(* The intrusive circular list of list.c, as pure operators.               *)
(*                                                                         *)
(* A ListNode has two pointers, next and last (the previous node).  The    *)
(* pointers of all nodes form the value ln = [next, last], two functions   *)
(* on Node; a node outside every list points to itself.  An Iterator is a  *)
(* pair [now, last]: a list is held by the iterator of its head, whose     *)
(* last is the tail, or by NoIter when it is empty.                        *)
(***************************************************************************)
CONSTANTS Node,     \* the list nodes of the program
          NoNode    \* the null pointer

ASSUME NodeAssumption == NoNode \notin Node

Links == [next : [Node -> Node], last : [Node -> Node]]

Alone == [next |-> [n \in Node |-> n], last |-> [n \in Node |-> n]]

NoIter == [now |-> NoNode, last |-> NoNode]

Iterator == {NoIter} \cup [now : Node, last : Node]

GetIterator(ln, n) == [now |-> n, last |-> ln.last[n]]

(***************************************************************************)
(* tk(i0, i1) exchanges the predecessors of i0.now and i1.now.  On two     *)
(* different circles it splices them into one; on two neighbours of one    *)
(* circle it cuts the node between them out.  The pointer assignments are  *)
(* made in the order of the code, which matters when nodes coincide.       *)
(***************************************************************************)
Tk(ln, i0, i1) ==
  [next |-> [ln.next EXCEPT ![i0.last] = i1.now,  ![i1.last] = i0.now],
   last |-> [ln.last EXCEPT ![i0.now]  = i1.last, ![i1.now]  = i0.last]]

\* Mutant of AddOneToListTail: the new node becomes the head.
AddOneToListHeadwise(ln, head, n) ==
  LET h     == IF head.now = NoNode THEN GetIterator(ln, n) ELSE head
      added == Tk(ln, h, GetIterator(ln, n))
  IN  [ln |-> added, head |-> GetIterator(added, n)]

\* AddOneToListTail on the list held by head: the new pointers and the new head.
AddOneToListTail(ln, head, n) ==
  LET add == GetIterator(ln, n)
      h   == IF head.now = NoNode THEN add ELSE head
  IN  [ln |-> Tk(ln, h, add), head |-> [now |-> h.now, last |-> add.last]]

\* Mutant of AddOneToListTailSafe: IForward is left as ForEach saved it.
AddLeavingForward(ln, head, now, n) ==
  LET add == AddOneToListTail(ln, head, n)
  IN  [ln |-> add.ln, head |-> add.head, fwd |-> ln.next[now]]

\* AddOneToListTailSafe, called while ForEach stands at now: fwd is the
\* refreshed IForward, the node ForEach goes to next.
AddOneToListTailSafe(ln, head, now, n) ==
  LET add == AddOneToListTail(ln, head, n)
  IN  [ln |-> add.ln, head |-> add.head, fwd |-> add.ln.next[now]]

\* Mutant of ListDragOneOut: the head is moved only when the tail is dragged out.
DragKeepingHead(ln, head, n) ==
  LET cut == Tk(ln, GetIterator(ln, n), GetIterator(ln, ln.next[n]))
      fwd == GetIterator(cut, ln.next[n])
  IN  [ln   |-> cut,
       head |-> IF fwd.last = n THEN NoIter ELSE IF n = head.last THEN fwd ELSE head,
       ret  |-> fwd.last = n]

\* ListDragOneOut with LIST_SAFE_RETURN: ret is the callback result, TRUE
\* only when the node was alone in its list.
ListDragOneOut(ln, head, n) ==
  LET cut == Tk(ln, GetIterator(ln, n), GetIterator(ln, ln.next[n]))
      fwd == GetIterator(cut, ln.next[n])
  IN  IF fwd.last = n
      THEN [ln |-> cut, head |-> NoIter, ret |-> TRUE]
      ELSE [ln   |-> cut,
            head |-> IF n \in {head.now, head.last} THEN fwd ELSE head,
            ret  |-> FALSE]

\* ProcessDisattach's test: the node is in the list of this head.
InList(ln, head, n) == ln.next[n] # n \/ head.now = n

Members(ln, head) == {n \in Node : InList(ln, head, n)}
=============================================================================
