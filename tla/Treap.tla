------------------------------- MODULE Treap -------------------------------
(***************************************************************************)
(* The server's registry: a treap of PeerData (peerdata.c, treap.c), which *)
(* is a binary tree and at the same time a tree of branch lists (tree.c).  *)
(* Names are numbers in the order PeerDataTreapNodeCompare puts them in.   *)
(* The root is a PeerData of main's, with a name of its own.               *)
(***************************************************************************)
EXTENDS Integers, FiniteSets, SequencesExt

CONSTANTS Name,
          Root,     \* "unnamed"
          NoPeer,
          Priority  \* of rand(); the root's is 0

ASSUME TreapAssumption ==
  /\ Name \subseteq Int /\ IsFiniteSet(Name)
  /\ Root \in Name /\ NoPeer \notin Name /\ Priority \subseteq Nat

VARIABLES
  t,      \* the links: child[n][TRUE] is the right child, kids[n] the list of branches
  prio,   \* RanPriority
  procs,  \* the peers whose sub server runs
  answer, \* the last result of PeerDataFind
  left    \* history: whether a peer has left

vars == <<t, prio, procs, answer, left>>

------------------------------------------------------------------------------
(* tree.c *)

AttachTo(tr, n, to) ==
  IF tr.father[n] # NoPeer THEN tr
  ELSE [tr EXCEPT !.kids[to] = Append(@, n), !.father[n] = to]

\* Mutant of Disattach: the branch stays in the father's list.
DisattachBranchLeft(tr, n) == [tr EXCEPT !.father[n] = NoPeer]

Disattach(tr, n) ==
  IF tr.father[n] = NoPeer THEN tr
  ELSE [tr EXCEPT !.kids[tr.father[n]] = RemoveFirst(@, n), !.father[n] = NoPeer]

BinAttachTo(tr, n, to, right) ==
  IF tr.child[to][right] # NoPeer THEN tr
  ELSE AttachTo([tr EXCEPT !.child[to][right] = n], n, to)

IsRight(tr, n) == tr.child[tr.father[n]][TRUE] = n

BinDisattach(tr, n) ==
  IF tr.father[n] = NoPeer THEN tr
  ELSE Disattach([tr EXCEPT !.child[tr.father[n]][IsRight(tr, n)] = IF @ = n THEN NoPeer ELSE @], n)

\* A loop that is over when a round changes nothing.  A walk down, or the
\* rotations of one peer, take no more rounds than there are names.
Loop(Round(_), x) ==
  LET after[k \in 0..Cardinality(Name)] == IF k = 0 THEN x ELSE Round(after[k - 1])
  IN  after[Cardinality(Name)]

\* From m on the way to where n is, or would be.
Deeper(tr, n, m) == IF tr.child[m][n > m] = NoPeer THEN m ELSE tr.child[m][n > m]

BinTreeInsert(tr, n, at) ==
  LET end == Loop(LAMBDA m : Deeper(tr, n, m), at) IN BinAttachTo(tr, n, end, n > end)

BinTreeFind(tr, n, at) ==
  IF Loop(LAMBDA m : IF m = n THEN m ELSE Deeper(tr, n, m), at) = n THEN n ELSE NoPeer

------------------------------------------------------------------------------
(* treap.c *)

\* n takes its father's place, the father that of n's inner child, which the
\* father takes over.
TreapRoateUp(tr, n) ==
  IF tr.father[n] = NoPeer THEN tr
  ELSE LET f == tr.father[n]  pos == IsRight(tr, n)  g == tr.father[f]
           up   == IF g = NoPeer THEN BinDisattach(tr, n)
                   ELSE BinAttachTo(BinDisattach(BinDisattach(tr, n), f), n, g, IsRight(tr, f))
           save == up.child[n][~pos]
           over == IF save = NoPeer THEN up ELSE BinAttachTo(BinDisattach(up, save), save, f, pos)
       IN  BinAttachTo(over, f, n, ~pos)

\* Mutant of Above: never.
AboveNever(pr, n, f) == FALSE

Above(pr, n, f) == pr[n] < pr[f]

RoatesUp(tr, pr, n) ==
  IF tr.father[n] # NoPeer /\ Above(pr, n, tr.father[n]) THEN TreapRoateUp(tr, n) ELSE tr

TreapInsert(tr, pr, n) == Loop(LAMBDA up : RoatesUp(up, pr, n), BinTreeInsert(tr, n, Root))

\* Mutant of TreapDragOut: with what is below it.
TreapDragOutWhole(tr, n) == BinDisattach(tr, n)

\* Its right child, or else its left one, takes its place until it is a leaf.
Sinks(tr, n) ==
  LET below == IF tr.child[n][TRUE] # NoPeer THEN tr.child[n][TRUE] ELSE tr.child[n][FALSE]
  IN  IF below = NoPeer THEN tr ELSE TreapRoateUp(tr, below)

TreapDragOut(tr, n) == BinDisattach(Loop(LAMBDA down : Sinks(down, n), tr), n)

------------------------------------------------------------------------------
(* peerdata.c, and the server's use of it *)

NoLinks == [father |-> NoPeer, child |-> [right \in BOOLEAN |-> NoPeer], kids |-> <<>>]

PeerDataFind(n) == BinTreeFind(t, n, Root)

PeerDataCons(tr, n) == [tr EXCEPT !.father[n] = NoLinks.father, !.child[n] = NoLinks.child,
                                  !.kids[n] = NoLinks.kids]

Init ==
  /\ t = [father |-> [n \in Name |-> NoPeer], kids |-> [n \in Name |-> <<>>],
          child |-> [n \in Name |-> NoLinks.child]]
  /\ prio = [n \in Name |-> 0] /\ procs = {} /\ answer = NoPeer /\ left = FALSE

\* BridgeMain: a name that is found is refused.
Register(n) ==
  /\ answer' = PeerDataFind(n)
  /\ IF answer' # NoPeer THEN UNCHANGED <<t, prio, procs>>
     ELSE \E p \in Priority :
            /\ prio' = [prio EXCEPT ![n] = p]
            /\ t' = TreapInsert(PeerDataCons(t, n), prio', n)
            /\ procs' = procs \cup {n}
  /\ UNCHANGED left

\* A CONNECT to the name, or "direct" on the server.
Find(n) == answer' = PeerDataFind(n) /\ UNCHANGED <<t, prio, procs, left>>

\* Its sub server ends: PeerDataDele.
Leave(n) ==
  /\ n \in procs /\ procs' = procs \ {n}
  /\ t' = TreapDragOut(t, n) /\ prio' = [prio EXCEPT ![n] = 0] /\ left' = TRUE
  /\ UNCHANGED answer

Next == \E n \in Name : Register(n) \/ Find(n) \/ Leave(n)
Spec == Init /\ [][Next]_vars

------------------------------------------------------------------------------
Registry == INSTANCE PeerSet WITH peers <- procs

\* Through all rotations a name is found exactly while its sub server runs, and
\* not once it is freed; a second peer of the name is refused.
FindsThePeers == Registry!Spec

\* The children of the binary tree and the branches of the tree, which the
\* walks use, are the same, each once and by both ends; a freed peer has none.
LinksAgree ==
  \A n \in Name :
    /\ IsInjective(t.kids[n])
    /\ ToSet(t.kids[n]) = {m \in Name : t.father[m] = n}
    /\ ToSet(t.kids[n]) = {t.child[n][r] : r \in BOOLEAN} \ {NoPeer}
    /\ n \notin procs \cup {Root} => t.kids[n] = <<>> /\ t.father[n] = NoPeer

\* Until a peer leaves, no one is above one of a smaller priority: the last
\* one in has gone up far enough, and the others have kept their order.
HeapOfThePriorities ==
  ~left => \A n \in procs : prio[t.father[n]] <= prio[n]
=============================================================================
