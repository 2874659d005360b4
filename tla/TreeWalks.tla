----------------------------- MODULE TreeWalks -----------------------------
(***************************************************************************)
(* The walks over the registry's treap (tree.c): the one in preorder that  *)
(* counts the levels "peer" prints, and the one in postorder that frees    *)
(* the peers.                                                              *)
(***************************************************************************)
EXTENDS Treap

RECURSIVE PreorderDFS(_, _), PostorderDFS(_, _)

\* The order in which the callback of a walk meets what is below n.
PreorderDFS(tr, n)  == FlattenSeq([i \in DOMAIN tr.kids[n] |-> <<tr.kids[n][i]>> \o PreorderDFS(tr, tr.kids[n][i])])
PostorderDFS(tr, n) == FlattenSeq([i \in DOMAIN tr.kids[n] |-> Append(PostorderDFS(tr, tr.kids[n][i]), tr.kids[n][i])])

\* Mutant of GetLevelCallback: the level is kept for every one with children.
GetLevelAlways(tr, w, n) ==
  LET list  == tr.kids[tr.father[n]]
      level == IF n = Head(list) THEN w.level + 1 ELSE w.level
      leaf  == tr.kids[n] = <<>>
  IN  [levels |-> [w.levels EXCEPT ![n] = level],
       level  |-> IF n = Last(list) /\ leaf /\ w.stack # <<>> THEN Head(w.stack) ELSE level,
       stack  |-> IF ~leaf THEN <<level>> \o w.stack
                  ELSE IF n = Last(list) /\ w.stack # <<>> THEN Tail(w.stack) ELSE w.stack]

\* One callback of the preorder walk: a level is kept on a stack while the
\* walk is below one that is not the last of its list, until the last leaf.
GetLevelCallback(tr, w, n) ==
  LET list  == tr.kids[tr.father[n]]
      level == IF n = Head(list) THEN w.level + 1 ELSE w.level
      last  == n = Last(list)
      leaf  == tr.kids[n] = <<>>
      pops  == last /\ leaf /\ w.stack # <<>>
  IN  [levels |-> [w.levels EXCEPT ![n] = level],
       level  |-> IF pops THEN Head(w.stack) ELSE level,
       stack  |-> IF ~last /\ ~leaf THEN <<level>> \o w.stack
                  ELSE IF pops THEN Tail(w.stack) ELSE w.stack]

TreeGetNodesLevel(tr) ==
  FoldLeft(LAMBDA w, n : GetLevelCallback(tr, w, n),
           [level |-> 0, stack |-> <<>>, levels |-> [n \in Name |-> 0]], PreorderDFS(tr, Root)).levels

------------------------------------------------------------------------------
RECURSIVE Depth(_)
Depth(n) == IF n = Root THEN 0 ELSE 1 + Depth(t.father[n])

\* The levels "peer" prints, which the walk counts with its stack.
LevelsAreDepths ==
  LET levels == TreeGetNodesLevel(t) IN \A n \in procs : levels[n] = Depth(n)

\* PeerDataDestroy frees every peer, once, and after those below it.
FreedAfterItsChildren ==
  LET freed == PostorderDFS(t, Root)
  IN  /\ IsInjective(freed) /\ ToSet(freed) = procs
      /\ \A i, j \in DOMAIN freed : t.father[freed[i]] = freed[j] => i < j
=============================================================================
