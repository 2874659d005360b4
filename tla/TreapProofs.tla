----------------------------- MODULE TreapProofs -----------------------------
(***************************************************************************)
(* The registry's treap finds exactly the peers that are there.            *)
(*                                                                         *)
(* The tree is described without paths: every node n stands for a set of   *)
(* names iv[n], its own and those of the subtrees on its two sides, all    *)
(* on their side of n (IsTree).  A link cut off takes its set out of all   *)
(* that are above it, one grafted adds it; a rotation gives two nodes a    *)
(* new set and leaves the others theirs.  A walk down comes to an end      *)
(* since the set gets smaller, a peer that rises gains names, one that     *)
(* sinks loses them: no loop takes more rounds than there are names.       *)
(***************************************************************************)
EXTENDS Treap, Lemmas, FiniteSetTheorems

Tree == [father : [Name -> Name \cup {NoPeer}],
         child  : [Name -> [BOOLEAN -> Name \cup {NoPeer}]],
         kids   : [Name -> Seq(Name)]]

Kids(tr, m) == ToSet(tr.kids[m])
Gains(K, c) == IF c = NoPeer THEN K ELSE K \cup {c}

------------------------------------------------------------------------------
(* tree.c: what one link more or less does to the record of links.          *)

\* n is no longer f's child on side r.
Cut(tr, n, f, r) ==
  [father |-> [tr.father EXCEPT ![n] = NoPeer],
   child  |-> [tr.child EXCEPT ![f] = [@ EXCEPT ![r] = NoPeer]],
   kids   |-> [tr.kids EXCEPT ![f] = RemoveFirst(@, n)]]

\* n is f's child on side r.
Graft(tr, n, f, r) ==
  [father |-> [tr.father EXCEPT ![n] = f],
   child  |-> [tr.child EXCEPT ![f] = [@ EXCEPT ![r] = n]],
   kids   |-> [tr.kids EXCEPT ![f] = Append(@, n)]]

LEMMA ChildSet ==
  ASSUME NEW tr \in Tree, NEW ch
  PROVE  [tr EXCEPT !.child = ch] = [father |-> tr.father, child |-> ch, kids |-> tr.kids]
BY DEF Tree

LEMMA BinDisattachCuts ==
  ASSUME NEW tr \in Tree, NEW n \in Name, NEW f \in Name,
         tr.father[n] = f, tr.child[f][IsRight(tr, n)] = n
  PROVE  BinDisattach(tr, n) = Cut(tr, n, f, IsRight(tr, n))
<1> DEFINE r == IsRight(tr, n)
           a == [tr EXCEPT !.child[f][r] = IF @ = n THEN NoPeer ELSE @]
<1>1. r \in BOOLEAN /\ f # NoPeer
  BY TreapAssumption DEF IsRight
<1>2. BinDisattach(tr, n) = Disattach(a, n)
  BY <1>1 DEF BinDisattach
<1> HIDE DEF r
<1>3. a = [father |-> tr.father,
           child |-> [tr.child EXCEPT ![f] = [@ EXCEPT ![r] = NoPeer]], kids |-> tr.kids]
  <2> DEFINE ch == [tr.child EXCEPT ![f] = [@ EXCEPT ![r] = NoPeer]]
  <2>1. tr.child[f][r] = n
    BY DEF r
  <2>2. a = [tr EXCEPT !.child = ch]
    BY <2>1, Zenon
  <2> HIDE DEF ch, a
  <2>3. [tr EXCEPT !.child = ch] = [father |-> tr.father, child |-> ch, kids |-> tr.kids]
    BY ChildSet
  <2> QED BY <2>2, <2>3 DEF ch
<1> HIDE DEF a
<1>4. Disattach(a, n) = [a EXCEPT !.kids[f] = RemoveFirst(@, n), !.father[n] = NoPeer]
  BY <1>1, <1>3 DEF Disattach
<1> QED BY <1>2, <1>3, <1>4 DEF Cut, r, Tree

LEMMA BinAttachToGrafts ==
  ASSUME NEW tr \in Tree, NEW n \in Name, NEW f \in Name, NEW r \in BOOLEAN,
         tr.father[n] = NoPeer, tr.child[f][r] = NoPeer
  PROVE  BinAttachTo(tr, n, f, r) = Graft(tr, n, f, r)
<1> DEFINE a == [tr EXCEPT !.child[f][r] = n]
<1>1. BinAttachTo(tr, n, f, r) = AttachTo(a, n, f)
  BY DEF BinAttachTo
<1>2. a = [father |-> tr.father,
           child |-> [tr.child EXCEPT ![f] = [@ EXCEPT ![r] = n]], kids |-> tr.kids]
  <2> DEFINE ch == [tr.child EXCEPT ![f] = [@ EXCEPT ![r] = n]]
  <2>1. a = [tr EXCEPT !.child = ch]
    BY Zenon
  <2> HIDE DEF ch, a
  <2>2. [tr EXCEPT !.child = ch] = [father |-> tr.father, child |-> ch, kids |-> tr.kids]
    BY ChildSet
  <2> QED BY <2>1, <2>2 DEF ch
<1> HIDE DEF a
<1>3. AttachTo(a, n, f) = [a EXCEPT !.kids[f] = Append(@, n), !.father[n] = f]
  BY <1>2 DEF AttachTo
<1> QED BY <1>1, <1>2, <1>3 DEF Graft, Tree

\* What a link more has done to the links, and one less.
Grafted(tr, n, f, r, c) ==
  /\ c \in Tree
  /\ \A x \in Name : c.father[x] = IF x = n THEN f ELSE tr.father[x]
  /\ \A x \in Name, s \in BOOLEAN : c.child[x][s] = IF x = f /\ s = r THEN n ELSE tr.child[x][s]
  /\ \A x \in Name : IsInjective(c.kids[x])
  /\ \A x \in Name : Kids(c, x) = IF x = f THEN Kids(tr, x) \cup {n} ELSE Kids(tr, x)

IsCut(tr, n, f, r, c) ==
  /\ c \in Tree
  /\ \A x \in Name : c.father[x] = IF x = n THEN NoPeer ELSE tr.father[x]
  /\ \A x \in Name, s \in BOOLEAN :
       c.child[x][s] = IF x = f /\ s = r THEN NoPeer ELSE tr.child[x][s]
  /\ \A x \in Name : IsInjective(c.kids[x])
  /\ \A x \in Name : Kids(c, x) = IF x = f THEN Kids(tr, x) \ {n} ELSE Kids(tr, x)

LEMMA CutLinks ==
  ASSUME NEW tr \in Tree, NEW n \in Name, NEW f \in Name, NEW r \in BOOLEAN,
         \A x \in Name : IsInjective(tr.kids[x]), NEW c, c = Cut(tr, n, f, r)
  PROVE  IsCut(tr, n, f, r, c)
<1>1. \A x \in Name : c.father[x] = IF x = n THEN NoPeer ELSE tr.father[x]
  BY DEF Cut, Tree
<1>2. \A x \in Name, s \in BOOLEAN :
         c.child[x][s] = IF x = f /\ s = r THEN NoPeer ELSE tr.child[x][s]
  BY DEF Cut, Tree
<1>3. \A x \in Name : c.kids[x] = IF x = f THEN RemoveFirst(tr.kids[f], n) ELSE tr.kids[x]
  BY DEF Cut, Tree
<1>4. tr.kids \in [Name -> Seq(Name)]
  BY DEF Tree
<1>5. /\ RemoveFirst(tr.kids[f], n) \in Seq(Name) /\ IsInjective(RemoveFirst(tr.kids[f], n))
      /\ ToSet(RemoveFirst(tr.kids[f], n)) = ToSet(tr.kids[f]) \ {n}
  BY <1>4, RemoveFirstOut
<1>6. c \in Tree
  <2>1. c.father \in [Name -> Name \cup {NoPeer}]
    BY DEF Cut, Tree
  <2>2. c.child \in [Name -> [BOOLEAN -> Name \cup {NoPeer}]]
    BY DEF Cut, Tree
  <2>3. c.kids \in [Name -> Seq(Name)]
    BY <1>4, <1>5 DEF Cut, Tree
  <2> QED BY <2>1, <2>2, <2>3 DEF Cut, Tree
<1> QED BY <1>1, <1>2, <1>3, <1>5, <1>6 DEF Kids, IsCut

LEMMA GraftLinks ==
  ASSUME NEW tr \in Tree, NEW n \in Name, NEW f \in Name, NEW r \in BOOLEAN,
         \A x \in Name : IsInjective(tr.kids[x]), n \notin Kids(tr, f),
         NEW c, c = Graft(tr, n, f, r)
  PROVE  Grafted(tr, n, f, r, c)
<1>1. \A x \in Name : c.father[x] = IF x = n THEN f ELSE tr.father[x]
  BY DEF Graft, Tree
<1>2. \A x \in Name, s \in BOOLEAN :
         c.child[x][s] = IF x = f /\ s = r THEN n ELSE tr.child[x][s]
  BY DEF Graft, Tree
<1>3. \A x \in Name : c.kids[x] = IF x = f THEN Append(tr.kids[f], n) ELSE tr.kids[x]
  BY DEF Graft, Tree
<1>4. tr.kids \in [Name -> Seq(Name)]
  BY DEF Tree
<1>5. c \in Tree
  <2>1. c.father \in [Name -> Name \cup {NoPeer}]
    BY DEF Graft, Tree
  <2>2. c.child \in [Name -> [BOOLEAN -> Name \cup {NoPeer}]]
    BY DEF Graft, Tree
  <2>3. c.kids \in [Name -> Seq(Name)]
    BY <1>4, AppendProperties DEF Graft
  <2> QED BY <2>1, <2>2, <2>3 DEF Graft, Tree
<1>6. IsInjective(Append(tr.kids[f], n)) /\ ToSet(Append(tr.kids[f], n)) = ToSet(tr.kids[f]) \cup {n}
  BY <1>4, AppendIn DEF Kids
<1> QED BY <1>1, <1>2, <1>3, <1>5, <1>6 DEF Kids, Grafted

------------------------------------------------------------------------------
(* The names a node stands for: all for the root, and for a child those of  *)
(* its father's on its side of the father.                                  *)

Side(I, m, r) == {x \in I : x # m /\ ((x > m) = r)}

\* The nodes T, whose links are tr; iv[m] is what the search comes to m with.
Shape(tr, T, iv) ==
  /\ T \subseteq Name /\ Root \in T /\ tr.father[Root] = NoPeer
  /\ iv \in [Name -> SUBSET Name] /\ iv[Root] = Name
  /\ \A m \in T : m \in iv[m]
  /\ \A m \in T, r \in BOOLEAN : tr.child[m][r] # NoPeer =>
       /\ tr.child[m][r] \in T /\ tr.father[tr.child[m][r]] = m
       /\ iv[tr.child[m][r]] = Side(iv[m], m, r)
  /\ \A m \in T : m # Root =>
       tr.father[m] \in T /\ \E r \in BOOLEAN : tr.child[tr.father[m]][r] = m
  /\ \A m \in Name \ T : tr.father[m] = NoPeer /\ \A r \in BOOLEAN : tr.child[m][r] = NoPeer

\* A node's child is there if a node is on its side.
Covers(tr, T, iv) ==
  \A m, x \in T : x \in iv[m] /\ x # m => tr.child[m][x > m] # NoPeer

\* Two nodes stand for different names, or one for some on one side of the other.
Apart(I, y, J, z) ==
  I \cap J = {} \/ I \subseteq Side(J, z, y > z) \/ J \subseteq Side(I, y, z > y)

Nested(T, iv) == \A y, z \in T : y # z => Apart(iv[y], y, iv[z], z)

\* The list of branches of a node has its children.
Branches(tr) ==
  \A m \in Name : /\ IsInjective(tr.kids[m])
                 /\ \A c \in Name : c \in Kids(tr, m) <=> \E r \in BOOLEAN : tr.child[m][r] = c

IsTree(tr, T, iv) ==
  tr \in Tree /\ Shape(tr, T, iv) /\ Covers(tr, T, iv) /\ Nested(T, iv) /\ Branches(tr)

\* A node and its father.
LEMMA Family ==
  ASSUME NEW tr, NEW T, NEW iv, IsTree(tr, T, iv), NEW n \in T, n # Root
  PROVE  /\ n \in Name /\ tr.father[n] \in T /\ tr.father[n] \in Name /\ tr.father[n] # n
         /\ IsRight(tr, n) \in BOOLEAN
         /\ tr.child[tr.father[n]][IsRight(tr, n)] = n
         /\ tr.child[tr.father[n]][~IsRight(tr, n)] # n
         /\ iv[n] = Side(iv[tr.father[n]], tr.father[n], IsRight(tr, n))
<1> DEFINE f == tr.father[n]
<1>1. T \subseteq Name /\ f \in T /\ n \in iv[n] /\ NoPeer \notin Name /\ Name \subseteq Int
  BY TreapAssumption DEF IsTree, Shape
<1>2. PICK r \in BOOLEAN : tr.child[f][r] = n
  BY DEF IsTree, Shape
<1>3. ASSUME NEW s \in BOOLEAN, tr.child[f][s] = n
      PROVE  iv[n] = Side(iv[f], f, s)
  BY <1>1, <1>3 DEF IsTree, Shape
<1>4. n \in Name /\ n # f /\ f \in Name
  BY <1>1, <1>2, <1>3 DEF Side
<1>5. ASSUME NEW s \in BOOLEAN, tr.child[f][s] = n
      PROVE  s = (n > f)
  BY <1>1, <1>3, <1>5 DEF Side
<1>6. IsRight(tr, n) = (tr.child[f][TRUE] = n)
  BY DEF IsRight
<1>7. r = IsRight(tr, n)
  <2>1. CASE r = TRUE
    BY <1>2, <1>6, <2>1
  <2>2. CASE r = FALSE
    BY <1>2, <1>5, <1>6, <2>2
  <2> QED BY <2>1, <2>2
<1>8. tr.child[f][~r] # n
  BY <1>2, <1>5
<1> QED BY <1>1, <1>2, <1>3, <1>4, <1>7, <1>8

\* n, its father and its grandfather are three.
LEMMA ThreeInLine ==
  ASSUME NEW tr, NEW T, NEW iv, IsTree(tr, T, iv), NEW n \in T, n # Root, tr.father[n] # Root
  PROVE  /\ tr.father[n] # n /\ tr.father[tr.father[n]] # tr.father[n]
         /\ tr.father[tr.father[n]] # n
         /\ n \in iv[tr.father[n]] /\ n \in iv[tr.father[tr.father[n]]]
<1> DEFINE f == tr.father[n]
           g == tr.father[f]
<1>1. /\ f \in T /\ f # n /\ iv[n] = Side(iv[f], f, IsRight(tr, n))
      /\ IsRight(tr, n) \in BOOLEAN
  BY Family
<1>2. /\ g \in T /\ f # g /\ iv[f] = Side(iv[g], g, IsRight(tr, f))
  BY <1>1, Family
<1>3. T \subseteq Name /\ n \in iv[n] /\ f \in iv[f]
  BY <1>1 DEF IsTree, Shape
<1> QED BY <1>1, <1>2, <1>3 DEF Side

\* A child is neither of them.
LEMMA Child ==
  ASSUME NEW tr, NEW T, NEW iv, IsTree(tr, T, iv), NEW n \in T, NEW s \in BOOLEAN,
         tr.child[n][s] # NoPeer
  PROVE  /\ tr.child[n][s] \in T /\ tr.child[n][s] \in Name /\ tr.child[n][s] # n
         /\ tr.father[tr.child[n][s]] = n /\ tr.child[n][s] # Root
         /\ iv[tr.child[n][s]] = Side(iv[n], n, s)
         /\ tr.child[n][s] \in iv[n] /\ (tr.child[n][s] > n) = s
<1> DEFINE c == tr.child[n][s]
<1>1. /\ c \in T /\ tr.father[c] = n /\ iv[c] = Side(iv[n], n, s) /\ c \in iv[c]
  BY DEF IsTree, Shape
<1>a. T \subseteq Name /\ tr.father[Root] = NoPeer /\ NoPeer \notin Name
  BY TreapAssumption DEF IsTree, Shape
<1> HIDE DEF c
<1>2. c \in iv[n] /\ c # n /\ (c > n) = s
  BY <1>1 DEF Side
<1>3. c \in Name /\ c # Root
  BY <1>1, <1>a
<1> QED BY <1>1, <1>2, <1>3 DEF c

\* The links after a rotation: n is where f was, f is n's on the other side,
\* and has the child that n had there.
Rotated(tr, n, R) ==
  LET f == tr.father[n]  g == tr.father[f]  pos == IsRight(tr, n)
      save == tr.child[n][~pos]
  IN  /\ R \in Tree
      /\ \A x \in Name : R.father[x] = IF x = n THEN g ELSE IF x = f THEN n
                                       ELSE IF x = save THEN f ELSE tr.father[x]
      /\ \A x \in Name, s \in BOOLEAN :
           R.child[x][s] = IF x = g /\ s = IsRight(tr, f) THEN n
                           ELSE IF x = f /\ s = pos THEN save
                           ELSE IF x = n /\ s = ~pos THEN f ELSE tr.child[x][s]
      /\ \A x \in Name : /\ IsInjective(R.kids[x])
                         /\ Kids(R, x) = IF x = g THEN (Kids(tr, g) \ {f}) \cup {n}
                                         ELSE IF x = f THEN Gains(Kids(tr, f) \ {n}, save)
                                         ELSE IF x = n THEN (Kids(tr, n) \ {save}) \cup {f}
                                         ELSE Kids(tr, x)

LEMMA RotationLinks ==
  ASSUME NEW tr, NEW T, NEW iv, IsTree(tr, T, iv), NEW n \in T, n # Root, tr.father[n] # Root
  PROVE  Rotated(tr, n, TreapRoateUp(tr, n))
<1> DEFINE f == tr.father[n]
           g == tr.father[f]
           pos == IsRight(tr, n)
           neg == ~pos
           fpos == IsRight(tr, f)
           save == tr.child[n][neg]
           a == BinDisattach(tr, n)
           b == BinDisattach(a, f)
           up == BinAttachTo(b, n, g, fpos)
           c == BinDisattach(up, save)
           over == IF save = NoPeer THEN up ELSE BinAttachTo(c, save, f, pos)
           R == BinAttachTo(over, f, n, neg)
<1>0. /\ NoPeer \notin Name /\ tr \in Tree /\ T \subseteq Name
      /\ \A x \in Name : IsInjective(tr.kids[x])
  BY TreapAssumption DEF IsTree, Shape, Branches
<1>1. /\ n \in Name /\ f \in T /\ f \in Name /\ f # n /\ pos \in BOOLEAN /\ tr.child[f][pos] = n
      /\ tr.child[f][neg] # n
  BY Family
<1>2. neg \in BOOLEAN /\ neg # pos /\ \A s \in BOOLEAN : s = neg \/ s = pos
  <2> HIDE DEF pos
  <2> QED BY <1>1
<1>3. /\ g \in T /\ g \in Name /\ f # g /\ fpos \in BOOLEAN /\ tr.child[g][fpos] = f
      /\ tr.child[g][~fpos] # f
  BY <1>1, Family
<1>4. /\ g # n
      /\ \A s \in BOOLEAN : tr.child[n][s] # NoPeer =>
           /\ tr.child[n][s] \notin {n, f, g} /\ tr.child[n][s] \in Name
           /\ tr.father[tr.child[n][s]] = n
      /\ tr.child[n][TRUE] # NoPeer => tr.child[n][TRUE] # tr.child[n][FALSE]
  <2>1. f # n /\ g # f /\ g # n
    BY ThreeInLine
  <2>2. ASSUME NEW s \in BOOLEAN, tr.child[n][s] # NoPeer
        PROVE  /\ tr.child[n][s] # n /\ tr.child[n][s] # f /\ tr.child[n][s] # g
               /\ tr.child[n][s] \in Name /\ tr.father[tr.child[n][s]] = n
    <3>1. tr.child[n][s] \in Name /\ tr.child[n][s] # n /\ tr.father[tr.child[n][s]] = n
      BY <2>2, Child
    <3>2. tr.father[f] # n /\ tr.father[g] # n
      <4>1. g # n /\ n \in iv[g]
        BY ThreeInLine
      <4>2. g # Root => tr.father[g] # n
        <5> SUFFICES ASSUME g # Root, tr.father[g] = n
                     PROVE  FALSE
          OBVIOUS
        <5>1. n \in iv[f] /\ iv[g] = Side(iv[n], n, IsRight(tr, g))
          BY <1>3, Family, ThreeInLine
        <5> QED BY <4>1, <5>1 DEF Side
      <4>3. tr.father[Root] # n
        BY <1>0, <1>1 DEF IsTree, Shape
      <4> QED BY <2>1, <4>2, <4>3
    <3> HIDE DEF f, g
    <3> QED BY <3>1, <3>2
  <2>3. tr.child[n][TRUE] # NoPeer => tr.child[n][TRUE] # tr.child[n][FALSE]
    <3> SUFFICES ASSUME tr.child[n][TRUE] # NoPeer, tr.child[n][TRUE] = tr.child[n][FALSE]
                 PROVE  FALSE
      OBVIOUS
    <3>0. \A s \in BOOLEAN : tr.child[n][s] # NoPeer => (tr.child[n][s] > n) = s
      BY Child
    <3>1. (tr.child[n][TRUE] > n) = TRUE /\ (tr.child[n][FALSE] > n) = FALSE
      BY <3>0
    <3> QED BY <3>1
  <2> QED BY <2>1, <2>2, <2>3
<1> HIDE DEF neg, pos, fpos
<1>5. save = NoPeer \/ (save \in Name /\ save \notin {n, f, g} /\ tr.father[save] = n)
  BY <1>2, <1>4
\* Where each is a child, by the links alone.
<1>6. /\ n \in Kids(tr, f) /\ n \notin Kids(tr, g) /\ f \in Kids(tr, g) /\ f \notin Kids(tr, n)
      /\ save # NoPeer => save \in Kids(tr, n) /\ save \notin Kids(tr, f)
  <2>1. \A x, y \in Name : y \in Kids(tr, x) <=> \E r \in BOOLEAN : tr.child[x][r] = y
    BY DEF IsTree, Branches
  <2>2. \A x, y \in Name : y \in Kids(tr, x) => tr.father[y] = x
    <3>1. ASSUME NEW x \in Name, NEW y \in Name, y \in Kids(tr, x)
          PROVE  tr.father[y] = x
      <4>1. PICK r \in BOOLEAN : tr.child[x][r] = y
        BY <2>1, <3>1
      <4> QED BY <1>0, <4>1 DEF IsTree, Shape
    <3> QED BY <3>1
  <2>3. n \in Kids(tr, f) /\ f \in Kids(tr, g)
    BY <1>1, <1>3, <2>1
  <2>4. save # NoPeer => save \in Kids(tr, n)
    BY <1>1, <1>2, <1>5, <2>1
  <2>5. tr.father[n] # g /\ tr.father[f] # n /\ (save # NoPeer => tr.father[save] # f)
    BY <1>1, <1>3, <1>4, <1>5
  <2> HIDE DEF f, g, save
  <2> QED BY <1>1, <1>3, <1>5, <2>2, <2>3, <2>4, <2>5
<1> HIDE DEF save, f, g
\* n leaves f.
<1>a. /\ a \in Tree
      /\ \A x \in Name : a.father[x] = IF x = n THEN NoPeer ELSE tr.father[x]
      /\ \A x \in Name, s \in BOOLEAN : a.child[x][s] = IF x = f /\ s = pos THEN NoPeer ELSE tr.child[x][s]
      /\ \A x \in Name : IsInjective(a.kids[x])
      /\ \A x \in Name : Kids(a, x) = IF x = f THEN Kids(tr, x) \ {n} ELSE Kids(tr, x)
  <2>1. a = Cut(tr, n, f, pos)
    BY <1>0, <1>1, BinDisattachCuts DEF f, pos
  <2> HIDE DEF a
  <2>2. IsCut(tr, n, f, pos, a)
    BY <1>0, <1>1, <2>1, CutLinks
  <2> QED BY <2>2 DEF IsCut
<1> HIDE DEF a
<1>a1. a \in Tree /\ \A x \in Name : IsInjective(a.kids[x])
  BY <1>a
<1>a2. \A x \in Name : a.father[x] = IF x = n THEN NoPeer ELSE tr.father[x]
  BY <1>a
<1>a3. \A x \in Name, s \in BOOLEAN : a.child[x][s] = IF x = f /\ s = pos THEN NoPeer ELSE tr.child[x][s]
  BY <1>a
<1>a4. Kids(a, f) = Kids(tr, f) \ {n} /\ \A x \in Name : x # f => Kids(a, x) = Kids(tr, x)
  BY <1>1, <1>a
\* f leaves g.
<1>b. /\ b \in Tree
      /\ \A x \in Name : b.father[x] = IF x = f THEN NoPeer ELSE a.father[x]
      /\ \A x \in Name, s \in BOOLEAN : b.child[x][s] = IF x = g /\ s = fpos THEN NoPeer ELSE a.child[x][s]
      /\ \A x \in Name : IsInjective(b.kids[x])
      /\ \A x \in Name : Kids(b, x) = IF x = g THEN Kids(a, x) \ {f} ELSE Kids(a, x)
  <2>1. a.father[f] = g
    BY <1>1, <1>a2 DEF g
  <2>2. a.child[g][TRUE] = tr.child[g][TRUE] /\ a.child[g][fpos] = f
    BY <1>3, <1>a3
  <2>3. IsRight(a, f) = fpos
    BY <2>1, <2>2 DEF IsRight, fpos, g
  <2>4. b = Cut(a, f, g, fpos)
    BY <1>1, <1>3, <1>a1, <2>1, <2>2, <2>3, BinDisattachCuts
  <2> HIDE DEF b
  <2>5. /\ a \in Tree /\ f \in Name /\ g \in Name /\ fpos \in BOOLEAN
        /\ \A x \in Name : IsInjective(a.kids[x])
    BY <1>1, <1>3, <1>a1
  <2>6. IsCut(a, f, g, fpos, b)
    BY <2>4, <2>5, CutLinks
  <2> QED BY <2>6 DEF IsCut
<1> HIDE DEF b
<1>b1. b \in Tree /\ \A x \in Name : IsInjective(b.kids[x])
  BY <1>b
<1>b2. \A x \in Name : b.father[x] = IF x = f \/ x = n THEN NoPeer ELSE tr.father[x]
  BY <1>a2, <1>b
<1>b3. \A x \in Name, s \in BOOLEAN :
         b.child[x][s] = IF x = g /\ s = fpos THEN NoPeer
                         ELSE IF x = f /\ s = pos THEN NoPeer ELSE tr.child[x][s]
  BY <1>a3, <1>b
<1>b4. /\ Kids(b, f) = Kids(tr, f) \ {n} /\ Kids(b, g) = Kids(tr, g) \ {f}
       /\ \A x \in Name : x # f /\ x # g => Kids(b, x) = Kids(tr, x)
  BY <1>1, <1>3, <1>a4, <1>b
\* n comes to g.
<1>u. /\ up \in Tree
      /\ \A x \in Name : up.father[x] = IF x = n THEN g ELSE b.father[x]
      /\ \A x \in Name, s \in BOOLEAN : up.child[x][s] = IF x = g /\ s = fpos THEN n ELSE b.child[x][s]
      /\ \A x \in Name : IsInjective(up.kids[x])
      /\ \A x \in Name : Kids(up, x) = IF x = g THEN Kids(b, x) \cup {n} ELSE Kids(b, x)
  <2>1. b.father[n] = NoPeer /\ b.child[g][fpos] = NoPeer
    BY <1>1, <1>3, <1>b2, <1>b3
  <2>2. n \notin Kids(b, g)
    BY <1>6, <1>b4
  <2>3. up = Graft(b, n, g, fpos)
    BY <1>1, <1>3, <1>b1, <2>1, BinAttachToGrafts
  <2> HIDE DEF up
  <2>4. Grafted(b, n, g, fpos, up)
    BY <1>1, <1>3, <1>b1, <2>2, <2>3, GraftLinks
  <2> QED BY <2>4 DEF Grafted
<1> HIDE DEF up
<1>u1. up \in Tree /\ \A x \in Name : IsInjective(up.kids[x])
  BY <1>u
<1>u2. \A x \in Name : up.father[x] = IF x = n THEN g ELSE IF x = f THEN NoPeer ELSE tr.father[x]
  BY <1>b2, <1>u
<1>u3. \A x \in Name, s \in BOOLEAN :
         up.child[x][s] = IF x = g /\ s = fpos THEN n
                          ELSE IF x = f /\ s = pos THEN NoPeer ELSE tr.child[x][s]
  BY <1>b3, <1>u
<1>u4. /\ Kids(up, f) = Kids(tr, f) \ {n} /\ Kids(up, g) = (Kids(tr, g) \ {f}) \cup {n}
       /\ \A x \in Name : x # f /\ x # g => Kids(up, x) = Kids(tr, x)
  BY <1>1, <1>3, <1>b4, <1>u
<1>u5. up.child[n][neg] = save
  BY <1>1, <1>2, <1>4, <1>u3 DEF save
\* The child between, if any, leaves n and comes to f.
<1>o. /\ over \in Tree /\ \A x \in Name : IsInjective(over.kids[x])
      /\ \A x \in Name : over.father[x] = IF x = save THEN f ELSE up.father[x]
      /\ \A x \in Name, s \in BOOLEAN :
           over.child[x][s] = IF x = f /\ s = pos THEN save
                              ELSE IF x = n /\ s = neg THEN NoPeer ELSE up.child[x][s]
      /\ \A x \in Name : Kids(over, x) = IF x = n THEN Kids(up, n) \ {save}
                                         ELSE IF x = f THEN Gains(Kids(up, f), save)
                                         ELSE Kids(up, x)
  <2>1. CASE save = NoPeer
    <3>1. up.child[f][pos] = NoPeer
      BY <1>1, <1>3, <1>u3
    <3>2. NoPeer \notin Kids(up, n)
      <4>1. up.kids[n] \in Seq(Name)
        BY <1>1, <1>u1 DEF Tree
      <4> QED BY <1>0, <4>1 DEF Kids, ToSet
    <3>3. over = up
      BY <2>1
    <3> HIDE DEF over
    <3>4. \A x \in Name : x # save
      BY <1>0, <2>1
    <3>5. \A x \in Name, s \in BOOLEAN :
            over.child[x][s] = IF x = f /\ s = pos THEN save
                               ELSE IF x = n /\ s = neg THEN NoPeer ELSE up.child[x][s]
      BY <1>u5, <2>1, <3>1, <3>3
    <3>6. Kids(up, n) \ {save} = Kids(up, n) /\ Gains(Kids(up, f), save) = Kids(up, f)
      BY <2>1, <3>2 DEF Gains
    <3> QED BY <1>u1, <3>3, <3>4, <3>5, <3>6
  <2>2. CASE save # NoPeer
    <3>0. save \in Name /\ save \notin {n, f, g} /\ tr.father[save] = n
      BY <1>5, <2>2
    <3>1. up.father[save] = n
      BY <3>0, <1>u2
    <3>2. \A s \in BOOLEAN : up.child[n][s] = tr.child[n][s]
      BY <1>1, <1>4, <1>u3
    <3>3. IsRight(up, save) = neg
      <4>1. IsRight(up, save) = (tr.child[n][TRUE] = save)
        BY <3>1, <3>2 DEF IsRight
      <4>2. CASE neg = TRUE
        BY <4>1, <4>2 DEF save
      <4>3. CASE neg = FALSE
        BY <1>4, <2>2, <4>1, <4>3 DEF save
      <4> QED BY <1>2, <4>2, <4>3
    <3>4. c = Cut(up, save, n, neg)
      BY <1>1, <1>u1, <1>u5, <3>0, <3>1, <3>3, BinDisattachCuts
    <3> HIDE DEF c
    <3>5. /\ c \in Tree
          /\ \A x \in Name : c.father[x] = IF x = save THEN NoPeer ELSE up.father[x]
          /\ \A x \in Name, s \in BOOLEAN : c.child[x][s] = IF x = n /\ s = neg THEN NoPeer ELSE up.child[x][s]
          /\ \A x \in Name : IsInjective(c.kids[x])
          /\ \A x \in Name : Kids(c, x) = IF x = n THEN Kids(up, x) \ {save} ELSE Kids(up, x)
      <4>1. IsCut(up, save, n, neg, c)
        BY <1>1, <1>2, <1>u1, <3>0, <3>4, CutLinks
      <4> QED BY <4>1 DEF IsCut
    <3>6. c.father[save] = NoPeer /\ c.child[f][pos] = NoPeer
      BY <1>1, <1>3, <1>u3, <3>0, <3>5
    <3>7. save \notin Kids(c, f)
      BY <1>1, <1>6, <1>u4, <2>2, <3>5
    <3>8. over = Graft(c, save, f, pos)
      BY <1>1, <2>2, <3>0, <3>5, <3>6, BinAttachToGrafts
    <3> HIDE DEF over
    <3>9. /\ over \in Tree
          /\ \A x \in Name : over.father[x] = IF x = save THEN f ELSE c.father[x]
          /\ \A x \in Name, s \in BOOLEAN : over.child[x][s] = IF x = f /\ s = pos THEN save ELSE c.child[x][s]
          /\ \A x \in Name : IsInjective(over.kids[x])
          /\ \A x \in Name : Kids(over, x) = IF x = f THEN Kids(c, x) \cup {save} ELSE Kids(c, x)
      <4>1. Grafted(c, save, f, pos, over)
        BY <1>1, <3>0, <3>5, <3>7, <3>8, GraftLinks
      <4> QED BY <4>1 DEF Grafted
    <3>10. \A x \in Name : over.father[x] = IF x = save THEN f ELSE up.father[x]
      BY <3>5, <3>9
    <3>11. \A x \in Name, s \in BOOLEAN :
             over.child[x][s] = IF x = f /\ s = pos THEN save
                                ELSE IF x = n /\ s = neg THEN NoPeer ELSE up.child[x][s]
      BY <3>5, <3>9
    <3>12. \A x \in Name : Kids(over, x) = IF x = n THEN Kids(up, n) \ {save}
                                           ELSE IF x = f THEN Gains(Kids(up, f), save)
                                           ELSE Kids(up, x)
      BY <1>1, <2>2, <3>5, <3>9 DEF Gains
    <3> QED BY <3>9, <3>10, <3>11, <3>12
  <2> QED BY <2>1, <2>2
<1> HIDE DEF over
<1>o1. over \in Tree /\ \A x \in Name : IsInjective(over.kids[x])
  BY <1>o
<1>o2. \A x \in Name : over.father[x] = IF x = save THEN f ELSE IF x = n THEN g
                                        ELSE IF x = f THEN NoPeer ELSE tr.father[x]
  BY <1>o, <1>u2
<1>o3. \A x \in Name, s \in BOOLEAN :
         over.child[x][s] = IF x = f /\ s = pos THEN save
                            ELSE IF x = n /\ s = neg THEN NoPeer
                            ELSE IF x = g /\ s = fpos THEN n ELSE tr.child[x][s]
  BY <1>o, <1>u3
<1>o4. /\ Kids(over, n) = Kids(tr, n) \ {save}
       /\ Kids(over, f) = Gains(Kids(tr, f) \ {n}, save)
       /\ Kids(over, g) = (Kids(tr, g) \ {f}) \cup {n}
       /\ \A x \in Name : x # f /\ x # g /\ x # n => Kids(over, x) = Kids(tr, x)
  BY <1>1, <1>3, <1>4, <1>o, <1>u4
\* f comes to n.
<1>r. /\ R \in Tree
      /\ \A x \in Name : R.father[x] = IF x = f THEN n ELSE over.father[x]
      /\ \A x \in Name, s \in BOOLEAN : R.child[x][s] = IF x = n /\ s = neg THEN f ELSE over.child[x][s]
      /\ \A x \in Name : IsInjective(R.kids[x])
      /\ \A x \in Name : Kids(R, x) = IF x = n THEN Kids(over, x) \cup {f} ELSE Kids(over, x)
  <2>1. over.father[f] = NoPeer
    BY <1>0, <1>1, <1>5, <1>o2
  <2>2. over.child[n][neg] = NoPeer
    BY <1>1, <1>2, <1>o3
  <2>3. f \notin Kids(over, n)
    BY <1>6, <1>o4
  <2>4. R = Graft(over, f, n, neg)
    BY <1>1, <1>2, <1>o1, <2>1, <2>2, BinAttachToGrafts
  <2> HIDE DEF R
  <2>5. Grafted(over, f, n, neg, R)
    BY <1>1, <1>2, <1>o1, <2>3, <2>4, GraftLinks
  <2> QED BY <2>5 DEF Grafted
<1>7. TreapRoateUp(tr, n) = R
  <2>1. tr.father[n] # NoPeer /\ tr.father[tr.father[n]] # NoPeer
    BY <1>0, <1>1, <1>3 DEF f, g
  <2>2. up.child[n][~IsRight(tr, n)] = save
    BY <1>u5 DEF pos, neg
  <2>3. TreapRoateUp(tr, n) =
          LET sv == up.child[n][~IsRight(tr, n)]
              ov == IF sv = NoPeer THEN up ELSE BinAttachTo(BinDisattach(up, sv), sv, f, pos)
          IN  BinAttachTo(ov, f, n, neg)
    BY <2>1, Zenon DEF TreapRoateUp, up, b, a, f, g, pos, neg, fpos
  <2> QED BY <2>2, <2>3, Zenon DEF over
<1> HIDE DEF R
<1>8. \A x \in Name : R.father[x] = IF x = n THEN g ELSE IF x = f THEN n
                                    ELSE IF x = save THEN f ELSE tr.father[x]
  BY <1>0, <1>1, <1>5, <1>o2, <1>r
<1>9. \A x \in Name, s \in BOOLEAN :
        R.child[x][s] = IF x = g /\ s = fpos THEN n
                        ELSE IF x = f /\ s = pos THEN save
                        ELSE IF x = n /\ s = neg THEN f ELSE tr.child[x][s]
  BY <1>1, <1>3, <1>4, <1>o3, <1>r
<1>10. \A x \in Name : Kids(R, x) = IF x = g THEN (Kids(tr, g) \ {f}) \cup {n}
                                    ELSE IF x = f THEN Gains(Kids(tr, f) \ {n}, save)
                                    ELSE IF x = n THEN (Kids(tr, n) \ {save}) \cup {f}
                                    ELSE Kids(tr, x)
  BY <1>1, <1>3, <1>4, <1>o4, <1>r
<1>11. R \in Tree /\ \A x \in Name : IsInjective(R.kids[x])
  BY <1>r
<1> QED BY <1>7, <1>8, <1>9, <1>10, <1>11, Zenon DEF Rotated, f, g, pos, neg, fpos, save

------------------------------------------------------------------------------
(* What the nodes stand for after a rotation: n for what f stood for, f for *)
(* what is on its side of n.                                                *)

Turned(tr, n, iv) ==
  [iv EXCEPT ![n] = iv[tr.father[n]],
             ![tr.father[n]] = Side(iv[tr.father[n]], n, ~IsRight(tr, n))]

LEMMA SidesTurned ==
  ASSUME NEW I \in SUBSET Int, NEW f \in I, NEW n \in I, n # f,
         NEW pos \in BOOLEAN, pos <=> n > f, NEW neg \in BOOLEAN, neg <=> ~pos
  PROVE  /\ Side(Side(I, f, pos), n, neg) = Side(Side(I, n, neg), f, pos)
         /\ Side(Side(I, f, pos), n, pos) = Side(I, n, pos)
         /\ Side(Side(I, n, neg), f, neg) = Side(I, f, neg)
<1>0. /\ \A x \in I : x # n /\ ((x > n) = pos) => x # f /\ ((x > f) = pos)
      /\ \A x \in I : x # f /\ ((x > f) = neg) => x # n /\ ((x > n) = neg)
  <2>1. CASE pos
    <3>1. pos = TRUE /\ neg = FALSE /\ n > f
      BY <2>1
    <3>2. \A x \in I : x > n => x > f /\ x # f
      BY <3>1
    <3>3. \A x \in I : x # f /\ ~(x > f) => x # n /\ ~(x > n)
      BY <3>1
    <3>4. ASSUME NEW x \in I, x # n, (x > n) = pos
          PROVE  x # f /\ ((x > f) = pos)
      <4>1. x > n
        BY <3>1, <3>4
      <4>2. x > f /\ x # f
        BY <3>2, <4>1
      <4> QED BY <3>1, <4>2
    <3>5. ASSUME NEW x \in I, x # f, (x > f) = neg
          PROVE  x # n /\ ((x > n) = neg)
      <4>1. ~(x > f)
        BY <3>1, <3>5
      <4>2. ~(x > n) /\ x # n
        BY <3>3, <3>5, <4>1
      <4> QED BY <3>1, <4>2
    <3> QED BY <3>4, <3>5
  <2>2. CASE ~pos
    BY <2>2
  <2> QED BY <2>1, <2>2
<1>1. Side(Side(I, f, pos), n, neg) = Side(Side(I, n, neg), f, pos)
  BY DEF Side
<1>2. Side(Side(I, f, pos), n, pos) = Side(I, n, pos)
  BY <1>0 DEF Side
<1>3. Side(Side(I, n, neg), f, neg) = Side(I, f, neg)
  BY <1>0 DEF Side
<1> QED BY <1>1, <1>2, <1>3

LEMMA ApartTurned ==
  ASSUME NEW I \in SUBSET Int, NEW f \in I, NEW n \in I, n # f,
         NEW pos \in BOOLEAN, pos <=> n > f, NEW neg \in BOOLEAN, neg <=> ~pos,
         NEW J \in SUBSET Int, NEW z \in J, z # f, z # n,
         Apart(I, f, J, z), Apart(Side(I, f, pos), n, J, z)
  PROVE  Apart(I, n, J, z) /\ Apart(Side(I, n, neg), f, J, z)
<1>0. \A x \in I : x # f /\ ((x > f) = neg) => x # n /\ ((x > n) = neg)
  <2>1. CASE pos
    BY <2>1
  <2>2. CASE ~pos
    BY <2>2
  <2> QED BY <2>1, <2>2
<1>1. CASE I \cap J = {}
  BY <1>1 DEF Apart, Side
<1>2. CASE I \subseteq Side(J, z, f > z)
  <2>1. (n > z) = (f > z)
    BY <1>2 DEF Side
  <2>2. Side(I, n, neg) \subseteq I
    BY DEF Side
  <2> QED BY <1>2, <2>1, <2>2 DEF Apart
<1>3. CASE J \subseteq Side(I, f, z > f)
  <2>1. z \in I /\ J \subseteq I /\ \A x \in J : x # f /\ (x > f) = (z > f)
    BY <1>3 DEF Side
  <2>2. CASE (z > f) = neg
    <3>1. \A x \in J : (x > n) = neg /\ x # n
      BY <1>0, <2>1, <2>2
    <3>2. J \subseteq Side(I, n, z > n) /\ J \subseteq Side(Side(I, n, neg), f, z > f)
      BY <2>1, <3>1 DEF Side
    <3> QED BY <3>2 DEF Apart
  <2>3. CASE (z > f) = pos
    <3>1. z \in Side(I, f, pos)
      BY <2>1, <2>3 DEF Side
    <3>2. J \subseteq Side(Side(I, f, pos), n, z > n)
      <4>1. Side(I, f, pos) \cap J # {}
        BY <3>1
      <4>2. ~(Side(I, f, pos) \subseteq Side(J, z, n > z))
        BY <3>1 DEF Side
      <4> QED BY <4>1, <4>2 DEF Apart
    <3>3. J \subseteq Side(I, n, z > n)
      BY <3>2 DEF Side
    <3>4. CASE (z > n) = neg
      <4>1. J \subseteq Side(Side(I, n, neg), f, z > f)
        BY <2>1, <3>3, <3>4 DEF Side
      <4> QED BY <3>3, <4>1 DEF Apart
    <3>5. CASE (z > n) # neg
      <4>1. Side(I, n, neg) \cap J = {}
        BY <3>3, <3>5 DEF Side
      <4> QED BY <3>3, <4>1 DEF Apart
    <3> QED BY <3>4, <3>5
  <2> QED BY <2>2, <2>3
<1> QED BY <1>1, <1>2, <1>3 DEF Apart

\* A rotation leaves a search tree of the same nodes.
LEMMA RotationKeepsTree ==
  ASSUME NEW tr, NEW T, NEW iv, IsTree(tr, T, iv), NEW n \in T, n # Root, tr.father[n] # Root
  PROVE  IsTree(TreapRoateUp(tr, n), T, Turned(tr, n, iv))
<1> DEFINE f == tr.father[n]
           g == tr.father[f]
           pos == IsRight(tr, n)
           neg == ~pos
           fpos == IsRight(tr, f)
           save == tr.child[n][neg]
           R == TreapRoateUp(tr, n)
           jv == Turned(tr, n, iv)
           I == iv[f]
<1>0. /\ NoPeer \notin Name /\ tr \in Tree /\ T \subseteq Name /\ Name \subseteq Int
      /\ Root \in T /\ tr.father[Root] = NoPeer /\ iv \in [Name -> SUBSET Name] /\ iv[Root] = Name
  BY TreapAssumption DEF IsTree, Shape
<1>1. /\ n \in Name /\ f \in T /\ f \in Name /\ f # n /\ pos \in BOOLEAN /\ tr.child[f][pos] = n
      /\ tr.child[f][neg] # n /\ iv[n] = Side(I, f, pos)
  BY Family
<1>2. neg \in BOOLEAN /\ neg # pos /\ \A s \in BOOLEAN : s = neg \/ s = pos
  <2> HIDE DEF pos
  <2> QED BY <1>1
<1>3. /\ g \in T /\ g \in Name /\ g # f /\ fpos \in BOOLEAN /\ tr.child[g][fpos] = f
      /\ tr.child[g][~fpos] # f /\ iv[f] = Side(iv[g], g, fpos)
  BY <1>1, Family
<1>4. g # n /\ n \in I
  BY ThreeInLine
<1>5. pos <=> n > f
  <2>1. n \in iv[n]
    BY DEF IsTree, Shape
  <2> HIDE DEF pos, f
  <2> QED BY <1>1, <2>1 DEF Side
<1>6. neg <=> ~pos
  OBVIOUS
<1>7. I \in SUBSET Int /\ f \in I /\ I \in SUBSET Name
  <2>1. f \in iv[f]
    BY <1>1 DEF IsTree, Shape
  <2> QED BY <1>0, <1>1, <2>1
<1>8. /\ Side(Side(I, f, pos), n, neg) = Side(Side(I, n, neg), f, pos)
      /\ Side(Side(I, f, pos), n, pos) = Side(I, n, pos)
      /\ Side(Side(I, n, neg), f, neg) = Side(I, f, neg)
  <2> HIDE DEF I, pos, neg, f
  <2> QED BY <1>1, <1>2, <1>4, <1>5, <1>6, <1>7, SidesTurned
<1>9. /\ jv \in [Name -> SUBSET Name] /\ jv[n] = I /\ jv[f] = Side(I, n, neg)
      /\ \A x \in Name : x # n /\ x # f => jv[x] = iv[x]
  <2>1. Side(I, n, neg) \in SUBSET Name
    BY <1>7 DEF Side
  <2> HIDE DEF I, pos
  <2> QED BY <1>0, <1>1, <1>7, <2>1 DEF Turned, I, pos
<1>10. Rotated(tr, n, R)
  BY RotationLinks
<1>11. R \in Tree /\ \A x \in Name : IsInjective(R.kids[x])
  BY <1>10 DEF Rotated
<1>12. \A x \in Name : R.father[x] = IF x = n THEN g ELSE IF x = f THEN n
                                     ELSE IF x = save THEN f ELSE tr.father[x]
  BY <1>10 DEF Rotated
<1>13. \A x \in Name, s \in BOOLEAN :
         R.child[x][s] = IF x = g /\ s = fpos THEN n
                         ELSE IF x = f /\ s = pos THEN save
                         ELSE IF x = n /\ s = neg THEN f ELSE tr.child[x][s]
  BY <1>10 DEF Rotated
<1>14. \A x \in Name : Kids(R, x) = IF x = g THEN (Kids(tr, g) \ {f}) \cup {n}
                                    ELSE IF x = f THEN Gains(Kids(tr, f) \ {n}, save)
                                    ELSE IF x = n THEN (Kids(tr, n) \ {save}) \cup {f}
                                    ELSE Kids(tr, x)
  BY <1>10 DEF Rotated
\* The children before.
<1>15. \A m \in T, s \in BOOLEAN : tr.child[m][s] # NoPeer =>
          /\ tr.child[m][s] \in T /\ tr.father[tr.child[m][s]] = m
          /\ iv[tr.child[m][s]] = Side(iv[m], m, s)
  BY DEF IsTree, Shape
<1>16. save # NoPeer => /\ save \in T /\ save \in Name /\ save # n /\ tr.father[save] = n
                        /\ save # Root /\ save # f /\ save # g
                        /\ iv[save] = Side(iv[n], n, neg)
  <2> SUFFICES ASSUME save # NoPeer
               PROVE  /\ save \in T /\ save \in Name /\ save # n /\ tr.father[save] = n
                      /\ save # Root /\ save # f /\ save # g
                      /\ iv[save] = Side(iv[n], n, neg)
    OBVIOUS
  <2>0. \A s \in BOOLEAN : tr.child[n][s] # NoPeer =>
          /\ tr.child[n][s] \in T /\ tr.child[n][s] \in Name /\ tr.child[n][s] # n
          /\ tr.father[tr.child[n][s]] = n /\ tr.child[n][s] # Root
          /\ iv[tr.child[n][s]] = Side(iv[n], n, s) /\ tr.child[n][s] \in iv[n]
    BY Child
  <2>1. /\ save \in T /\ save \in Name /\ save # n /\ tr.father[save] = n
        /\ save # Root /\ iv[save] = Side(iv[n], n, neg) /\ save \in iv[n]
    <3> HIDE DEF neg
    <3> QED BY <1>2, <2>0
  <2>2. save # f
    BY <1>1, <2>1 DEF Side
  <2>3. save # g
    <3> HIDE DEF save, neg, pos, fpos
    <3> QED BY <1>1, <1>3, <2>1 DEF Side
  <2> QED BY <2>1, <2>2, <2>3
<1>17. tr.child[n][pos] # NoPeer => tr.child[n][pos] # save
  <2> SUFFICES ASSUME tr.child[n][pos] # NoPeer, tr.child[n][pos] = save
               PROVE  FALSE
    OBVIOUS
  <2>1. \A s \in BOOLEAN : tr.child[n][s] # NoPeer => (tr.child[n][s] > n) = s
    BY Child
  <2> HIDE DEF pos, neg
  <2>2. (tr.child[n][pos] > n) = pos /\ (tr.child[n][neg] > n) = neg
    BY <1>1, <1>2, <2>1
  <2> QED BY <1>2, <2>2
<1> HIDE DEF f, g, pos, neg, fpos, save, R, jv, I
<1>18. Shape(R, T, jv)
  <2>1. R.father[Root] = NoPeer /\ jv[Root] = Name
    <3>1. Root # f /\ Root # n
      BY DEF f
    <3>2. Root # save
      BY <1>0, <1>16
    <3> QED BY <1>0, <1>9, <1>12, <3>1, <3>2
  <2>2. ASSUME NEW m \in T
        PROVE  m \in jv[m]
    <3>1. m \in iv[m]
      BY DEF IsTree, Shape
    <3>2. f \in jv[f]
      BY <1>1, <1>2, <1>5, <1>6, <1>7, <1>9, <1>4 DEF Side
    <3> QED BY <1>0, <1>4, <1>9, <3>1, <3>2
  <2>3. ASSUME NEW m \in T, NEW s \in BOOLEAN, R.child[m][s] # NoPeer
        PROVE  /\ R.child[m][s] \in T /\ R.father[R.child[m][s]] = m
               /\ jv[R.child[m][s]] = Side(jv[m], m, s)
    <3>1. CASE m = g /\ s = fpos
      <4>1. R.child[m][s] = n /\ R.father[n] = g
        BY <1>1, <1>3, <1>12, <1>13, <3>1
      <4>2. jv[n] = Side(jv[g], g, fpos)
        BY <1>3, <1>4, <1>9 DEF I
      <4> QED BY <3>1, <4>1, <4>2
    <3>2. CASE m = f /\ s = pos
      <4>1. R.child[m][s] = save
        BY <1>1, <1>3, <1>13, <3>2
      <4>2. save \in T /\ save \in Name /\ save # n /\ save # f /\ iv[save] = Side(iv[n], n, neg)
        BY <1>16, <2>3, <4>1
      <4>3. R.father[save] = f
        BY <1>12, <4>2
      <4>4. jv[save] = Side(jv[f], f, pos)
        BY <1>1, <1>8, <1>9, <4>2
      <4> QED BY <3>2, <4>1, <4>2, <4>3, <4>4
    <3>3. CASE m = n /\ s = neg
      <4>1. R.child[m][s] = f /\ R.father[f] = n
        BY <1>1, <1>4, <1>12, <1>13, <3>3
      <4>2. jv[f] = Side(jv[n], n, neg)
        BY <1>9
      <4> QED BY <1>1, <3>3, <4>1, <4>2
    <3>4. CASE ~(m = g /\ s = fpos) /\ ~(m = f /\ s = pos) /\ ~(m = n /\ s = neg)
      <4> DEFINE c == tr.child[m][s]
      <4>1. R.child[m][s] = c
        BY <1>0, <1>13, <3>4
      <4>2. c \in T /\ c \in Name /\ tr.father[c] = m /\ iv[c] = Side(iv[m], m, s)
        BY <1>0, <1>15, <2>3, <4>1
      <4>3. c # n
        <5> SUFFICES ASSUME c = n
                     PROVE  FALSE
          OBVIOUS
        <5>1. m = f
          BY <4>2 DEF f
        <5>2. s = neg
          BY <1>2, <3>4, <5>1
        <5> QED BY <1>1, <5>1, <5>2
      <4>4. c # f
        <5> SUFFICES ASSUME c = f
                     PROVE  FALSE
          OBVIOUS
        <5>1. m = g
          BY <4>2 DEF g
        <5>2. s = ~fpos
          BY <1>3, <3>4, <5>1
        <5> QED BY <1>3, <5>1, <5>2
      <4>5. c # save
        <5> SUFFICES ASSUME c = save
                     PROVE  FALSE
          OBVIOUS
        <5>1. m = n
          BY <1>0, <1>16, <4>2
        <5>2. s = pos
          BY <1>2, <3>4, <5>1
        <5> QED BY <1>0, <1>17, <4>2, <5>1, <5>2
      <4>6. R.father[c] = m /\ jv[c] = Side(iv[m], m, s)
        BY <1>9, <1>12, <4>2, <4>3, <4>4, <4>5
      <4>7. Side(iv[m], m, s) = Side(jv[m], m, s)
        <5>1. CASE m = n
          BY <1>1, <1>2, <1>8, <1>9, <3>4, <5>1
        <5>2. CASE m = f
          BY <1>1, <1>2, <1>8, <1>9, <3>4, <5>2 DEF I
        <5>3. CASE m # n /\ m # f
          BY <1>0, <1>9, <5>3
        <5> QED BY <5>1, <5>2, <5>3
      <4> HIDE DEF c
      <4> QED BY <4>1, <4>2, <4>6, <4>7
    <3> QED BY <3>1, <3>2, <3>3, <3>4
  <2>4. ASSUME NEW m \in T, m # Root
        PROVE  R.father[m] \in T /\ \E s \in BOOLEAN : R.child[R.father[m]][s] = m
    <3>1. CASE m = n
      <4>1. R.father[m] = g /\ R.child[g][fpos] = m
        BY <1>1, <1>3, <1>12, <1>13, <3>1
      <4> QED BY <1>3, <4>1
    <3>2. CASE m = f
      <4>1. R.father[m] = n /\ R.child[n][neg] = m
        BY <1>1, <1>2, <1>4, <1>12, <1>13, <3>2
      <4> QED BY <1>2, <4>1
    <3>3. CASE m = save
      <4>1. R.father[m] = f /\ R.child[f][pos] = m
        BY <1>0, <1>1, <1>3, <1>12, <1>13, <1>16, <3>3
      <4> QED BY <1>1, <4>1
    <3>4. CASE m # n /\ m # f /\ m # save
      <4>1. R.father[m] = tr.father[m]
        BY <1>0, <1>12, <3>4
      <4>2. tr.father[m] \in T /\ \E s \in BOOLEAN : tr.child[tr.father[m]][s] = m
        BY <2>4 DEF IsTree, Shape
      <4>3. PICK s \in BOOLEAN : tr.child[tr.father[m]][s] = m
        BY <4>2
      <4>4. ~(tr.father[m] = g /\ s = fpos)
        BY <1>3, <3>4, <4>3
      <4>5. ~(tr.father[m] = f /\ s = pos)
        BY <1>1, <3>4, <4>3
      <4>6. ~(tr.father[m] = n /\ s = neg)
        BY <3>4, <4>3 DEF save
      <4>7. R.child[tr.father[m]][s] = m
        BY <1>0, <1>13, <4>2, <4>3, <4>4, <4>5, <4>6
      <4> QED BY <4>1, <4>2, <4>7
    <3> QED BY <3>1, <3>2, <3>3, <3>4
  <2>5. ASSUME NEW m \in Name \ T
        PROVE  R.father[m] = NoPeer /\ \A s \in BOOLEAN : R.child[m][s] = NoPeer
    <3>1. tr.father[m] = NoPeer /\ \A s \in BOOLEAN : tr.child[m][s] = NoPeer
      BY DEF IsTree, Shape
    <3>2. m # n /\ m # f /\ m # g
      BY <1>1, <1>3
    <3>3. m # save
      BY <1>0, <1>16
    <3> QED BY <1>12, <1>13, <3>1, <3>2, <3>3
  <2> QED BY <1>0, <1>9, <2>1, <2>2, <2>3, <2>4, <2>5 DEF Shape
<1>19. Covers(R, T, jv)
  <2> SUFFICES ASSUME NEW m \in T, NEW x \in T, x \in jv[m], x # m
               PROVE  R.child[m][x > m] # NoPeer
    BY DEF Covers
  <2>0. \A y \in T : x \in iv[y] /\ x # y => tr.child[y][x > y] # NoPeer
    BY DEF IsTree, Covers
  <2>a. (x > m) \in BOOLEAN /\ m \in Name /\ x \in Int /\ m \in Int
    BY <1>0
  <2>1. CASE m # n /\ m # f
    <3>1. tr.child[m][x > m] # NoPeer
      BY <1>0, <1>9, <2>0, <2>1
    <3> QED BY <1>0, <1>1, <1>13, <2>1, <2>a, <3>1
  <2>2. CASE m = n
    <3>1. CASE (x > m) = neg
      <4>1. R.child[m][neg] = f
        BY <1>1, <1>2, <1>4, <1>13, <2>2
      <4> QED BY <1>0, <1>1, <3>1, <4>1
    <3>2. CASE (x > m) = pos
      <4>1. x \in Side(I, n, pos)
        BY <1>9, <2>2, <3>2 DEF Side
      <4>2. x \in iv[n]
        BY <1>1, <1>8, <4>1 DEF Side
      <4>3. tr.child[n][pos] # NoPeer
        BY <2>0, <2>2, <3>2, <4>2
      <4>4. R.child[m][pos] = tr.child[n][pos]
        BY <1>1, <1>2, <1>4, <1>13, <2>2
      <4> QED BY <3>2, <4>3, <4>4
    <3> QED BY <1>2, <2>a, <3>1, <3>2
  <2>3. CASE m = f
    <3>0. x \in I /\ x # n /\ ((x > n) = neg)
      BY <1>9, <2>3 DEF Side
    <3>1. CASE (x > m) = neg
      <4>1. tr.child[f][neg] # NoPeer
        BY <2>0, <2>3, <3>0, <3>1, <1>1 DEF I
      <4>2. R.child[m][neg] = tr.child[f][neg]
        BY <1>1, <1>2, <1>3, <1>13, <2>3
      <4> QED BY <3>1, <4>1, <4>2
    <3>2. CASE (x > m) = pos
      <4>1. x \in iv[n]
        BY <1>1, <2>3, <3>0, <3>2 DEF Side
      <4>2. tr.child[n][x > n] # NoPeer
        BY <2>0, <3>0, <4>1
      <4>3. save # NoPeer
        BY <3>0, <4>2 DEF save
      <4>4. R.child[m][pos] = save
        BY <1>1, <1>3, <1>13, <2>3
      <4> QED BY <3>2, <4>3, <4>4
    <3> QED BY <1>2, <2>a, <3>1, <3>2
  <2> QED BY <2>1, <2>2, <2>3
<1>20. Nested(T, jv)
  <2>0. \A y, z \in T : y # z => Apart(iv[y], y, iv[z], z)
    BY DEF IsTree, Nested
  <2>1. Apart(jv[n], n, jv[f], f)
    <3>1. (f > n) = neg
      <4>1. f \in Int /\ n \in Int
        BY <1>0, <1>1
      <4>2. (f > n) <=> neg
        BY <1>1, <1>5, <1>6, <4>1
      <4> QED BY <1>2, <4>2
    <3> QED BY <1>9, <3>1 DEF Apart
  <2>2. ASSUME NEW z \in T, z # n, z # f
        PROVE  Apart(jv[n], n, jv[z], z) /\ Apart(jv[f], f, jv[z], z)
    <3>1. jv[z] = iv[z] /\ iv[z] \in SUBSET Int /\ z \in iv[z]
      <4>1. z \in iv[z]
        BY DEF IsTree, Shape
      <4> QED BY <1>0, <1>9, <2>2, <4>1
    <3>2. Apart(I, f, iv[z], z) /\ Apart(Side(I, f, pos), n, iv[z], z)
      BY <1>1, <2>0, <2>2 DEF I
    <3>3. Apart(I, n, iv[z], z) /\ Apart(Side(I, n, neg), f, iv[z], z)
      BY <1>1, <1>2, <1>4, <1>5, <1>6, <1>7, <2>2, <3>1, <3>2, ApartTurned
    <3> QED BY <1>9, <3>1, <3>3
  <2>3. ASSUME NEW y \in T, NEW z \in T, y # z, y # n, y # f, z # n, z # f
        PROVE  Apart(jv[y], y, jv[z], z)
    BY <1>0, <1>9, <2>0, <2>3
  <2>4. \A J, z, K, y : Apart(J, z, K, y) <=> Apart(K, y, J, z)
    BY DEF Apart
  <2> QED
    <3> SUFFICES ASSUME NEW y \in T, NEW z \in T, y # z
                 PROVE  Apart(jv[y], y, jv[z], z)
      BY DEF Nested
    <3> QED BY <2>1, <2>2, <2>3, <2>4
<1>21. Branches(R)
  <2>0. \A m, c \in Name : c \in Kids(tr, m) <=> \E s \in BOOLEAN : tr.child[m][s] = c
    BY DEF IsTree, Branches
  <2>1. ASSUME NEW m \in Name, NEW c \in Name
        PROVE  c \in Kids(R, m) <=> \E s \in BOOLEAN : R.child[m][s] = c
    <3>1. CASE m = g
      <4>1. R.child[g][fpos] = n /\ R.child[g][~fpos] = tr.child[g][~fpos]
        BY <1>3, <1>4, <1>13
      <4>2. c \in Kids(R, m) <=> c = n \/ (c # f /\ c \in Kids(tr, g))
        BY <1>14, <3>1
      <4>3. \A s \in BOOLEAN : s = fpos \/ s = ~fpos
        BY <1>3
      <4> QED BY <1>3, <2>0, <3>1, <4>1, <4>2, <4>3
    <3>2. CASE m = f
      <4>1. R.child[f][pos] = save /\ R.child[f][neg] = tr.child[f][neg]
        BY <1>1, <1>2, <1>3, <1>13
      <4>2. c \in Kids(R, m) <=> c = save \/ (c # n /\ c \in Kids(tr, f))
        BY <1>0, <1>3, <1>14, <3>2 DEF Gains
      <4> QED BY <1>1, <1>2, <2>0, <3>2, <4>1, <4>2
    <3>3. CASE m = n
      <4>1. R.child[n][pos] = tr.child[n][pos] /\ R.child[n][neg] = f
        BY <1>1, <1>2, <1>4, <1>13
      <4>2. c \in Kids(R, m) <=> c = f \/ (c # save /\ c \in Kids(tr, n))
        BY <1>1, <1>4, <1>14, <3>3
      <4>3. tr.child[n][neg] = save
        BY DEF save
      <4> QED BY <1>0, <1>1, <1>2, <1>17, <2>0, <3>3, <4>1, <4>2, <4>3
    <3>4. CASE m # g /\ m # f /\ m # n
      <4>1. \A s \in BOOLEAN : R.child[m][s] = tr.child[m][s]
        BY <1>13, <3>4
      <4> QED BY <1>14, <2>0, <3>4, <4>1
    <3> QED BY <3>1, <3>2, <3>3, <3>4
  <2> QED BY <1>11, <2>1 DEF Branches
<1> QED BY <1>11, <1>18, <1>19, <1>20, <1>21 DEF IsTree, R, jv

------------------------------------------------------------------------------
(* The walk down: what the node stands for gets smaller.                    *)

LEMMA NameSize ==
  /\ Cardinality(Name) \in Nat
  /\ \A I \in SUBSET Name : IsFiniteSet(I) /\ Cardinality(I) \in Nat
                            /\ Cardinality(I) <= Cardinality(Name)
BY TreapAssumption, FS_CardinalityType, FS_Subset

LEMMA SideSize ==
  ASSUME NEW I \in SUBSET Name, NEW m \in I, NEW r
  PROVE  Cardinality(Side(I, m, r)) < Cardinality(I)
<1>1. IsFiniteSet(I) /\ Side(I, m, r) \in SUBSET I /\ Side(I, m, r) # I
  BY NameSize DEF Side
<1> QED BY <1>1, NameSize, FS_Subset

\* Where a walk for n can be.
On(T, iv, n) == {m \in T : n \in iv[m]}

LEMMA DeeperStays ==
  ASSUME NEW tr, NEW T, NEW iv, IsTree(tr, T, iv), NEW n \in Name,
         NEW m \in On(T, iv, n), m # n
  PROVE  /\ Deeper(tr, n, m) \in On(T, iv, n)
         /\ \/ tr.child[m][n > m] = NoPeer /\ Deeper(tr, n, m) = m
            \/ Cardinality(iv[Deeper(tr, n, m)]) < Cardinality(iv[m])
<1> DEFINE c == tr.child[m][n > m]
<1>1. m \in T /\ n \in iv[m] /\ (n > m) \in BOOLEAN /\ m \in iv[m]
  BY DEF On, IsTree, Shape
<1>2. CASE c = NoPeer
  BY <1>1, <1>2 DEF Deeper
<1>3. CASE c # NoPeer
  <2>1. Deeper(tr, n, m) = c
    BY <1>3 DEF Deeper
  <2>2. c \in T /\ iv[c] = Side(iv[m], m, n > m)
    BY <1>1, <1>3 DEF IsTree, Shape
  <2>3. n \in iv[c]
    BY <1>1, <2>2 DEF Side
  <2>4. iv[m] \in SUBSET Name
    BY <1>1 DEF IsTree, Shape
  <2>5. Cardinality(iv[c]) < Cardinality(iv[m])
    BY <1>1, <2>2, <2>4, SideSize
  <2> HIDE DEF c
  <2> QED BY <2>1, <2>2, <2>3, <2>5 DEF On
<1> QED BY <1>2, <1>3

\* A round of a walk for n.
Walks(tr, T, iv, n) ==
  [m \in On(T, iv, n) |-> IF m = n THEN m ELSE Deeper(tr, n, m)]

LEMMA WalkStays ==
  ASSUME NEW tr, NEW T, NEW iv, IsTree(tr, T, iv), NEW n \in Name
  PROVE  Walks(tr, T, iv, n) \in [On(T, iv, n) -> On(T, iv, n)] /\ Root \in On(T, iv, n)
<1>1. \A m \in On(T, iv, n) : m # n => Deeper(tr, n, m) \in On(T, iv, n)
  BY DeeperStays
<1>2. Root \in On(T, iv, n)
  BY DEF On, IsTree, Shape
<1> QED BY <1>1, <1>2 DEF Walks

\* A walk for n ends, at n or where it would be.
LEMMA WalkEnds ==
  ASSUME NEW tr, NEW T, NEW iv, IsTree(tr, T, iv), NEW n \in Name, NEW w, w[0] = Root,
         \A k \in 1..Cardinality(Name) :
            w[k - 1] \in On(T, iv, n) => w[k] = Walks(tr, T, iv, n)[w[k - 1]],
         NEW end, end = w[Cardinality(Name)]
  PROVE  /\ end \in T /\ end \in Name /\ n \in iv[end]
         /\ end = n \/ tr.child[end][n > end] = NoPeer
<1> DEFINE S == On(T, iv, n)
           step == Walks(tr, T, iv, n)
           N == Cardinality(Name)
           Enough == {p \in S \X Nat : Cardinality(iv[p[1]]) <= p[2]}
<1>1. N \in Nat /\ Root \in S /\ step \in [S -> S] /\ S \subseteq T /\ T \subseteq Name
  <2>1. S \subseteq T /\ T \subseteq Name
    BY DEF On, IsTree, Shape
  <2> QED BY <2>1, NameSize, WalkStays
<1>2. \A m \in S : iv[m] \in SUBSET Name /\ Cardinality(iv[m]) \in Nat /\ Cardinality(iv[m]) <= N
  BY <1>1, NameSize DEF IsTree, Shape
<1>3. <<Root, N>> \in Enough
  BY <1>1, <1>2
<1>4. ASSUME NEW m \in S, NEW k \in Nat, <<m, k>> \in Enough
      PROVE  step[m] = m \/ (k # 0 /\ <<step[m], k - 1>> \in Enough)
  <2>1. CASE m = n
    BY <2>1 DEF Walks
  <2>2. CASE m # n
    <3>1. step[m] = Deeper(tr, n, m) /\ step[m] \in S
      BY <1>1, <2>2 DEF Walks
    <3>2. step[m] = m \/ Cardinality(iv[step[m]]) < Cardinality(iv[m])
      BY <2>2, <3>1, DeeperStays
    <3>3. Cardinality(iv[m]) <= k
      BY <1>4
    <3> HIDE DEF step, S
    <3>4. Cardinality(iv[step[m]]) < Cardinality(iv[m]) => k # 0 /\ Cardinality(iv[step[m]]) <= k - 1
      BY <1>2, <3>1, <3>3
    <3>5. k # 0 => k - 1 \in Nat
      OBVIOUS
    <3> QED BY <3>1, <3>2, <3>4, <3>5
  <2> QED BY <2>1, <2>2
<1>5. w[N] \in S /\ step[w[N]] = w[N]
  <2> HIDE DEF S, step, Enough, N
  <2>1. \A k \in 1..N : w[k - 1] \in S => w[k] = step[w[k - 1]]
    BY DEF S, step, N
  <2> QED BY <1>1, <1>3, <1>4, <2>1, LoopEnds
<1>6. end \in S /\ end \in T /\ end \in Name /\ n \in iv[end]
  BY <1>1, <1>5 DEF On
<1>7. ASSUME end # n
      PROVE  tr.child[end][n > end] = NoPeer
  <2>1. Deeper(tr, n, end) = end
    BY <1>5, <1>6, <1>7 DEF Walks
  <2>2. iv[end] \in SUBSET Name /\ Cardinality(iv[end]) \in Nat
    BY <1>2, <1>6
  <2>3. ~(Cardinality(iv[end]) < Cardinality(iv[end]))
    BY <2>2
  <2> QED BY <1>6, <1>7, <2>1, <2>3, DeeperStays
<1> QED BY <1>6, <1>7

\* A name is found if and only if it is a node.
LEMMA BinTreeFinds ==
  ASSUME NEW tr, NEW T, NEW iv, IsTree(tr, T, iv), NEW n \in Name
  PROVE  BinTreeFind(tr, n, Root) = IF n \in T THEN n ELSE NoPeer
<1> DEFINE N == Cardinality(Name)
           S == On(T, iv, n)
           step == Walks(tr, T, iv, n)
           IsRun(w) == w = [k \in 0..N |-> IF k = 0 THEN Root
                              ELSE IF w[k - 1] = n THEN w[k - 1] ELSE Deeper(tr, n, w[k - 1])]
           run == CHOOSE w : IsRun(w)
<1>1. N \in Nat /\ Root \in S /\ step \in [S -> S]
  BY NameSize, WalkStays
<1>2. \E w : IsRun(w)
  <2>1. PICK w \in [0..N -> S] : w = [k \in 0..N |-> IF k = 0 THEN Root ELSE step[w[k - 1]]]
    <3> HIDE DEF N, S, step
    <3> QED BY <1>1, RoundsExist
  <2>2. \A k \in 0..N : w[k] = IF k = 0 THEN Root
                        ELSE IF w[k - 1] = n THEN w[k - 1] ELSE Deeper(tr, n, w[k - 1])
    <3>1. ASSUME NEW k \in 0..N, k # 0
          PROVE  w[k] = IF w[k - 1] = n THEN w[k - 1] ELSE Deeper(tr, n, w[k - 1])
      <4>1. k - 1 \in 0..N
        BY <1>1, <3>1
      <4>2. w[k - 1] \in S /\ w[k] = step[w[k - 1]]
        BY <2>1, <3>1, <4>1
      <4> QED BY <4>2 DEF Walks
    <3>2. w[0] = Root
      BY <1>1, <2>1
    <3> QED BY <3>1, <3>2
  <2>3. IsRun(w)
    BY <2>1, <2>2
  <2> QED BY <2>3
<1>3. IsRun(run)
  <2> HIDE DEF IsRun
  <2> QED BY <1>2
<1>4. Loop(LAMBDA m : IF m = n THEN m ELSE Deeper(tr, n, m), Root) = run[N]
  BY Zenon DEF Loop
<1> HIDE DEF run
<1>5. run[0] = Root /\ \A k \in 1..N : run[k - 1] \in S => run[k] = step[run[k - 1]]
  <2>1. run[0] = Root
    BY <1>1, <1>3
  <2>2. ASSUME NEW k \in 1..N, run[k - 1] \in S
        PROVE  run[k] = step[run[k - 1]]
    <3>1. run[k] = IF run[k - 1] = n THEN run[k - 1] ELSE Deeper(tr, n, run[k - 1])
      BY <1>1, <1>3
    <3> QED BY <2>2, <3>1 DEF Walks
  <2> QED BY <2>1, <2>2
<1> DEFINE end == run[N]
<1>6. end \in T /\ end \in Name /\ n \in iv[end] /\ (end = n \/ tr.child[end][n > end] = NoPeer)
  <2> HIDE DEF IsRun
  <2> QED BY <1>5, WalkEnds
<1>7. BinTreeFind(tr, n, Root) = IF end = n THEN n ELSE NoPeer
  BY <1>4 DEF BinTreeFind
<1> HIDE DEF end
<1>8. n \in T => end = n
  BY <1>6 DEF IsTree, Covers
<1> QED BY <1>6, <1>7, <1>8

------------------------------------------------------------------------------
(* A new leaf.                                                              *)

\* What n stands for when it has come to m's side s.
Joined(iv, n, m, s) == [iv EXCEPT ![n] = Side(iv[m], m, s)]

LEMMA LeafJoins ==
  ASSUME NEW tr, NEW T, NEW iv, IsTree(tr, T, iv), NEW n \in Name, n \notin T,
         NEW m \in T, NEW s \in BOOLEAN, s = (n > m),
         n \in iv[m], tr.child[m][s] = NoPeer,
         NEW J, J = Graft(tr, n, m, s)
  PROVE  IsTree(J, T \cup {n}, Joined(iv, n, m, s))
<1> DEFINE jv == Joined(iv, n, m, s)
<1>0. /\ NoPeer \notin Name /\ tr \in Tree /\ T \subseteq Name /\ Name \subseteq Int
      /\ Root \in T /\ tr.father[Root] = NoPeer /\ iv \in [Name -> SUBSET Name] /\ iv[Root] = Name
      /\ \A x \in Name : IsInjective(tr.kids[x])
  BY TreapAssumption DEF IsTree, Shape, Branches
<1>1. s \in BOOLEAN /\ m \in Name /\ n # m /\ n \in Int /\ m \in Int /\ m \in iv[m]
  <2>1. m \in iv[m]
    BY DEF IsTree, Shape
  <2>2. m \in Name /\ m \in Int /\ n \in Int
    BY <1>0
  <2> QED BY <2>1, <2>2
<1>2. tr.father[n] = NoPeer /\ \A r \in BOOLEAN : tr.child[n][r] = NoPeer
  BY DEF IsTree, Shape
<1>3. \A x, y \in Name : y \in Kids(tr, x) <=> \E r \in BOOLEAN : tr.child[x][r] = y
  BY DEF IsTree, Branches
<1>4. \A x \in T, r \in BOOLEAN : tr.child[x][r] # NoPeer =>
        /\ tr.child[x][r] \in T /\ tr.father[tr.child[x][r]] = x
        /\ iv[tr.child[x][r]] = Side(iv[x], x, r)
  BY DEF IsTree, Shape
<1>5. n \notin Kids(tr, m)
  BY <1>0, <1>1, <1>3, <1>4
<1>p. tr \in Tree /\ m \in Name /\ s \in BOOLEAN /\ \A x \in Name : IsInjective(tr.kids[x])
  BY <1>0, <1>1
<1>q. Grafted(tr, n, m, s, J)
  BY <1>p, <1>5, GraftLinks
<1>7. J \in Tree /\ \A x \in Name : IsInjective(J.kids[x])
  BY <1>q DEF Grafted
<1>a. \A x \in Name : J.father[x] = IF x = n THEN m ELSE tr.father[x]
  BY <1>q DEF Grafted
<1>b. \A x \in Name, r \in BOOLEAN :
        J.child[x][r] = IF x = m /\ r = s THEN n ELSE tr.child[x][r]
  BY <1>q DEF Grafted
<1>c. \A x \in Name : Kids(J, x) = IF x = m THEN Kids(tr, x) \cup {n} ELSE Kids(tr, x)
  BY <1>q DEF Grafted
<1>d. T \subseteq Name /\ NoPeer \notin Name
  BY <1>0
<1>9. /\ jv \in [Name -> SUBSET Name] /\ jv[n] = Side(iv[m], m, s)
      /\ \A x \in Name : x # n => jv[x] = iv[x]
  <2>1. Side(iv[m], m, s) \in SUBSET Name
    BY <1>0, <1>1 DEF Side
  <2> QED BY <1>0, <2>1 DEF Joined
<1> HIDE DEF jv
\* No one else is where n comes to.
<1>10. \A x \in T : x \notin Side(iv[m], m, s)
  BY DEF IsTree, Covers, Side
<1>11. n \in Side(iv[m], m, s)
  BY <1>1 DEF Side
<1>12. Shape(J, T \cup {n}, jv)
  <2>1. J.father[Root] = NoPeer /\ jv[Root] = Name
    BY <1>0, <1>7, <1>a, <1>b, <1>c, <1>9
  <2>2. \A x \in T \cup {n} : x \in jv[x]
    <3>1. \A x \in T : x \in iv[x]
      BY DEF IsTree, Shape
    <3> QED BY <1>0, <1>9, <1>11, <3>1
  <2>3. ASSUME NEW x \in T \cup {n}, NEW r \in BOOLEAN, J.child[x][r] # NoPeer
        PROVE  /\ J.child[x][r] \in T \cup {n} /\ J.father[J.child[x][r]] = x
               /\ jv[J.child[x][r]] = Side(jv[x], x, r)
    <3>1. CASE x = m /\ r = s
      BY <1>1, <1>a, <1>b, <1>9, <3>1
    <3>2. CASE ~(x = m /\ r = s)
      <4>1. J.child[x][r] = tr.child[x][r]
        BY <1>d, <1>b, <3>2
      <4>2. x \in T
        BY <1>2, <2>3, <4>1
      <4>3. /\ tr.child[x][r] \in T /\ tr.father[tr.child[x][r]] = x
            /\ iv[tr.child[x][r]] = Side(iv[x], x, r)
        BY <1>4, <2>3, <4>1, <4>2
      <4> DEFINE c == tr.child[x][r]
      <4> HIDE DEF c
      <4>4. c \in T /\ tr.father[c] = x /\ iv[c] = Side(iv[x], x, r) /\ c # n /\ x # n
        BY <4>2, <4>3 DEF c
      <4>5. J.father[c] = x /\ jv[c] = iv[c] /\ jv[x] = iv[x]
        BY <1>d, <1>a, <1>9, <4>2, <4>4
      <4> QED BY <4>1, <4>4, <4>5 DEF c
    <3> QED BY <3>1, <3>2
  <2>4. ASSUME NEW x \in T \cup {n}, x # Root
        PROVE  J.father[x] \in T \cup {n} /\ \E r \in BOOLEAN : J.child[J.father[x]][r] = x
    <3>1. CASE x = n
      <4>1. J.father[x] = m /\ J.child[m][s] = x
        BY <1>1, <1>7, <1>a, <1>b, <1>c, <3>1
      <4> QED BY <1>1, <4>1
    <3>2. CASE x # n
      <4>1. x \in T /\ J.father[x] = tr.father[x]
        BY <1>d, <1>a, <3>2
      <4>2. tr.father[x] \in T /\ \E r \in BOOLEAN : tr.child[tr.father[x]][r] = x
        BY <2>4, <4>1 DEF IsTree, Shape
      <4>3. PICK r \in BOOLEAN : tr.child[tr.father[x]][r] = x
        BY <4>2
      <4>4. ~(tr.father[x] = m /\ r = s)
        BY <1>d, <4>1, <4>3
      <4>5. J.child[tr.father[x]][r] = x
        BY <1>d, <1>b, <4>2, <4>3, <4>4
      <4> QED BY <4>1, <4>2, <4>5
    <3> QED BY <3>1, <3>2
  <2>5. ASSUME NEW x \in Name \ (T \cup {n})
        PROVE  J.father[x] = NoPeer /\ \A r \in BOOLEAN : J.child[x][r] = NoPeer
    <3>1. tr.father[x] = NoPeer /\ \A r \in BOOLEAN : tr.child[x][r] = NoPeer
      BY DEF IsTree, Shape
    <3> QED BY <1>7, <1>a, <1>b, <1>c, <3>1
  <2> QED BY <1>0, <1>9, <2>1, <2>2, <2>3, <2>4, <2>5 DEF Shape
<1>13. Covers(J, T \cup {n}, jv)
  <2> SUFFICES ASSUME NEW y \in T \cup {n}, NEW x \in T \cup {n}, x \in jv[y], x # y
               PROVE  J.child[y][x > y] # NoPeer
    BY DEF Covers
  <2>0. \A z \in T, v \in T : v \in iv[z] /\ v # z => tr.child[z][v > z] # NoPeer
    BY DEF IsTree, Covers
  <2>1. CASE y = n
    BY <1>9, <1>10, <2>1
  <2>2. CASE y # n /\ x # n
    <3>1. y \in T /\ x \in T /\ y \in Name /\ x \in iv[y]
      BY <1>d, <1>9, <2>2
    <3>2. tr.child[y][x > y] # NoPeer
      BY <2>0, <3>1
    <3> DEFINE r == x > y
    <3>3. r \in BOOLEAN
      OBVIOUS
    <3> HIDE DEF r
    <3>4. tr.child[y][r] # NoPeer
      BY <3>2 DEF r
    <3>5. J.child[y][r] # NoPeer
      BY <1>b, <1>d, <3>1, <3>3, <3>4
    <3> QED BY <3>5 DEF r
  <2>3. CASE y # n /\ x = n
    <3>0. y \in T /\ y \in Name /\ n \in iv[y]
      BY <1>0, <1>9, <2>3
    <3>1. CASE y = m
      <4>1. J.child[m][s] = n
        BY <1>1, <1>7, <1>a, <1>b, <1>c
      <4> QED BY <1>0, <2>3, <3>1, <4>1
    <3>2. CASE y # m
      <4>1. Apart(iv[y], y, iv[m], m)
        BY <3>0, <3>2 DEF IsTree, Nested
      <4>2. ~(iv[y] \cap iv[m] = {})
        BY <3>0
      <4>3. ~(iv[y] \subseteq Side(iv[m], m, y > m))
        <5> SUFFICES ASSUME iv[y] \subseteq Side(iv[m], m, y > m)
                     PROVE  FALSE
          OBVIOUS
        <5>1. y \in iv[y]
          BY <3>0 DEF IsTree, Shape
        <5>2. (n > m) = (y > m) /\ y \in Side(iv[m], m, y > m)
          BY <3>0, <5>1 DEF Side
        <5> QED BY <1>10, <3>0, <5>2
      <4>4. iv[m] \subseteq Side(iv[y], y, m > y)
        BY <4>1, <4>2, <4>3 DEF Apart
      <4>5. (n > y) = (m > y) /\ m \in iv[y] /\ (n > y) \in BOOLEAN
        BY <1>1, <4>4 DEF Side
      <4>6. tr.child[y][n > y] # NoPeer
        BY <2>0, <3>0, <3>2, <4>5
      <4> QED BY <1>0, <1>7, <1>a, <1>b, <1>c, <2>3, <3>0, <4>5, <4>6
    <3> QED BY <3>1, <3>2
  <2> QED BY <2>1, <2>2, <2>3
<1>14. Nested(T \cup {n}, jv)
  <2>0. \A y, z \in T : y # z => Apart(iv[y], y, iv[z], z)
    BY DEF IsTree, Nested
  <2>1. ASSUME NEW z \in T
        PROVE  Apart(jv[n], n, jv[z], z)
    <3>0. jv[z] = iv[z] /\ jv[n] = Side(iv[m], m, s) /\ jv[n] \subseteq iv[m]
      BY <1>0, <1>9 DEF Side
    <3>1. CASE z = m
      BY <3>0, <3>1 DEF Apart
    <3>2. CASE z # m
      <4>1. Apart(iv[m], m, iv[z], z)
        BY <2>0, <3>2
      <4>2. CASE iv[m] \cap iv[z] = {}
        BY <3>0, <4>2 DEF Apart
      <4>3. CASE iv[m] \subseteq Side(iv[z], z, m > z)
        <5>1. (n > z) = (m > z)
          BY <1>1, <4>3 DEF Side
        <5> QED BY <3>0, <4>3, <5>1 DEF Apart
      <4>4. CASE iv[z] \subseteq Side(iv[m], m, z > m)
        <5>1. z \in iv[z]
          BY DEF IsTree, Shape
        <5>2. (z > m) # s
          BY <1>10, <4>4, <5>1
        <5>3. Side(iv[m], m, s) \cap iv[z] = {}
          BY <4>4, <5>2 DEF Side
        <5> QED BY <3>0, <5>3 DEF Apart
      <4> QED BY <4>1, <4>2, <4>3, <4>4 DEF Apart
    <3> QED BY <3>1, <3>2
  <2>2. ASSUME NEW y \in T, NEW z \in T, y # z
        PROVE  Apart(jv[y], y, jv[z], z)
    BY <1>0, <1>9, <2>0, <2>2
  <2>3. \A K, z, L, y : Apart(K, y, L, z) <=> Apart(L, z, K, y)
    BY DEF Apart
  <2> QED
    <3> SUFFICES ASSUME NEW y \in T \cup {n}, NEW z \in T \cup {n}, y # z
                 PROVE  Apart(jv[y], y, jv[z], z)
      BY DEF Nested
    <3> QED BY <2>1, <2>2, <2>3
<1>15. Branches(J)
  <2>1. ASSUME NEW x \in Name, NEW c \in Name
        PROVE  c \in Kids(J, x) <=> \E r \in BOOLEAN : J.child[x][r] = c
    <3>1. CASE x = m
      <4>1. c \in Kids(J, x) <=> c = n \/ c \in Kids(tr, x)
        BY <1>7, <1>a, <1>b, <1>c, <3>1
      <4>2. J.child[x][s] = n /\ \A r \in BOOLEAN : r # s => J.child[x][r] = tr.child[x][r]
        BY <1>1, <1>7, <1>a, <1>b, <1>c, <3>1
      <4>3. tr.child[x][s] # c
        BY <1>0, <3>1
      <4>4. c # n => ((\E r \in BOOLEAN : J.child[x][r] = c)
                       <=> \E r \in BOOLEAN : tr.child[x][r] = c)
        BY <1>1, <4>2, <4>3
      <4>5. c \in Kids(tr, x) <=> \E r \in BOOLEAN : tr.child[x][r] = c
        BY <1>3
      <4>6. c = n => \E r \in BOOLEAN : J.child[x][r] = c
        BY <1>1, <4>2
      <4> QED BY <4>1, <4>4, <4>5, <4>6
    <3>2. CASE x # m
      <4>1. \A r \in BOOLEAN : J.child[x][r] = tr.child[x][r]
        BY <1>b, <3>2
      <4>2. Kids(J, x) = Kids(tr, x)
        BY <1>c, <3>2
      <4> QED BY <1>3, <4>1, <4>2
    <3> QED BY <3>1, <3>2
  <2> QED BY <1>7, <1>a, <1>b, <1>c, <2>1 DEF Branches
<1> QED BY <1>7, <1>12, <1>13, <1>14, <1>15 DEF IsTree, jv

LEMMA BinTreeInserts ==
  ASSUME NEW tr, NEW T, NEW iv, IsTree(tr, T, iv), NEW n \in Name, n \notin T,
         NEW J, J = BinTreeInsert(tr, n, Root)
  PROVE  \E m \in T : \E jv : IsTree(J, T \cup {n}, jv) /\ J.father = [tr.father EXCEPT ![n] = m]
<1> DEFINE N == Cardinality(Name)
           S == On(T, iv, n)
           step == Walks(tr, T, iv, n)
           IsRun(w) == w = [k \in 0..N |-> IF k = 0 THEN Root ELSE Deeper(tr, n, w[k - 1])]
           run == CHOOSE w : IsRun(w)
<1>1. N \in Nat /\ Root \in S /\ step \in [S -> S]
  BY NameSize, WalkStays
<1>a. \A m \in S : step[m] = Deeper(tr, n, m)
  BY DEF On, Walks
<1>2. \E w : IsRun(w)
  <2>1. PICK w \in [0..N -> S] : w = [k \in 0..N |-> IF k = 0 THEN Root ELSE step[w[k - 1]]]
    <3> HIDE DEF N, S, step
    <3> QED BY <1>1, RoundsExist
  <2>2. \A k \in 0..N : w[k] = IF k = 0 THEN Root ELSE Deeper(tr, n, w[k - 1])
    <3>1. ASSUME NEW k \in 0..N, k # 0
          PROVE  w[k] = Deeper(tr, n, w[k - 1])
      <4>1. k - 1 \in 0..N
        BY <1>1, <3>1
      <4>2. w[k - 1] \in S /\ w[k] = step[w[k - 1]]
        BY <2>1, <3>1, <4>1
      <4> HIDE DEF S, step
      <4> QED BY <1>a, <4>2
    <3>2. w[0] = Root
      BY <1>1, <2>1
    <3> QED BY <3>1, <3>2
  <2>3. IsRun(w)
    BY <2>1, <2>2
  <2> QED BY <2>3
<1>3. IsRun(run)
  <2> HIDE DEF IsRun
  <2> QED BY <1>2
<1>4. Loop(LAMBDA m : Deeper(tr, n, m), Root) = run[N]
  BY Zenon DEF Loop
<1> HIDE DEF run
<1>5. run[0] = Root /\ \A k \in 1..N : run[k - 1] \in S => run[k] = step[run[k - 1]]
  <2>1. run[0] = Root
    BY <1>1, <1>3
  <2>2. ASSUME NEW k \in 1..N, run[k - 1] \in S
        PROVE  run[k] = step[run[k - 1]]
    <3>1. run[k] = Deeper(tr, n, run[k - 1])
      BY <1>1, <1>3
    <3> HIDE DEF S, step
    <3> QED BY <1>a, <2>2, <3>1
  <2> QED BY <2>1, <2>2
<1> DEFINE end == run[N]
<1>6. end \in T /\ end \in Name /\ n \in iv[end] /\ (end = n \/ tr.child[end][n > end] = NoPeer)
  <2> HIDE DEF IsRun
  <2> QED BY <1>5, WalkEnds
<1>7. J = BinAttachTo(tr, n, end, n > end)
  BY <1>4 DEF BinTreeInsert
<1> HIDE DEF end
<1> DEFINE s == n > end
<1>8. s \in BOOLEAN /\ tr.child[end][s] = NoPeer /\ tr.father[n] = NoPeer /\ tr \in Tree
  BY <1>6 DEF IsTree, Shape
<1>9. J = BinAttachTo(tr, n, end, s) /\ s = (n > end)
  BY <1>7
<1> HIDE DEF s
<1>10. J = Graft(tr, n, end, s)
  BY <1>6, <1>8, <1>9, BinAttachToGrafts
<1>11. IsTree(J, T \cup {n}, Joined(iv, n, end, s)) /\ J.father = [tr.father EXCEPT ![n] = end]
  <2>2. end \in T /\ s \in BOOLEAN /\ s = (n > end) /\ n \in iv[end] /\ tr.child[end][s] = NoPeer
    BY <1>6, <1>8, <1>9
  <2>3. IsTree(J, T \cup {n}, Joined(iv, n, end, s))
    BY <1>10, <2>2, LeafJoins
  <2>4. J.father = [tr.father EXCEPT ![n] = end]
    BY <1>10 DEF Graft
  <2> QED BY <2>3, <2>4
<1> QED BY <1>6, <1>11

\* The freed memory of a peer that is not a node has no links.
LEMMA PeerDataConsLinks ==
  ASSUME NEW tr, NEW T, NEW iv, IsTree(tr, T, iv), NEW n \in Name, n \notin T
  PROVE  PeerDataCons(tr, n) = tr
<1>1. /\ tr \in Tree /\ tr.father[n] = NoPeer /\ \A r \in BOOLEAN : tr.child[n][r] = NoPeer
      /\ NoPeer \notin Name
  BY TreapAssumption DEF IsTree, Shape
<1>2. tr.child[n] = NoLinks.child
  BY <1>1 DEF NoLinks, Tree
<1>3. tr.kids[n] \in Seq(Name)
  BY <1>1 DEF Tree
<1>4. Kids(tr, n) = {}
  <2>1. \A c \in Name : c \notin Kids(tr, n)
    BY <1>1 DEF IsTree, Branches
  <2> QED BY <1>3, <2>1 DEF Kids, ToSet
<1>5. tr.kids[n] = <<>>
  <2>1. DOMAIN tr.kids[n] = 1..Len(tr.kids[n]) /\ Len(tr.kids[n]) \in Nat
    BY <1>3, LenProperties
  <2>2. Len(tr.kids[n]) = 0
    <3> SUFFICES ASSUME Len(tr.kids[n]) # 0
                 PROVE  FALSE
      OBVIOUS
    <3>1. 1 \in DOMAIN tr.kids[n]
      BY <2>1
    <3> QED BY <1>4, <3>1 DEF Kids, ToSet
  <2> QED BY <1>3, <2>2, EmptySeq
<1>6. tr.father[n] = NoLinks.father /\ tr.kids[n] = NoLinks.kids
  BY <1>1, <1>5 DEF NoLinks
<1>7. /\ [tr.father EXCEPT ![n] = NoLinks.father] = tr.father
      /\ [tr.child EXCEPT ![n] = NoLinks.child] = tr.child
      /\ [tr.kids EXCEPT ![n] = NoLinks.kids] = tr.kids
  BY <1>1, <1>2, <1>6 DEF Tree
<1>8. PeerDataCons(tr, n) = [tr EXCEPT !.father = [tr.father EXCEPT ![n] = NoLinks.father],
                                       !.child = [tr.child EXCEPT ![n] = NoLinks.child],
                                       !.kids = [tr.kids EXCEPT ![n] = NoLinks.kids]]
  BY Zenon DEF PeerDataCons
<1>9. [tr EXCEPT !.father = tr.father, !.child = tr.child, !.kids = tr.kids] = tr
  BY <1>1 DEF Tree
<1> QED BY <1>7, <1>8, <1>9, Zenon

\* A leaf that goes.
LEMMA LeafLeaves ==
  ASSUME NEW tr, NEW T, NEW iv, IsTree(tr, T, iv), NEW n \in T, n # Root,
         \A r \in BOOLEAN : tr.child[n][r] = NoPeer,
         NEW L, L = BinDisattach(tr, n)
  PROVE  IsTree(L, T \ {n}, iv)
<1> DEFINE f == tr.father[n]
           s == IsRight(tr, n)
<1>0. /\ NoPeer \notin Name /\ tr \in Tree /\ T \subseteq Name
      /\ Root \in T /\ tr.father[Root] = NoPeer /\ iv \in [Name -> SUBSET Name] /\ iv[Root] = Name
      /\ \A x \in Name : IsInjective(tr.kids[x])
  BY TreapAssumption DEF IsTree, Shape, Branches
<1>1. /\ n \in Name /\ f \in T /\ f \in Name /\ f # n /\ s \in BOOLEAN /\ tr.child[f][s] = n
      /\ tr.child[f][~s] # n /\ iv[n] = Side(iv[f], f, s)
  BY Family
<1>2. L = Cut(tr, n, f, s)
  BY <1>0, <1>1, BinDisattachCuts
<1> HIDE DEF f, s
<1>3. IsCut(tr, n, f, s, L)
  BY <1>0, <1>1, <1>2, CutLinks
<1>4. L \in Tree /\ \A x \in Name : IsInjective(L.kids[x])
  BY <1>3 DEF IsCut
<1>5. \A x \in Name : L.father[x] = IF x = n THEN NoPeer ELSE tr.father[x]
  BY <1>3 DEF IsCut
<1>6. \A x \in Name, r \in BOOLEAN :
        L.child[x][r] = IF x = f /\ r = s THEN NoPeer ELSE tr.child[x][r]
  BY <1>3 DEF IsCut
<1>7. \A x \in Name : Kids(L, x) = IF x = f THEN Kids(tr, x) \ {n} ELSE Kids(tr, x)
  BY <1>3 DEF IsCut
<1>8. \A x \in T, r \in BOOLEAN : tr.child[x][r] # NoPeer =>
        /\ tr.child[x][r] \in T /\ tr.father[tr.child[x][r]] = x
        /\ iv[tr.child[x][r]] = Side(iv[x], x, r)
  BY DEF IsTree, Shape
\* n is a child of f's on this side only.
<1>9. \A x \in T, r \in BOOLEAN : tr.child[x][r] = n => x = f /\ r = s
  <2>1. ASSUME NEW x \in T, NEW r \in BOOLEAN, tr.child[x][r] = n
        PROVE  x = f /\ r = s
    <3>1. x = f
      BY <1>0, <1>1, <1>8, <2>1 DEF f
    <3>2. r # s => r = ~s
      BY <1>1
    <3> QED BY <1>1, <2>1, <3>1, <3>2
  <2> QED BY <2>1
<1>10. Shape(L, T \ {n}, iv)
  <2>1. \A m \in T : m \in iv[m]
    BY DEF IsTree, Shape
  <2>2. L.father[Root] = NoPeer
    BY <1>0, <1>5
  <2>3. ASSUME NEW m \in T \ {n}, NEW r \in BOOLEAN, L.child[m][r] # NoPeer
        PROVE  /\ L.child[m][r] \in T \ {n} /\ L.father[L.child[m][r]] = m
               /\ iv[L.child[m][r]] = Side(iv[m], m, r)
    <3>1. L.child[m][r] = tr.child[m][r] /\ ~(m = f /\ r = s)
      BY <1>0, <1>6, <2>3
    <3> DEFINE c == tr.child[m][r]
    <3>2. c \in T /\ tr.father[c] = m /\ iv[c] = Side(iv[m], m, r) /\ c # n
      BY <1>8, <1>9, <2>3, <3>1
    <3> HIDE DEF c
    <3>3. L.father[c] = m
      BY <1>0, <1>5, <3>2
    <3> QED BY <3>1, <3>2, <3>3 DEF c
  <2>4. ASSUME NEW m \in T \ {n}, m # Root
        PROVE  L.father[m] \in T \ {n} /\ \E r \in BOOLEAN : L.child[L.father[m]][r] = m
    <3>1. L.father[m] = tr.father[m]
      BY <1>0, <1>5
    <3>2. tr.father[m] \in T /\ \E r \in BOOLEAN : tr.child[tr.father[m]][r] = m
      BY <2>4 DEF IsTree, Shape
    <3>3. PICK r \in BOOLEAN : tr.child[tr.father[m]][r] = m
      BY <3>2
    <3>4. tr.father[m] # n /\ ~(tr.father[m] = f /\ r = s)
      BY <1>0, <1>1, <3>3
    <3>5. L.child[tr.father[m]][r] = m
      BY <1>0, <1>6, <3>2, <3>3, <3>4
    <3> QED BY <3>1, <3>2, <3>4, <3>5
  <2>5. ASSUME NEW m \in Name \ (T \ {n})
        PROVE  L.father[m] = NoPeer /\ \A r \in BOOLEAN : L.child[m][r] = NoPeer
    <3>1. m # n => tr.father[m] = NoPeer /\ \A r \in BOOLEAN : tr.child[m][r] = NoPeer
      BY DEF IsTree, Shape
    <3> QED BY <1>5, <1>6, <3>1
  <2> QED BY <1>0, <2>1, <2>2, <2>3, <2>4, <2>5 DEF Shape
<1>11. Covers(L, T \ {n}, iv)
  <2> SUFFICES ASSUME NEW m \in T \ {n}, NEW x \in T \ {n}, x \in iv[m], x # m
               PROVE  L.child[m][x > m] # NoPeer
    BY DEF Covers
  <2>0. \A z \in T, v \in T : v \in iv[z] /\ v # z => tr.child[z][v > z] # NoPeer
    BY DEF IsTree, Covers
  <2> DEFINE r == x > m
  <2>1. r \in BOOLEAN /\ tr.child[m][r] # NoPeer
    BY <2>0
  <2>2. ~(m = f /\ r = s)
    <3> SUFFICES ASSUME m = f, r = s
                 PROVE  FALSE
      OBVIOUS
    <3>1. x \in iv[n]
      BY <1>1 DEF Side
    <3>2. tr.child[n][x > n] # NoPeer /\ (x > n) \in BOOLEAN
      BY <2>0, <3>1
    <3> QED BY <3>2
  <2> HIDE DEF r
  <2>3. L.child[m][r] # NoPeer
    BY <1>0, <1>6, <2>1, <2>2
  <2> QED BY <2>3 DEF r
<1>12. Nested(T \ {n}, iv)
  BY DEF IsTree, Nested
<1>13. Branches(L)
  <2>0. \A x, c \in Name : c \in Kids(tr, x) <=> \E r \in BOOLEAN : tr.child[x][r] = c
    BY DEF IsTree, Branches
  <2>1. ASSUME NEW x \in Name, NEW c \in Name
        PROVE  c \in Kids(L, x) <=> \E r \in BOOLEAN : L.child[x][r] = c
    <3>1. CASE x = f
      <4>1. c \in Kids(L, x) <=> c # n /\ \E r \in BOOLEAN : tr.child[x][r] = c
        BY <1>7, <2>0, <3>1
      <4>2. L.child[x][s] = NoPeer /\ \A r \in BOOLEAN : r # s => L.child[x][r] = tr.child[x][r]
        BY <1>1, <1>6, <3>1
      <4>3. tr.child[x][s] = n /\ \A r \in BOOLEAN : r # s => tr.child[x][r] # n
        BY <1>1, <1>9, <3>1
      <4>4. ASSUME NEW r \in BOOLEAN, c # n, tr.child[x][r] = c
            PROVE  L.child[x][r] = c
        BY <4>2, <4>3, <4>4
      <4>5. ASSUME NEW r \in BOOLEAN, L.child[x][r] = c
            PROVE  c # n /\ tr.child[x][r] = c
        BY <1>0, <4>2, <4>3, <4>5
      <4> QED BY <4>1, <4>4, <4>5
    <3>2. CASE x # f
      <4>1. \A r \in BOOLEAN : L.child[x][r] = tr.child[x][r]
        BY <1>6, <3>2
      <4> QED BY <1>7, <2>0, <3>2, <4>1
    <3> QED BY <3>1, <3>2
  <2> QED BY <1>4, <2>1 DEF Branches
<1> QED BY <1>4, <1>10, <1>11, <1>12, <1>13 DEF IsTree

------------------------------------------------------------------------------
(* The rotations of one peer: up, what it stands for grows, down, it gets   *)
(* smaller.                                                                 *)

LEMMA RoateSize ==
  ASSUME NEW tr, NEW T, NEW iv, IsTree(tr, T, iv), NEW n \in T, n # Root, tr.father[n] # Root,
         NEW kv, kv = Turned(tr, n, iv)
  PROVE  /\ Cardinality(iv[n]) < Cardinality(kv[n])
         /\ Cardinality(kv[tr.father[n]]) < Cardinality(iv[tr.father[n]])
         /\ TreapRoateUp(tr, n).father[n] # tr.father[n]
<1> DEFINE f == tr.father[n]
           g == tr.father[f]
           pos == IsRight(tr, n)
           neg == ~pos
<1>1. n \in Name /\ f \in T /\ f \in Name /\ f # n /\ iv[n] = Side(iv[f], f, pos)
  BY Family
<1>2. iv \in [Name -> SUBSET Name] /\ f \in iv[f] /\ n \in iv[f]
  BY <1>1, ThreeInLine DEF IsTree, Shape
<1>3. kv[n] = iv[f] /\ kv[f] = Side(iv[f], n, neg)
  BY <1>1, <1>2 DEF Turned
<1>4. g # f
  BY <1>1, Family
<1>5. TreapRoateUp(tr, n).father[n] = g
  <2>1. Rotated(tr, n, TreapRoateUp(tr, n))
    BY RotationLinks
  <2> QED BY <1>1, <2>1 DEF Rotated
<1> HIDE DEF f, g, pos, neg
<1>6. Cardinality(Side(iv[f], f, pos)) < Cardinality(iv[f])
  BY <1>1, <1>2, SideSize
<1>7. Cardinality(Side(iv[f], n, neg)) < Cardinality(iv[f])
  BY <1>1, <1>2, SideSize
<1> QED BY <1>1, <1>3, <1>4, <1>5, <1>6, <1>7 DEF f

\* n may be above a father of a greater priority, but no one else is, and n's
\* children would not be if they were its father's.
Rising(tr, pr, T, n) ==
  /\ \A m \in T : m # Root /\ m # n => pr[tr.father[m]] <= pr[m]
  /\ \A m \in T : m # Root /\ tr.father[m] = n => pr[tr.father[n]] <= pr[m]

LEMMA RoateKeepsRising ==
  ASSUME NEW tr, NEW T, NEW iv, IsTree(tr, T, iv), NEW n \in T, n # Root, tr.father[n] # Root,
         NEW pr \in [Name -> Nat], pr[n] < pr[tr.father[n]], Rising(tr, pr, T, n),
         NEW R, R = TreapRoateUp(tr, n)
  PROVE  Rising(R, pr, T, n)
<1> DEFINE f == tr.father[n]
           g == tr.father[f]
           save == tr.child[n][~IsRight(tr, n)]
<1>1. n \in Name /\ f \in T /\ f \in Name /\ f # n /\ IsRight(tr, n) \in BOOLEAN
  BY Family
<1>2. g \in T /\ g \in Name /\ g # n /\ g # f
  BY <1>1, Family, ThreeInLine
<1>3. \A x \in Name : R.father[x] = IF x = n THEN g ELSE IF x = f THEN n
                                    ELSE IF x = save THEN f ELSE tr.father[x]
  <2>1. Rotated(tr, n, R)
    BY RotationLinks
  <2> QED BY <2>1 DEF Rotated
<1>4. save # NoPeer => tr.father[save] = n
  <2>1. (~IsRight(tr, n)) \in BOOLEAN
    BY <1>1
  <2> QED BY <2>1 DEF IsTree, Shape
<1>5. T \subseteq Name /\ NoPeer \notin Name /\ \A m \in T : pr[m] \in Nat
  BY TreapAssumption DEF IsTree, Shape
<1>6. /\ \A m \in T : m # Root /\ m # n => pr[tr.father[m]] <= pr[m]
      /\ \A m \in T : m # Root /\ tr.father[m] = n => pr[f] <= pr[m]
  BY DEF Rising
<1>7. f # Root /\ pr[n] < pr[f]
  OBVIOUS
<1> HIDE DEF f, save, g
<1>8. pr[g] <= pr[f]
  BY <1>1, <1>6, <1>7 DEF g
<1>9. ASSUME NEW m \in T, m # Root, m # n
      PROVE  pr[R.father[m]] <= pr[m]
  <2>1. CASE m = f
    BY <1>1, <1>3, <1>5, <1>7, <2>1
  <2>2. CASE m # f /\ m = save
    BY <1>3, <1>4, <1>5, <1>6, <1>9, <2>2
  <2>3. CASE m # f /\ m # save
    BY <1>3, <1>5, <1>6, <1>9, <2>3
  <2> QED BY <2>1, <2>2, <2>3
<1>10. ASSUME NEW m \in T, m # Root, R.father[m] = n
       PROVE  pr[R.father[n]] <= pr[m]
  <2>0. R.father[n] = g
    BY <1>1, <1>3
  <2>1. CASE m = f
    BY <1>8, <2>0, <2>1
  <2>2. CASE m # f
    <3>1. m # n /\ m # save
      BY <1>1, <1>2, <1>3, <1>5, <1>10, <2>2
    <3>2. tr.father[m] = n
      BY <1>3, <1>5, <1>10, <2>2, <3>1
    <3>3. pr[f] <= pr[m]
      BY <1>6, <1>10, <3>2
    <3> QED BY <1>1, <1>2, <1>5, <1>8, <2>0, <3>3
  <2> QED BY <2>1, <2>2
<1> QED BY <1>9, <1>10 DEF Rising

\* A round of the way up.
LEMMA RiseRound ==
  ASSUME NEW tr, NEW T, NEW iv, IsTree(tr, T, iv), NEW n \in T, n # Root,
         NEW pr \in [Name -> Nat], pr[Root] = 0, NEW R, R = RoatesUp(tr, pr, n)
  PROVE  \/ R = tr /\ pr[tr.father[n]] <= pr[n]
         \/ /\ R # tr /\ (Rising(tr, pr, T, n) => Rising(R, pr, T, n))
            /\ \E kv : IsTree(R, T, kv) /\ Cardinality(iv[n]) < Cardinality(kv[n])
<1>1. /\ n \in Name /\ tr.father[n] \in Name /\ tr.father[n] # NoPeer
      /\ pr[n] \in Nat /\ pr[tr.father[n]] \in Nat
  BY TreapAssumption, Family
<1>2. CASE ~(pr[n] < pr[tr.father[n]])
  BY <1>1, <1>2 DEF RoatesUp, Above
<1>3. CASE pr[n] < pr[tr.father[n]]
  <2>1. R = TreapRoateUp(tr, n)
    BY <1>1, <1>3 DEF RoatesUp, Above
  <2>2. tr.father[n] # Root
    BY <1>1, <1>3
  <2>3. IsTree(R, T, Turned(tr, n, iv))
    BY <2>1, <2>2, RotationKeepsTree
  <2>4. Cardinality(iv[n]) < Cardinality(Turned(tr, n, iv)[n]) /\ R.father[n] # tr.father[n]
    BY <2>1, <2>2, RoateSize
  <2>5. Rising(tr, pr, T, n) => Rising(R, pr, T, n)
    BY <1>3, <2>1, <2>2, RoateKeepsRising
  <2> QED BY <2>3, <2>4, <2>5
<1> QED BY <1>2, <1>3

\* A round of the way down.
LEMMA SinkRound ==
  ASSUME NEW tr, NEW T, NEW iv, IsTree(tr, T, iv), NEW n \in T, n # Root,
         NEW R, R = Sinks(tr, n)
  PROVE  \/ R = tr /\ \A r \in BOOLEAN : tr.child[n][r] = NoPeer
         \/ R # tr /\ \E kv : IsTree(R, T, kv) /\ Cardinality(kv[n]) < Cardinality(iv[n])
<1> DEFINE below == IF tr.child[n][TRUE] # NoPeer THEN tr.child[n][TRUE] ELSE tr.child[n][FALSE]
<1>1. CASE below = NoPeer
  <2>1. R = tr
    BY <1>1 DEF Sinks
  <2>2. tr.child[n][TRUE] = NoPeer /\ tr.child[n][FALSE] = NoPeer
    BY <1>1
  <2> QED BY <2>1, <2>2
<1>2. CASE below # NoPeer
  <2>1. PICK r \in BOOLEAN : below = tr.child[n][r]
    OBVIOUS
  <2>2. R = TreapRoateUp(tr, below)
    BY <1>2 DEF Sinks
  <2> HIDE DEF below
  <2>3. below \in T /\ tr.father[below] = n /\ below # Root
    BY <1>2, <2>1, Child
  <2>4. IsTree(R, T, Turned(tr, below, iv))
    BY <2>2, <2>3, RotationKeepsTree
  <2>5. Cardinality(Turned(tr, below, iv)[n]) < Cardinality(iv[n]) /\ R.father[below] # n
    BY <2>2, <2>3, RoateSize
  <2> QED BY <2>3, <2>4, <2>5
<1> QED BY <1>1, <1>2

\* The way up ends where n is not above its father.
LEMMA RiseEnds ==
  ASSUME NEW tr, NEW T, NEW iv, IsTree(tr, T, iv), NEW n \in T, n # Root,
         NEW pr \in [Name -> Nat], pr[Root] = 0, NEW H \in BOOLEAN, H => Rising(tr, pr, T, n),
         NEW up, up = Loop(LAMBDA u : RoatesUp(u, pr, n), tr)
  PROVE  /\ \E jv : IsTree(up, T, jv)
         /\ H => Rising(up, pr, T, n) /\ pr[up.father[n]] <= pr[n]
<1> DEFINE N == Cardinality(Name)
           S == {u \in Tree : (\E jv : IsTree(u, T, jv)) /\ (H => Rising(u, pr, T, n))}
           Round(u) == RoatesUp(u, pr, n)
           step == [u \in S |-> Round(u)]
           IsRun(w) == w = [k \in 0..N |-> IF k = 0 THEN tr ELSE RoatesUp(w[k - 1], pr, n)]
           run == CHOOSE w : IsRun(w)
           Enough == {p \in S \X Nat : \E jv : IsTree(p[1], T, jv) /\ N - Cardinality(jv[n]) <= p[2]}
<1>1. n \in Name /\ N \in Nat /\ tr \in S
  <2>1. n \in Name /\ tr \in Tree
    BY DEF IsTree, Shape
  <2> QED BY <2>1, NameSize
<1>2. ASSUME NEW u, NEW jv, IsTree(u, T, jv)
      PROVE  Cardinality(jv[n]) \in Nat /\ Cardinality(jv[n]) <= N
  <2>1. jv[n] \in SUBSET Name
    BY <1>1, <1>2 DEF IsTree, Shape
  <2> QED BY <2>1, NameSize
<1>3. ASSUME NEW u \in S
      PROVE  Round(u) \in S
  <2>1. PICK jv : IsTree(u, T, jv)
    OBVIOUS
  <2>2. \/ Round(u) = u
        \/ /\ Rising(u, pr, T, n) => Rising(Round(u), pr, T, n)
           /\ \E kv : IsTree(Round(u), T, kv)
    BY <2>1, RiseRound
  <2>3. \A kv : IsTree(Round(u), T, kv) => Round(u) \in Tree
    BY DEF IsTree
  <2> HIDE DEF Round
  <2> QED BY <2>2, <2>3
<1>4. step \in [S -> S]
  <2> HIDE DEF S, Round
  <2> QED BY <1>3
<1>5. \E w : IsRun(w)
  <2>1. PICK w \in [0..N -> S] : w = [k \in 0..N |-> IF k = 0 THEN tr ELSE step[w[k - 1]]]
    <3> HIDE DEF N, S, step
    <3>1. N \in Nat /\ tr \in S /\ step \in [S -> S]
      BY <1>1, <1>4
    <3> HIDE DEF Round, IsRun, run, Enough
    <3> QED BY <3>1, RoundsExist
  <2>2. \A k \in 0..N : w[k] = IF k = 0 THEN tr ELSE Round(w[k - 1])
    <3>1. ASSUME NEW k \in 0..N, k # 0
          PROVE  w[k] = Round(w[k - 1])
      <4>1. k - 1 \in 0..N
        BY <1>1, <3>1
      <4> HIDE DEF S, Round
      <4> QED BY <2>1, <3>1, <4>1
    <3>2. w[0] = tr
      BY <1>1, <2>1
    <3> QED BY <3>1, <3>2
  <2>3. IsRun(w)
    BY <2>1, <2>2
  <2> QED BY <2>3
<1>6. IsRun(run)
  <2> HIDE DEF IsRun
  <2> QED BY <1>5
<1>7. up = run[N]
  BY Zenon DEF Loop
<1> HIDE DEF run
<1>8. run[0] = tr /\ \A k \in 1..N : run[k - 1] \in S => run[k] = step[run[k - 1]]
  <2>1. run[0] = tr
    BY <1>1, <1>6
  <2>2. ASSUME NEW k \in 1..N, run[k - 1] \in S
        PROVE  run[k] = step[run[k - 1]]
    <3>0. k \in 0..N /\ k # 0
      BY <1>1
    <3> HIDE DEF N
    <3>1. run[k] = Round(run[k - 1])
      BY <1>6, <3>0
    <3> HIDE DEF S, Round
    <3> QED BY <2>2, <3>1
  <2> QED BY <2>1, <2>2
<1>9. <<tr, N>> \in Enough
  <2>1. N - Cardinality(iv[n]) <= N
    BY <1>1, <1>2
  <2> HIDE DEF S
  <2> QED BY <1>1, <2>1
<1>10. ASSUME NEW u \in S, NEW k \in Nat, <<u, k>> \in Enough
       PROVE  step[u] = u \/ (k # 0 /\ <<step[u], k - 1>> \in Enough)
  <2>1. PICK jv : IsTree(u, T, jv) /\ N - Cardinality(jv[n]) <= k
    BY <1>10
  <2>2. step[u] = Round(u) /\ step[u] \in S
    <3> HIDE DEF Round, S
    <3> QED BY <1>3
  <2>3. step[u] = u \/ \E kv : IsTree(step[u], T, kv) /\ Cardinality(jv[n]) < Cardinality(kv[n])
    <3>1. Round(u) = u \/ \E kv : IsTree(Round(u), T, kv) /\ Cardinality(jv[n]) < Cardinality(kv[n])
      BY <2>1, RiseRound
    <3> HIDE DEF Round, step
    <3> QED BY <2>2, <3>1
  <2> HIDE DEF step, S, Round
  <2>4. ASSUME NEW kv, IsTree(step[u], T, kv), Cardinality(jv[n]) < Cardinality(kv[n])
        PROVE  k # 0 /\ <<step[u], k - 1>> \in Enough
    <3>1. /\ Cardinality(kv[n]) \in Nat /\ Cardinality(kv[n]) <= N
          /\ Cardinality(jv[n]) \in Nat /\ Cardinality(jv[n]) <= N
      BY <1>2, <2>1, <2>4
    <3> HIDE DEF N
    <3>2. k # 0 /\ k - 1 \in Nat /\ N - Cardinality(kv[n]) <= k - 1
      BY <1>1, <2>1, <2>4, <3>1
    <3> QED BY <2>2, <2>4, <3>2
  <2> QED BY <2>3, <2>4
<1>11. run[N] \in S /\ step[run[N]] = run[N]
  <2> HIDE DEF S, step, Enough, N, IsRun
  <2> QED BY <1>1, <1>4, <1>8, <1>9, <1>10, LoopEnds
<1>12. RoatesUp(up, pr, n) = up /\ up \in S
  <2>1. up \in S /\ step[up] = up
    BY <1>7, <1>11
  <2> HIDE DEF S
  <2> QED BY <2>1
<1>13. pr[up.father[n]] <= pr[n]
  <2>1. PICK jv : IsTree(up, T, jv)
    BY <1>12
  <2> QED BY <1>12, <2>1, RiseRound
<1> QED BY <1>12, <1>13

\* The way down ends where n is a leaf.
LEMMA SinkEnds ==
  ASSUME NEW tr, NEW T, NEW iv, IsTree(tr, T, iv), NEW n \in T, n # Root,
         NEW down, down = Loop(LAMBDA u : Sinks(u, n), tr)
  PROVE  /\ \E jv : IsTree(down, T, jv)
         /\ \A r \in BOOLEAN : down.child[n][r] = NoPeer
<1> DEFINE N == Cardinality(Name)
           S == {u \in Tree : \E jv : IsTree(u, T, jv)}
           Round(u) == Sinks(u, n)
           step == [u \in S |-> Round(u)]
           IsRun(w) == w = [k \in 0..N |-> IF k = 0 THEN tr ELSE Sinks(w[k - 1], n)]
           run == CHOOSE w : IsRun(w)
           Enough == {p \in S \X Nat : \E jv : IsTree(p[1], T, jv) /\ Cardinality(jv[n]) <= p[2]}
<1>1. n \in Name /\ N \in Nat /\ tr \in S
  <2>1. n \in Name /\ tr \in Tree
    BY DEF IsTree, Shape
  <2> QED BY <2>1, NameSize
<1>2. ASSUME NEW u, NEW jv, IsTree(u, T, jv)
      PROVE  Cardinality(jv[n]) \in Nat /\ Cardinality(jv[n]) <= N
  <2>1. jv[n] \in SUBSET Name
    BY <1>1, <1>2 DEF IsTree, Shape
  <2> QED BY <2>1, NameSize
<1>3. ASSUME NEW u \in S
      PROVE  Round(u) \in S
  <2>1. PICK jv : IsTree(u, T, jv)
    OBVIOUS
  <2>2. Round(u) = u \/ \E kv : IsTree(Round(u), T, kv)
    BY <2>1, SinkRound
  <2>3. \A kv : IsTree(Round(u), T, kv) => Round(u) \in Tree
    BY DEF IsTree
  <2> HIDE DEF Round
  <2> QED BY <2>2, <2>3
<1>4. step \in [S -> S]
  <2> HIDE DEF S, Round
  <2> QED BY <1>3
<1>5. \E w : IsRun(w)
  <2>1. PICK w \in [0..N -> S] : w = [k \in 0..N |-> IF k = 0 THEN tr ELSE step[w[k - 1]]]
    <3> HIDE DEF N, S, step
    <3>1. N \in Nat /\ tr \in S /\ step \in [S -> S]
      BY <1>1, <1>4
    <3> HIDE DEF Round, IsRun, run, Enough
    <3> QED BY <3>1, RoundsExist
  <2>2. \A k \in 0..N : w[k] = IF k = 0 THEN tr ELSE Round(w[k - 1])
    <3>1. ASSUME NEW k \in 0..N, k # 0
          PROVE  w[k] = Round(w[k - 1])
      <4>1. k - 1 \in 0..N
        BY <1>1, <3>1
      <4> HIDE DEF S, Round
      <4> QED BY <2>1, <3>1, <4>1
    <3>2. w[0] = tr
      BY <1>1, <2>1
    <3> QED BY <3>1, <3>2
  <2>3. IsRun(w)
    BY <2>1, <2>2
  <2> QED BY <2>3
<1>6. IsRun(run)
  <2> HIDE DEF IsRun
  <2> QED BY <1>5
<1>7. down = run[N]
  BY Zenon DEF Loop
<1> HIDE DEF run
<1>8. run[0] = tr /\ \A k \in 1..N : run[k - 1] \in S => run[k] = step[run[k - 1]]
  <2>1. run[0] = tr
    BY <1>1, <1>6
  <2>2. ASSUME NEW k \in 1..N, run[k - 1] \in S
        PROVE  run[k] = step[run[k - 1]]
    <3>0. k \in 0..N /\ k # 0
      BY <1>1
    <3> HIDE DEF N
    <3>1. run[k] = Round(run[k - 1])
      BY <1>6, <3>0
    <3> HIDE DEF S, Round
    <3> QED BY <2>2, <3>1
  <2> QED BY <2>1, <2>2
<1>9. <<tr, N>> \in Enough
  <2>1. Cardinality(iv[n]) <= N
    BY <1>1, <1>2
  <2> HIDE DEF S
  <2> QED BY <1>1, <2>1
<1>10. ASSUME NEW u \in S, NEW k \in Nat, <<u, k>> \in Enough
       PROVE  step[u] = u \/ (k # 0 /\ <<step[u], k - 1>> \in Enough)
  <2>1. PICK jv : IsTree(u, T, jv) /\ Cardinality(jv[n]) <= k
    BY <1>10
  <2>2. step[u] = Round(u) /\ step[u] \in S
    <3> HIDE DEF Round, S
    <3> QED BY <1>3
  <2>3. step[u] = u \/ \E kv : IsTree(step[u], T, kv) /\ Cardinality(kv[n]) < Cardinality(jv[n])
    <3>1. Round(u) = u \/ \E kv : IsTree(Round(u), T, kv) /\ Cardinality(kv[n]) < Cardinality(jv[n])
      BY <2>1, SinkRound
    <3> HIDE DEF Round, step
    <3> QED BY <2>2, <3>1
  <2> HIDE DEF step, S, Round
  <2>4. ASSUME NEW kv, IsTree(step[u], T, kv), Cardinality(kv[n]) < Cardinality(jv[n])
        PROVE  k # 0 /\ <<step[u], k - 1>> \in Enough
    <3>1. Cardinality(kv[n]) \in Nat /\ Cardinality(jv[n]) \in Nat
      BY <1>2, <2>1, <2>4
    <3>2. k # 0 /\ k - 1 \in Nat /\ Cardinality(kv[n]) <= k - 1
      BY <2>1, <2>4, <3>1
    <3> QED BY <2>2, <2>4, <3>2
  <2> QED BY <2>3, <2>4
<1>11. run[N] \in S /\ step[run[N]] = run[N]
  <2> HIDE DEF S, step, Enough, N, IsRun
  <2> QED BY <1>1, <1>4, <1>8, <1>9, <1>10, LoopEnds
<1>12. Sinks(down, n) = down /\ down \in S
  <2>1. down \in S /\ step[down] = down
    BY <1>7, <1>11
  <2> HIDE DEF S
  <2> QED BY <2>1
<1>13. \A r \in BOOLEAN : down.child[n][r] = NoPeer
  <2>1. PICK jv : IsTree(down, T, jv)
    BY <1>12
  <2> QED BY <1>12, <2>1, SinkRound
<1> QED BY <1>12, <1>13

------------------------------------------------------------------------------
(* The registry.                                                            *)

RegistryInv ==
  /\ prio \in [Name -> Nat] /\ prio[Root] = 0
  /\ procs \subseteq Name \ {Root} /\ left \in BOOLEAN
  /\ \E iv : IsTree(t, procs \cup {Root}, iv)
  /\ HeapOfThePriorities

LEMMA InitRegistry == Init => RegistryInv
<1> SUFFICES ASSUME Init
             PROVE  RegistryInv
  OBVIOUS
<1>1. Root \in Name /\ Name \subseteq Int /\ NoPeer \notin Name
  BY TreapAssumption
<1>2. /\ t.father = [n \in Name |-> NoPeer] /\ t.kids = [n \in Name |-> <<>>]
      /\ t.child = [n \in Name |-> [right \in BOOLEAN |-> NoPeer]]
      /\ procs = {} /\ prio = [n \in Name |-> 0] /\ left = FALSE
  BY DEF Init, NoLinks
<1>3. t \in Tree
  <2>1. t = [father |-> t.father, child |-> t.child, kids |-> t.kids]
    BY DEF Init
  <2>2. /\ t.father \in [Name -> Name \cup {NoPeer}]
        /\ t.child \in [Name -> [BOOLEAN -> Name \cup {NoPeer}]]
        /\ t.kids \in [Name -> Seq(Name)]
    BY <1>2, EmptySeq
  <2> QED BY <2>1, <2>2 DEF Tree
<1> DEFINE iv == [m \in Name |-> Name]
<1>4. IsTree(t, {Root}, iv)
  <2>1. Shape(t, {Root}, iv)
    BY <1>1, <1>2 DEF Shape
  <2>2. Covers(t, {Root}, iv) /\ Nested({Root}, iv)
    BY DEF Covers, Nested
  <2>3. Branches(t)
    <3>1. \A m \in Name : t.kids[m] = <<>> /\ \A r \in BOOLEAN : t.child[m][r] = NoPeer
      BY <1>2
    <3>2. IsInjective(<<>>) /\ ToSet(<<>>) = {}
      BY DEF IsInjective, ToSet
    <3>3. \A m \in Name : IsInjective(t.kids[m]) /\ Kids(t, m) = {}
      BY <3>1, <3>2 DEF Kids
    <3> QED BY <1>1, <3>1, <3>3 DEF Branches
  <2> QED BY <1>3, <2>1, <2>2, <2>3 DEF IsTree
<1>5. procs \cup {Root} = {Root}
  BY <1>2
<1> HIDE DEF iv
<1> QED BY <1>1, <1>2, <1>4, <1>5 DEF RegistryInv, HeapOfThePriorities

\* A peer that comes.
LEMMA RegisterKeeps ==
  ASSUME RegistryInv, NEW n \in Name, Register(n)
  PROVE  RegistryInv' /\ Registry!Register(n)
<1> DEFINE T == procs \cup {Root}
<1>0. /\ Root \in Name /\ NoPeer \notin Name /\ Priority \subseteq Nat
      /\ procs \subseteq Name \ {Root}
  BY TreapAssumption DEF RegistryInv
<1>1. PICK iv : IsTree(t, T, iv)
  BY DEF RegistryInv
<1>2. answer' = IF n \in T THEN n ELSE NoPeer
  BY <1>1, BinTreeFinds DEF Register, PeerDataFind
<1>3. CASE n \in T
  <2>1. UNCHANGED <<t, prio, procs, left>>
    BY <1>0, <1>2, <1>3 DEF Register
  <2>2. RegistryInv'
    BY <2>1 DEF RegistryInv, HeapOfThePriorities
  <2>3. procs \cup ({n} \ {Root}) = procs
    BY <1>3
  <2>4. Registry!Register(n)
    BY <1>2, <2>1, <2>3 DEF Registry!Register, Registry!Found
  <2> QED BY <2>2, <2>4
<1>4. CASE n \notin T
  <2>1. PICK p \in Priority : /\ prio' = [prio EXCEPT ![n] = p]
                              /\ t' = TreapInsert(PeerDataCons(t, n), prio', n)
                              /\ procs' = procs \cup {n}
    BY <1>2, <1>4 DEF Register
  <2>2. left' = left
    BY DEF Register
  <2>3. n # Root /\ T \cup {n} = procs' \cup {Root} /\ procs' \subseteq Name \ {Root}
    BY <1>0, <1>4, <2>1
  <2>4. Registry!Register(n)
    BY <1>2, <1>4, <2>1, <2>3 DEF Registry!Register, Registry!Found
  <2> DEFINE J == BinTreeInsert(t, n, Root)
             pr == prio'
  <2>5. t' = Loop(LAMBDA u : RoatesUp(u, pr, n), J)
    BY <1>1, <1>4, <2>1, PeerDataConsLinks DEF TreapInsert
  <2>6. /\ pr \in [Name -> Nat] /\ pr[Root] = 0 /\ pr[n] = p
        /\ \A m \in Name : m # n => pr[m] = prio[m]
    BY <1>0, <2>1, <2>3 DEF RegistryInv
  <2> HIDE DEF J, pr
  <2>a. PICK m \in T : \E jv : IsTree(J, T \cup {n}, jv) /\ J.father = [t.father EXCEPT ![n] = m]
    BY <1>1, <1>4, BinTreeInserts DEF J
  <2>7. PICK jv : IsTree(J, T \cup {n}, jv) /\ J.father = [t.father EXCEPT ![n] = m]
    BY <2>a
  <2>8. ASSUME ~left
        PROVE  Rising(J, pr, T \cup {n}, n)
    <3>0. T \subseteq Name /\ t.father \in [Name -> Name \cup {NoPeer}]
      BY <1>1 DEF IsTree, Shape, Tree
    <3>1. \A x \in Name : J.father[x] = IF x = n THEN m ELSE t.father[x]
      BY <2>7, <3>0
    <3>2. \A x \in T : x # Root => t.father[x] \in T
      BY <1>1 DEF IsTree, Shape
    <3>3. \A x \in procs : prio[t.father[x]] <= prio[x]
      BY <2>8 DEF RegistryInv, HeapOfThePriorities
    <3>4. ASSUME NEW x \in T \cup {n}, x # Root, x # n
          PROVE  pr[J.father[x]] <= pr[x]
      <4>1. x \in procs /\ x \in Name /\ t.father[x] \in T /\ t.father[x] # n /\ t.father[x] \in Name
        BY <1>4, <3>0, <3>2, <3>4
      <4>2. pr[t.father[x]] = prio[t.father[x]] /\ pr[x] = prio[x]
        BY <2>6, <3>4, <4>1
      <4> QED BY <3>1, <3>3, <3>4, <4>1, <4>2
    <3>5. ASSUME NEW x \in T \cup {n}, x # Root, J.father[x] = n
          PROVE  FALSE
      <4>1. x # n
        BY <1>4, <3>1, <3>5
      <4>2. t.father[x] \in T /\ t.father[x] = n
        BY <3>0, <3>1, <3>2, <3>5, <4>1
      <4> QED BY <1>4, <4>2
    <3> QED BY <3>4, <3>5 DEF Rising
  <2>9. /\ \E kv : IsTree(t', T \cup {n}, kv)
        /\ ~left => Rising(t', pr, T \cup {n}, n) /\ pr[t'.father[n]] <= pr[n]
    <3> DEFINE H == ~left
    <3>1. H \in BOOLEAN /\ (H => Rising(J, pr, T \cup {n}, n))
      BY <2>8
    <3> HIDE DEF H, T
    <3>2. n \in T \cup {n}
      OBVIOUS
    <3> DEFINE U == T \cup {n}
               up == t'
    <3>3. /\ IsTree(J, U, jv) /\ n \in U /\ n # Root /\ pr \in [Name -> Nat] /\ pr[Root] = 0
          /\ H \in BOOLEAN /\ (H => Rising(J, pr, U, n))
          /\ up = Loop(LAMBDA u : RoatesUp(u, pr, n), J)
      BY <2>3, <2>5, <2>6, <2>7, <3>1, <3>2
    <3> HIDE DEF U, up
    <3>4. \E kv : IsTree(up, U, kv)
      BY <3>3, RiseEnds
    <3>5. H => Rising(up, pr, U, n) /\ pr[up.father[n]] <= pr[n]
      BY <3>3, RiseEnds
    <3> QED BY <3>4, <3>5 DEF H, U, up
  <2>10. HeapOfThePriorities'
    <3> SUFFICES ASSUME ~left, NEW x \in procs'
                 PROVE  pr[t'.father[x]] <= pr[x]
      BY <2>2 DEF HeapOfThePriorities, pr
    <3>1. x = n \/ (x \in T \cup {n} /\ x # Root /\ x # n)
      BY <2>3
    <3> QED BY <2>9, <3>1 DEF Rising
  <2>11. RegistryInv'
    <3>1. prio' \in [Name -> Nat] /\ prio'[Root] = 0
      BY <2>6 DEF pr
    <3>2. left' \in BOOLEAN
      BY <2>2 DEF RegistryInv
    <3> QED BY <2>3, <2>9, <2>10, <3>1, <3>2 DEF RegistryInv
  <2> QED BY <2>4, <2>11
<1> QED BY <1>3, <1>4

\* A peer that leaves.
LEMMA LeaveKeeps ==
  ASSUME RegistryInv, NEW n \in Name, Leave(n)
  PROVE  RegistryInv' /\ Registry!Leave(n)
<1> DEFINE T == procs \cup {Root}
           down == Loop(LAMBDA u : Sinks(u, n), t)
<1>0. Root \in Name /\ procs \subseteq Name \ {Root} /\ n \in procs
  BY TreapAssumption DEF RegistryInv, Leave
<1>1. PICK iv : IsTree(t, T, iv)
  BY DEF RegistryInv
<1>2. /\ procs' = procs \ {n} /\ left' = TRUE /\ answer' = answer
      /\ prio' = [prio EXCEPT ![n] = 0] /\ t' = BinDisattach(down, n)
  BY DEF Leave, TreapDragOut
<1>3. n \in T /\ n # Root /\ procs' \cup {Root} = T \ {n} /\ procs' \subseteq Name \ {Root}
  BY <1>0, <1>2
<1>4. Registry!Leave(n)
  BY <1>0, <1>2 DEF Registry!Leave
<1> HIDE DEF T
<1>5. /\ \E jv : IsTree(down, T, jv)
      /\ \A r \in BOOLEAN : down.child[n][r] = NoPeer
  BY <1>1, <1>3, SinkEnds
<1> HIDE DEF down
<1>6. \E jv : IsTree(t', T \ {n}, jv)
  BY <1>2, <1>3, <1>5, LeafLeaves
<1>7. prio' \in [Name -> Nat] /\ prio'[Root] = 0
  BY <1>0, <1>2, <1>3 DEF RegistryInv
<1>8. HeapOfThePriorities'
  BY <1>2 DEF HeapOfThePriorities
<1> QED BY <1>2, <1>3, <1>4, <1>6, <1>7, <1>8 DEF RegistryInv

LEMMA NextRegistry == RegistryInv /\ [Next]_vars => RegistryInv'
<1> SUFFICES ASSUME RegistryInv, [Next]_vars
             PROVE  RegistryInv'
  OBVIOUS
<1>1. CASE UNCHANGED vars
  BY <1>1 DEF vars, RegistryInv, HeapOfThePriorities
<1>2. ASSUME NEW n \in Name, Register(n)
      PROVE  RegistryInv'
  BY <1>2, RegisterKeeps
<1>3. ASSUME NEW n \in Name, Find(n)
      PROVE  RegistryInv'
  BY <1>3 DEF Find, RegistryInv, HeapOfThePriorities
<1>4. ASSUME NEW n \in Name, Leave(n)
      PROVE  RegistryInv'
  BY <1>4, LeaveKeeps
<1> QED BY <1>1, <1>2, <1>3, <1>4 DEF Next

\* In every state the links are a search tree's of the peers that are there.
THEOREM Registered == Spec => []RegistryInv
BY InitRegistry, NextRegistry, PTL DEF Spec

\* Until a peer leaves no one is above one of a smaller priority, for any
\* names and priorities: one rotation of TreapInsert's puts one pair right and
\* no other wrong.
THEOREM PrioritiesHeaped == Spec => []HeapOfThePriorities
<1>1. RegistryInv => HeapOfThePriorities
  BY DEF RegistryInv
<1> QED BY <1>1, Registered, PTL

\* The binary tree's children and the tree's branches stay the same through
\* every rotation and every detachment.
THEOREM LinksAlwaysAgree == Spec => []LinksAgree
<1>1. RegistryInv => LinksAgree
  <2> SUFFICES ASSUME RegistryInv, NEW n \in Name
               PROVE  /\ IsInjective(t.kids[n])
                      /\ ToSet(t.kids[n]) = {m \in Name : t.father[m] = n}
                      /\ ToSet(t.kids[n]) = {t.child[n][r] : r \in BOOLEAN} \ {NoPeer}
                      /\ n \notin procs \cup {Root} => t.kids[n] = <<>> /\ t.father[n] = NoPeer
    BY DEF LinksAgree
  <2> DEFINE T == procs \cup {Root}
  <2>1. PICK iv : IsTree(t, T, iv)
    BY DEF RegistryInv
  <2> HIDE DEF T
  <2>2. /\ t \in Tree /\ NoPeer \notin Name /\ T \subseteq Name /\ t.father[Root] = NoPeer
        /\ t.kids[n] \in Seq(Name) /\ t.child[n] \in [BOOLEAN -> Name \cup {NoPeer}]
    BY <2>1, TreapAssumption DEF IsTree, Shape, Tree
  <2>3. IsInjective(t.kids[n]) /\ \A c \in Name : c \in Kids(t, n) <=> \E r \in BOOLEAN : t.child[n][r] = c
    BY <2>1 DEF IsTree, Branches
  <2>4. Kids(t, n) \subseteq Name
    <3>1. DOMAIN t.kids[n] = 1..Len(t.kids[n])
      BY <2>2, LenProperties
    <3> QED BY <2>2, <3>1 DEF Kids, ToSet
  <2>5. Kids(t, n) = {t.child[n][r] : r \in BOOLEAN} \ {NoPeer}
    BY <2>2, <2>3, <2>4
  <2>6. \A m \in Name : t.father[m] = n <=> \E r \in BOOLEAN : t.child[n][r] = m
    <3>1. ASSUME NEW m \in Name, t.father[m] = n
          PROVE  \E r \in BOOLEAN : t.child[n][r] = m
      <4>1. m \in T /\ m # Root
        BY <2>1, <2>2, <3>1 DEF IsTree, Shape
      <4> QED BY <2>1, <3>1, <4>1 DEF IsTree, Shape
    <3>2. ASSUME NEW m \in Name, NEW r \in BOOLEAN, t.child[n][r] = m
          PROVE  t.father[m] = n
      <4>1. n \in T
        BY <2>1, <2>2, <3>2 DEF IsTree, Shape
      <4> QED BY <2>1, <2>2, <3>2, <4>1 DEF IsTree, Shape
    <3> QED BY <3>1, <3>2
  <2>7. Kids(t, n) = {m \in Name : t.father[m] = n}
    BY <2>3, <2>4, <2>6
  <2>8. n \notin T => t.kids[n] = <<>> /\ t.father[n] = NoPeer
    <3> SUFFICES ASSUME n \notin T
                 PROVE  t.kids[n] = <<>> /\ t.father[n] = NoPeer
      OBVIOUS
    <3>1. PeerDataCons(t, n) = t
      BY <2>1, PeerDataConsLinks
    <3>2. PeerDataCons(t, n).kids[n] = <<>>
      BY <2>2 DEF PeerDataCons, NoLinks, Tree
    <3> QED BY <2>1, <3>1, <3>2 DEF IsTree, Shape
  <2> QED BY <2>3, <2>5, <2>7, <2>8 DEF Kids, T
<1> QED BY <1>1, Registered, PTL

\* The treap implements the registry it is used as: through all rotations, a
\* name is found exactly while its peer is there.
THEOREM FindsThePeersRefined == Spec => FindsThePeers
<1>1. Init => Registry!Init
  BY DEF Init, Registry!Init
<1>2. RegistryInv /\ [Next]_vars => [Registry!Next]_<<procs, answer>>
  <2> SUFFICES ASSUME RegistryInv, [Next]_vars
               PROVE  Registry!Next \/ UNCHANGED <<procs, answer>>
    OBVIOUS
  <2>1. CASE UNCHANGED vars
    BY <2>1 DEF vars
  <2>2. ASSUME NEW n \in Name, Register(n)
        PROVE  Registry!Next
    BY <2>2, RegisterKeeps DEF Registry!Next
  <2>3. ASSUME NEW n \in Name, Find(n)
        PROVE  Registry!Next
    <3>1. PICK iv : IsTree(t, procs \cup {Root}, iv)
      BY DEF RegistryInv
    <3>2. answer' = IF n \in procs \cup {Root} THEN n ELSE NoPeer
      BY <2>3, <3>1, BinTreeFinds DEF Find, PeerDataFind
    <3>3. Registry!Find(n)
      BY <2>3, <3>2 DEF Find, Registry!Find, Registry!Found
    <3> QED BY <3>3 DEF Registry!Next
  <2>4. ASSUME NEW n \in Name, Leave(n)
        PROVE  Registry!Next
    BY <2>4, LeaveKeeps DEF Registry!Next
  <2> QED BY <2>1, <2>2, <2>3, <2>4 DEF Next
<1> QED BY <1>1, <1>2, Registered, PTL DEF Spec, FindsThePeers, Registry!Spec
==============================================================================
