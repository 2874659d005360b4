-------------------------------- MODULE Pipe --------------------------------
(***************************************************************************)
(* The pipe map of pipe.c, as pure operators.  A pipe has two lists, of    *)
(* its directions and of its references; a connection is a block of two    *)
(* halves, one in the directions of the pipe it leads from, one in the     *)
(* references of the pipe it leads to, that each know the other's list.    *)
(* A map m gives every pipe's two lists, and the pipe each half of every   *)
(* connection is at; the order of a list plays no part.                    *)
(***************************************************************************)
EXTENDS Naturals, FiniteSets

CONSTANTS PipeName, \* the names, which tell pipes apart
          NoPipe,   \* a null pointer
          ConnID    \* bound: the connections there is room for

ASSUME PipeAssumption == NoPipe \notin PipeName /\ IsFiniteSet(ConnID)

Pipes(m) == DOMAIN m.dirs

PipeTable(m) ==
  /\ Pipes(m) \subseteq PipeName
  /\ m.dirs \in [Pipes(m) -> SUBSET ConnID] /\ m.refs \in [Pipes(m) -> SUBSET ConnID]
  /\ m.from \in [ConnID -> PipeName \cup {NoPipe}] /\ m.to \in [ConnID -> PipeName \cup {NoPipe}]

NoPipes == [dirs |-> [p \in {} |-> {}], refs |-> [p \in {} |-> {}],
            from |-> [c \in ConnID |-> NoPipe], to |-> [c \in ConnID |-> NoPipe]]

\* PipeMap: the pipe of this name, which is made when there is none.
PipeMap(m, p) ==
  [dirs |-> [q \in Pipes(m) \cup {p} |-> IF q \in Pipes(m) THEN m.dirs[q] ELSE {}],
   refs |-> [q \in Pipes(m) \cup {p} |-> IF q \in Pipes(m) THEN m.refs[q] ELSE {}],
   from |-> m.from, to |-> m.to]

Unused(m) == {c \in ConnID : m.from[c] = NoPipe}

MakeConnection(m, p, q) ==
  IF Unused(m) = {} THEN m
  ELSE LET c == CHOOSE c \in Unused(m) : TRUE
       IN  [dirs |-> [m.dirs EXCEPT ![p] = @ \cup {c}],
            refs |-> [m.refs EXCEPT ![q] = @ \cup {c}],
            from |-> [m.from EXCEPT ![c] = p], to |-> [m.to EXCEPT ![c] = q]]

\* CutConnections goes through one list and drags the other half out of the
\* list that half knows.
CutDirections(m, p) ==
  LET C == m.dirs[p]
  IN  [dirs |-> [m.dirs EXCEPT ![p] = {}],
       refs |-> [q \in Pipes(m) |-> m.refs[q] \ {c \in C : m.to[c] = q}],
       from |-> [c \in ConnID |-> IF c \in C THEN NoPipe ELSE m.from[c]],
       to   |-> [c \in ConnID |-> IF c \in C THEN NoPipe ELSE m.to[c]]]

CutReferences(m, p) ==
  LET C == m.refs[p]
  IN  [dirs |-> [q \in Pipes(m) |-> m.dirs[q] \ {c \in C : m.from[c] = q}],
       refs |-> [m.refs EXCEPT ![p] = {}],
       from |-> [c \in ConnID |-> IF c \in C THEN NoPipe ELSE m.from[c]],
       to   |-> [c \in ConnID |-> IF c \in C THEN NoPipe ELSE m.to[c]]]

PipeDirectTo(m, p, q)     == MakeConnection(m, p, q)
PipeDirectOnlyTo(m, p, q) == MakeConnection(CutDirections(m, p), p, q)

\* The pipe is freed when its connections are.
Without(m, p) == [dirs |-> [q \in Pipes(m) \ {p} |-> m.dirs[q]],
                  refs |-> [q \in Pipes(m) \ {p} |-> m.refs[q]],
                  from |-> m.from, to |-> m.to]

\* Mutant of PipeDele: the pipes that flow into it still do.
PipeDeleDirections(m, p) == Without(CutDirections(m, p), p)

PipeDele(m, p) == Without(CutReferences(CutDirections(m, p), p), p)

\* Every pipe's two lists in turn.
PipeReset(m) ==
  [dirs |-> [p \in Pipes(m) |-> {}], refs |-> [p \in Pipes(m) |-> {}],
   from |-> [c \in ConnID |-> NoPipe], to |-> [c \in ConnID |-> NoPipe]]

Directions(m, p)  == {m.to[c] : c \in m.dirs[p]}
ifPipeTo(m, p, q) == q \in Directions(m, p)

\* A half is in its list as long as the other is in the other's, and both
\* pipes are there: nothing flows, and nothing is cut, through freed memory.
Linked(m) ==
  /\ Pipes(m) = DOMAIN m.refs
  /\ \A c \in ConnID :
       /\ m.from[c] \in Pipes(m) \cup {NoPipe} /\ m.to[c] \in Pipes(m) \cup {NoPipe}
       /\ m.from[c] = NoPipe <=> m.to[c] = NoPipe
       /\ \A p \in Pipes(m) : /\ c \in m.dirs[p] <=> p = m.from[c]
                              /\ c \in m.refs[p] <=> p = m.to[c]
=============================================================================
