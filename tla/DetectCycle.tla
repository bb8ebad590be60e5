---------------------------- MODULE DetectCycle ----------------------------
(***************************************************************************)
(* LockManager._detect_cycle of src/nodes/lock_manager.py: a depth-first    *)
(* search of the wait-for graph whose set of visited owners and whose stack *)
(* are shared by the searches from all owners.  DeadlockLoop relies on what *)
(* is shown here: a cycle is reported just when there is one.               *)
(*                                                                          *)
(* The edges are a list, in the order in which the answers of the nodes put *)
(* them there, with repetitions.  The calls of dfs that are in progress are *)
(* the ones for the owners on the stack; a step goes on from one call of    *)
(* dfs, or from one turn of its loop, to the next.  The code does not yield *)
(* in between: the steps are there to speak about the search half-way.      *)
(***************************************************************************)
EXTENDS LockTable, SequencesExt

CONSTANT MaxEdges  \* bound: edges gathered

VARIABLES
  given,    \* the list of edges
  phase,    \* "gather" while it is filled, "search", "ended"
  root,     \* edges of which the loop over graph.keys() has seen the first owner
  visited,  \* owners dfs was called for
  stack,    \* the owners dfs is in progress for, the outermost first
  looked,   \* looked[i]: how far in the list the loop of stack[i] has come
  cycle     \* what is returned, empty for None

search     == <<root, visited, stack, looked, cycle>>
searchVars == <<given, phase, search>>

-----------------------------------------------------------------------------

SearchInit ==
  /\ given = << >> /\ phase = "gather" /\ root = 0 /\ visited = {}
  /\ stack = << >> /\ looked = << >> /\ cycle = << >>

\* edges.extend(res['edges']), edge by edge.
Extend(e) ==
  /\ phase = "gather" /\ Len(given) < MaxEdges
  /\ given' = Append(given, e)
  /\ UNCHANGED <<phase, search>>

\* All nodes were asked: _detect_cycle is called.
Begin ==
  /\ phase = "gather"
  /\ phase' = "search"
  /\ UNCHANGED <<given, search>>

-----------------------------------------------------------------------------

\* Mutant: graph[n] holds the last owner only.
LastEdge(j, n, i) ==
  /\ j \in DOMAIN given /\ j > i /\ given[j][1] = n
  /\ \A k \in DOMAIN given : given[k][1] = n => k <= j

\* Mutant: each turn of the loop looks at the first neighbour.
FirstEdge(j, n, i) ==
  /\ j \in DOMAIN given /\ given[j][1] = n
  /\ \A k \in 1 .. j - 1 : given[k][1] # n

\* graph[n] has the owners n waits for in the order of the list: after its i-th
\* edge the j-th is the next of n.
NextEdge(j, n, i) ==
  /\ j \in DOMAIN given /\ j > i /\ given[j][1] = n
  /\ \A k \in i + 1 .. j - 1 : given[k][1] # n

NoneLeft(n, i) == \A j \in DOMAIN given : given[j][1] = n => j <= i

\* Mutant: the whole stack, with the owners that lead to the cycle.
WholeStack(n) == stack

\* The stack from n on: stack[idx:].
FromOn(n) ==
  SubSeq(stack, CHOOSE i \in DOMAIN stack : stack[i] = n, Len(stack))

\* dfs(n) is called; the loops that are in progress have come as far as l says.
\* A cycle is handed through all callers at once.
Dfs(n, l) ==
  \/ /\ Contains(stack, n)
     /\ cycle' = FromOn(n) /\ phase' = "ended"
     /\ looked' = l
     /\ UNCHANGED <<visited, stack>>
  \/ /\ ~Contains(stack, n) /\ n \in visited
     /\ looked' = l
     /\ UNCHANGED <<phase, visited, stack, cycle>>
  \/ /\ n \notin visited
     /\ visited' = visited \cup {n}
     /\ stack' = Append(stack, n) /\ looked' = Append(l, 0)
     /\ UNCHANGED <<phase, cycle>>

\* The loop over graph.keys().  The dictionary has each owner once; here one
\* that comes again was visited and its call returns at once.
SearchRoot ==
  /\ phase = "search" /\ stack = << >> /\ root < Len(given)
  /\ root' = root + 1
  /\ Dfs(given[root + 1][1], << >>)
  /\ UNCHANGED given

\* The loop over the neighbours of the last owner of the stack.
SearchNeighbour ==
  /\ phase = "search" /\ stack # << >>
  /\ \E j \in DOMAIN given :
       /\ NextEdge(j, Last(stack), Last(looked))
       /\ Dfs(given[j][2], [looked EXCEPT ![Len(looked)] = j])
  /\ UNCHANGED <<given, root>>

\* Mutant: an owner that is left may be visited again.
LeaveAfresh ==
  /\ phase = "search" /\ stack # << >>
  /\ NoneLeft(Last(stack), Last(looked))
  /\ stack' = Front(stack) /\ looked' = Front(looked)
  /\ visited' = visited \ {Last(stack)}
  /\ UNCHANGED <<given, phase, root, cycle>>

\* stack.pop(): no neighbour is left.
Leave ==
  /\ phase = "search" /\ stack # << >>
  /\ NoneLeft(Last(stack), Last(looked))
  /\ stack' = Front(stack) /\ looked' = Front(looked)
  /\ UNCHANGED <<given, phase, root, visited, cycle>>

\* No key is left: None.
NoCycle ==
  /\ phase = "search" /\ stack = << >> /\ root = Len(given)
  /\ phase' = "ended"
  /\ UNCHANGED <<given, search>>

SearchStep == SearchRoot \/ SearchNeighbour \/ Leave \/ NoCycle

SearchNext == (\E e \in Owners \X Owners : Extend(e)) \/ Begin \/ SearchStep

\* The function runs to its end.
SearchSpec == SearchInit /\ [][SearchNext]_searchVars /\ WF_searchVars(SearchStep)

-----------------------------------------------------------------------------

\* What is returned is a cycle of the graph: no owner twice, each waiting for the
\* next and the last for the first, without the owners that led to it.
CycleIsReal ==
  /\ \A i, j \in DOMAIN cycle : cycle[i] = cycle[j] => i = j
  /\ \A i \in DOMAIN cycle :
       <<cycle[i], IF i = Len(cycle) THEN cycle[1] ELSE cycle[i + 1]>> \in ToSet(given)

\* What NoVictim and PickVictim of DeadlockLoop rely on: None means that no owner
\* is on a cycle, and otherwise the victim, cycle[0], is on one, in whatever order
\* the edges come and wherever the search starts.
CycleIsFound ==
  phase = "ended" =>
    IF cycle = << >>
      THEN \A o \in Owners : ~OnCycle(ToSet(given), o)
      ELSE OnCycle(ToSet(given), cycle[1])

\* A search never comes back to where it was: it has visited an owner more, or
\* begins with a further one, or has left one, or looks at a further edge.  Each
\* of that ends, so the recursion does.
SearchAdvances ==
  [][phase = "search" /\ phase' = "search" =>
       /\ visited \subseteq visited'
       /\ visited' = visited =>
            /\ root' >= root
            /\ root' = root =>
                 \/ Len(stack') < Len(stack)
                 \/ Len(stack') = Len(stack) /\ Last(looked') > Last(looked)]_searchVars

\* The search of any graph, with cycles or without, returns.
SearchEnds == phase = "search" ~> phase = "ended"

=============================================================================
