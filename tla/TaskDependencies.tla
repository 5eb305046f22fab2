-------------------------- MODULE TaskDependencies --------------------------
(***************************************************************************)
(* task_dependencies.py: a graph of "must be done before" between tasks,   *)
(* grown one edge at a time by a caller that keeps the graph it is given   *)
(* back (the caller is external: so far the tests).  An edge's lag plays   *)
(* no part in the checks and is left out.                                  *)
(***************************************************************************)
EXTENDS Naturals, Sequences, FiniteSets, SequencesExt

CONSTANTS Tasks, UnknownTasks   \* known tasks; ids that name no task

ASSUME TaskAssumption == Tasks \subseteq Nat /\ UnknownTasks \subseteq Nat /\ Tasks \intersect UnknownTasks = {}

VARIABLES
  graph,   \* the edges, pairs of predecessor and successor
  answer   \* the last edge offered and the answer to it

dependencyVars == <<graph, answer>>

-----------------------------------------------------------------------------
Nodes(edges)         == UNION {{e[1], e[2]} : e \in edges}
Successors(n, edges) == {e[2] : e \in {x \in edges : x[1] = n}}
Sorted(S)            == SetToSortSeq(S, <)

\* visit(node): the depth-first search with its marks "new", "open" and "done".
\* A search is the marks so far and whether a cycle was met, which ends it.
RECURSIVE Visit(_, _, _)
Visit(search, n, edges) ==
  LET next(s, m) == IF s.cycle THEN s ELSE Visit(s, m, edges)
      below == FoldLeft(next, [search EXCEPT !.mark[n] = "open"], Sorted(Successors(n, edges)))
  IN CASE search.mark[n] = "open" -> [search EXCEPT !.cycle = TRUE]
       [] search.mark[n] = "done" -> search
       [] OTHER -> IF below.cycle THEN below ELSE [below EXCEPT !.mark[n] = "done"]

\* Mutant: the search begins at the first node only.
SearchesFirst(edges) ==
  LET start == [mark |-> [n \in Nodes(edges) |-> "new"], cycle |-> FALSE]
  IN edges # {} /\ Visit(start, Sorted(Nodes(edges))[1], edges).cycle

ContainsCycle(edges) ==
  LET start == [mark |-> [n \in Nodes(edges) |-> "new"], cycle |-> FALSE]
      from(s, n) == IF s.cycle \/ s.mark[n] # "new" THEN s ELSE Visit(s, n, edges)
  IN FoldLeft(from, start, Sorted(Nodes(edges))).cycle

-----------------------------------------------------------------------------
\* add_dependency: the first reason to refuse the edge, or VALID.
Verdict(edges, e) ==
  IF e[1] \notin Tasks                         THEN "MISSING_PREDECESSOR"
  ELSE IF e[2] \notin Tasks                    THEN "MISSING_SUCCESSOR"
  ELSE IF e[1] = e[2]                          THEN "SELF_CYCLE"
  ELSE IF e \in edges                          THEN "DUPLICATE_EDGE"
  ELSE IF ContainsCycle(edges \union {e})      THEN "CYCLE"
  ELSE "VALID"

Ids   == Tasks \union UnknownTasks
Codes == {"MISSING_PREDECESSOR", "MISSING_SUCCESSOR", "SELF_CYCLE", "DUPLICATE_EDGE", "CYCLE", "VALID"}

DependencyTypeOK ==
  /\ graph \subseteq Tasks \X Tasks
  /\ answer \in [edge : Ids \X Ids, code : Codes] \union {<<>>}

DependencyInit == graph = {} /\ answer = <<>>

\* The graph that is returned has the edge, or is the one that was given.
AddDependency(e) ==
  /\ answer' = [edge |-> e, code |-> Verdict(graph, e)]
  /\ graph' = IF Verdict(graph, e) = "VALID" THEN graph \union {e} ELSE graph

DependencyNext == \E e \in Ids \X Ids : AddDependency(e)

-----------------------------------------------------------------------------
\* There is a cycle when some tasks all wait for one another.
HasCycle(edges) ==
  \E S \in (SUBSET Nodes(edges)) \ {{}} : \A n \in S : S \intersect Successors(n, edges) # {}

\* The depth-first search and its early ends agree with the definition of a
\* cycle: a graph that grew edge by edge never has one, and an edge is refused
\* as a cycle only when it would close one.
RefusesExactlyCycles ==
  /\ ~HasCycle(graph)
  /\ answer # <<>> => (answer.code = "CYCLE" => HasCycle(graph \union {answer.edge}))
=============================================================================
