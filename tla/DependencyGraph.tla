-------------------------- MODULE DependencyGraph ---------------------------
(***************************************************************************)
(* The graphs of the configuration (Graph): the loops of the parents of    *)
(* hosts and of the dependencies, which make a configuration invalid, and  *)
(* the packs of hosts that must be in one part. A graph is a function from *)
(* a node to the sequence of its sons; the tags of the search are passed   *)
(* along in a status. nodes is the order of the dictionary.                *)
(***************************************************************************)
EXTENDS Sequences, SequencesExt

\* add_nodes, add_edge, for the pairs that no_loop_in_parents goes through
AddEdge(graph, edge) == [graph EXCEPT ![edge[1]] = Append(@, edge[2])]

ParentsGraph(nodes, edges) ==
  FoldLeft(AddEdge, [n \in ToSet(nodes) |-> <<>>], edges)

RECURSIVE DfsLoopSearch(_, _, _)

\* What a son that was searched says of the root and of itself
FromSon(status, root, son) ==
  CASE status[son] = "TEMPORARY_CHECKED" ->
         [status EXCEPT ![son] = "LOOP_INSIDE", ![root] = "LOOP_INSIDE"]
    [] status[son] \in {"NEAR_LOOP", "LOOP_INSIDE"} ->
         [status EXCEPT ![root] = IF @ = "LOOP_INSIDE" THEN @ ELSE "NEAR_LOOP",
                        ![son] = "LOOP_INSIDE"]
    [] OTHER -> status

Enter(status, root) == [status EXCEPT ![root] = "TEMPORARY_CHECKED"]

\* dfs_loop_search
DfsLoopSearch(graph, status, root) ==
  LET Son(st, son) ==
        FromSon(IF st[son] = "UNCHECKED" THEN DfsLoopSearch(graph, st, son) ELSE st, root, son)
      ended == FoldLeft(Son, Enter(status, root), graph[root])
  IN IF ended[root] = "TEMPORARY_CHECKED" THEN [ended EXCEPT ![root] = "OK"] ELSE ended

Unchecked(nodes) == [n \in ToSet(nodes) |-> "UNCHECKED"]

\* One node of the loop of loop_check: it is in a loop as far as is known now.
LoopNode(graph, acc, node) ==
  LET status == IF acc.status[node] = "UNCHECKED" THEN DfsLoopSearch(graph, acc.status, node)
                ELSE acc.status
  IN [status |-> status,
      loop |-> IF status[node] = "LOOP_INSIDE" THEN acc.loop \cup {node} ELSE acc.loop]

\* loop_check
LoopCheck(nodes, graph) ==
  FoldLeft(LAMBDA acc, n : LoopNode(graph, acc, n),
           [status |-> Unchecked(nodes), loop |-> {}], nodes).loop

-----------------------------------------------------------------------------
(* The packs: edges go both ways. *)

RECURSIVE DfsGetAllChilds(_, _, _)

\* dfs_get_all_childs, from [checked, found]
DfsGetAllChilds(graph, acc, root) ==
  FoldLeft(LAMBDA a, son : IF son \in a.checked THEN a ELSE DfsGetAllChilds(graph, a, son),
           [checked |-> acc.checked \cup {root},
            found |-> acc.found \cup {root} \cup ToSet(graph[root])],
           graph[root])

\* get_accessibility_packs
GetAccessibilityPacks(nodes, graph) ==
  LET Pack(acc, node) ==
        IF node \in acc.checked THEN acc
        ELSE LET pack == DfsGetAllChilds(graph, [checked |-> acc.checked, found |-> {}], node)
             IN [checked |-> pack.checked, packs |-> Append(acc.packs, pack.found)]
  IN FoldLeft(Pack, [checked |-> {}, packs |-> <<>>], nodes).packs
=============================================================================
