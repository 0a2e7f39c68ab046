------------------------------ MODULE GraphShape ------------------------------
(***************************************************************************)
(* What the backend asks of a dependency graph.  A graph maps the services *)
(* there are to the services they depend on.                               *)
(***************************************************************************)

\* Every edge leads to a service of the graph.
Closed(graph) == \A n \in DOMAIN graph : graph[n] \subseteq DOMAIN graph

\* Every set of services has one that depends on none of them.
Acyclic(graph) == \A nodes \in SUBSET DOMAIN graph :
    nodes # {} => \E n \in nodes : graph[n] \cap nodes = {}

=============================================================================
