----------------------------- MODULE CycleSearch -----------------------------
(***************************************************************************)
(* The depth-first search for a dependency cycle, which the backend has    *)
(* twice: servicesContainCycle (service/common.go), which also refuses an  *)
(* edge to a service it was not given, and detectCycle                     *)
(* (algorithm/simulator.go), which follows such an edge to a service       *)
(* without edges.                                                          *)
(*                                                                         *)
(* A step is one call of visit, the end of one, or an iteration of the     *)
(* loop over the roots.  Go ranges over the map of roots in any order; the *)
(* edges of a service are followed in the increasing order they are        *)
(* stored in.                                                              *)
(***************************************************************************)
EXTENDS Naturals, Sequences, GraphShape

CONSTANT Ids

ASSUME IdsAssumption == Ids \subseteq Nat

VARIABLES
    strict,   \* whether this is servicesContainCycle
    edges,    \* the graph it was given
    state,    \* what is known of each service
    roots,    \* the services the outer loop still has to visit
    stack,    \* the calls of visit in progress, each with the edges it has left
    outcome

vars == <<strict, edges, state, roots, stack, outcome>>

Graphs == UNION {[nodes -> SUBSET Ids] : nodes \in SUBSET Ids}

\* The map lookup edges[n].
EdgesOf(n) == IF n \in DOMAIN edges THEN edges[n] ELSE {}

Frame == [node : Ids, rest : SUBSET Ids]

TypeOK ==
    /\ strict \in BOOLEAN
    /\ edges \in Graphs
    /\ state \in [Ids -> {"new", "open", "done"}]
    /\ roots \in SUBSET DOMAIN edges
    /\ stack \in Seq(Frame)
    /\ outcome \in {"running", "acyclic", "cycle", "missing"}
    /\ \A i \in 1..Len(stack) : stack[i].rest \subseteq EdgesOf(stack[i].node)

Init ==
    /\ strict \in BOOLEAN
    /\ edges \in Graphs
    /\ state = [n \in Ids |-> "new"]
    /\ roots = DOMAIN edges
    /\ stack = <<>>
    /\ outcome = "running"

-----------------------------------------------------------------------------
(* Steps *)

\* Fault: the services of the graph are ranged over, not the edges of one.
VisitRangingOverAll(n, callers) ==
    /\ state[n] = "new" => state' = [state EXCEPT ![n] = "open"]
    /\ state[n] # "new" => UNCHANGED state
    /\ stack' = IF state[n] = "new"
                THEN Append(callers, [node |-> n, rest |-> DOMAIN edges])
                ELSE callers
    /\ outcome' = IF state[n] = "open" THEN "cycle" ELSE outcome

\* Fault: a service is marked as done when it is entered.
VisitMarkingDone(n, callers) ==
    /\ state' = [state EXCEPT ![n] = "done"]
    /\ stack' = IF state[n] = "new"
                THEN Append(callers, [node |-> n, rest |-> EdgesOf(n)])
                ELSE callers
    /\ UNCHANGED outcome

\* visit(n), called by the last of callers.
Visit(n, callers) ==
    \/ /\ state[n] = "open"
       /\ outcome' = "cycle"
       /\ stack' = callers
       /\ UNCHANGED state
    \/ /\ state[n] = "done"
       /\ stack' = callers
       /\ UNCHANGED <<state, outcome>>
    \/ /\ state[n] = "new"
       /\ state' = [state EXCEPT ![n] = "open"]
       /\ stack' = Append(callers, [node |-> n, rest |-> EdgesOf(n)])
       /\ UNCHANGED outcome

\* The loop over the roots.
VisitRoot ==
    /\ outcome = "running" /\ stack = <<>>
    /\ \E n \in roots :
        /\ roots' = roots \ {n}
        /\ Visit(n, <<>>)
    /\ UNCHANGED <<strict, edges>>

Top == stack[Len(stack)]

\* The edge the innermost call looks at.
IsNextEdge(n) == n \in Top.rest /\ \A other \in Top.rest : n <= other

\* The calls in progress once that edge is taken.
Advanced(n) == [stack EXCEPT ![Len(stack)] = [node |-> Top.node, rest |-> Top.rest \ {n}]]

\* Fault: the loop over the edges does not advance past a service that is done.
FollowKeepingEdge ==
    /\ outcome = "running" /\ stack # <<>>
    /\ \E n \in Ids :
        /\ IsNextEdge(n)
        /\ IF strict /\ n \notin DOMAIN edges
           THEN outcome' = "missing" /\ UNCHANGED <<state, stack>>
           ELSE Visit(n, stack)
    /\ UNCHANGED <<strict, edges, roots>>

\* The loop over the edges of the innermost call.
Follow ==
    /\ outcome = "running" /\ stack # <<>>
    /\ \E n \in Ids :
        /\ IsNextEdge(n)
        /\ IF strict /\ n \notin DOMAIN edges
           THEN outcome' = "missing" /\ UNCHANGED <<state, stack>>
           ELSE Visit(n, Advanced(n))
    /\ UNCHANGED <<strict, edges, roots>>

\* Fault: a service stays open after its call has returned.
ReturnLeavingOpen ==
    /\ outcome = "running" /\ stack # <<>> /\ Top.rest = {}
    /\ stack' = SubSeq(stack, 1, Len(stack) - 1)
    /\ UNCHANGED <<strict, edges, state, roots, outcome>>

\* The innermost call has followed all its edges.
Return ==
    /\ outcome = "running" /\ stack # <<>> /\ Top.rest = {}
    /\ state' = [state EXCEPT ![Top.node] = "done"]
    /\ stack' = SubSeq(stack, 1, Len(stack) - 1)
    /\ UNCHANGED <<strict, edges, roots, outcome>>

\* The loop over the roots has ended without an error.
Accept ==
    /\ outcome = "running" /\ stack = <<>> /\ roots = {}
    /\ outcome' = "acyclic"
    /\ UNCHANGED <<strict, edges, state, roots, stack>>

Next == VisitRoot \/ Follow \/ Return \/ Accept

Spec == Init /\ [][Next]_vars

\* The function that was called runs.
FairSpec == Spec /\ WF_vars(Next)

-----------------------------------------------------------------------------
(* Properties *)

\* The search finds a cycle exactly when there is one, and refuses an edge out
\* of the graph exactly when it is strict and there is one: whatever the
\* order of the roots, through diamonds and shared dependencies.
VerdictRight ==
    /\ outcome = "acyclic" => Acyclic(edges) /\ (strict => Closed(edges))
    /\ outcome = "cycle" => ~Acyclic(edges)
    /\ outcome = "missing" => strict /\ ~Closed(edges)

\* The search ends.
Terminates == <>(outcome # "running")

Done == {n \in Ids : state[n] = "done"}

\* The calls in progress form a path of open services.
StackIsPath ==
    /\ \A i \in 1..Len(stack) : state[stack[i].node] = "open"
    /\ \A n \in Ids : state[n] = "open" => \E i \in 1..Len(stack) : stack[i].node = n
    /\ \A i, j \in 1..Len(stack) : stack[i].node = stack[j].node => i = j
    /\ \A i \in 1..Len(stack) - 1 : stack[i + 1].node \in EdgesOf(stack[i].node)

\* An edge that is not left leads to a service that is done, or to the next call.
FollowedEdges ==
    \A i \in 1..Len(stack) : \A n \in EdgesOf(stack[i].node) \ stack[i].rest :
        \/ n \in Done
        \/ i < Len(stack) /\ n = stack[i + 1].node

\* Services that are done lead only to such services, and to no cycle.
DoneIsAcyclic ==
    /\ \A n \in Done : EdgesOf(n) \subseteq Done
    /\ \A nodes \in SUBSET Done : nodes # {} => \E n \in nodes : EdgesOf(n) \cap nodes = {}

\* What the search knows in the middle of it is true, and so is what it says.
SearchSound ==
    /\ outcome = "running" => StackIsPath /\ FollowedEdges /\ DoneIsAcyclic
    /\ \A n \in DOMAIN edges \ roots : state[n] # "new"
    /\ strict => \A n \in Ids : state[n] # "new" => n \in DOMAIN edges
    /\ VerdictRight

=============================================================================
