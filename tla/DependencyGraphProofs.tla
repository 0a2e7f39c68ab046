------------------------ MODULE DependencyGraphProofs ------------------------
(***************************************************************************)
(* Proofs about DependencyGraph for any services, teams, users, requests   *)
(* and workers.                                                            *)
(***************************************************************************)
EXTENDS DependencyGraph, TLAPS

USE IdsAssumption, UsersAssumption, RequestsAssumption, SeedAssumption, ReadsFailAssumption

-----------------------------------------------------------------------------
(* Types *)

LEMMA RequestTypes ==
    ASSUME NEW r \in Requests
    PROVE  /\ r \in Request /\ r.op \in {"create", "update", "deactivate"}
           /\ r.op \in {"update", "deactivate"} => r.id \in Ids
           /\ r.op \in {"create", "update"} => r.team \in Teams
           /\ r.edges \in SUBSET Ids
  <1>1. r \in Request
    OBVIOUS
  <1> QED
    BY <1>1 DEF Request

LEMMA NoGraphType == NoGraph \in Graphs
  <1>1. NoGraph \in [{} -> SUBSET Ids]
    BY DEF NoGraph
  <1>2. {} \in SUBSET Ids
    OBVIOUS
  <1> QED
    BY <1>1, <1>2 DEF Graphs

LEMMA GraphsReadType == TypeOK => GraphsRead \subseteq Graphs
  <1> SUFFICES ASSUME TypeOK PROVE GraphsRead \subseteq Graphs
    OBVIOUS
  <1>1. Existing \in SUBSET Ids
    BY DEF Existing
  <1>2. \A id \in Existing : services[id].edges \in SUBSET Ids
    BY <1>1 DEF TypeOK, Service
  <1>3. Graph \in [Existing -> SUBSET Ids]
    BY <1>2 DEF Graph
  <1> QED
    BY <1>1, <1>3, NoGraphType DEF GraphsRead, Graphs

LEMMA InitTypes == Init => TypeOK
  <1> SUFFICES ASSUME Init PROVE TypeOK
    OBVIOUS
  <1>1. NoEntry \in Entry
    BY DEF NoEntry, Entry, States
  <1>2. NoRequest \in Request
    BY DEF NoRequest, Request
  <1>3. Unread \in Seen
    BY NoGraphType DEF Unread, Seen, States
  <1> QED
    BY <1>1, <1>2, <1>3 DEF Init, TypeOK, Steps

LEMMA FinishTypes ==
    ASSUME TypeOK, NEW w \in Workers, Finish(w)
    PROVE  TypeOK'
  <1>1. NoRequest \in Request
    BY DEF NoRequest, Request
  <1>2. Unread \in Seen
    BY NoGraphType DEF Unread, Seen, States
  <1> QED
    BY <1>1, <1>2 DEF TypeOK, Finish, Steps

LEMMA WriteTypes ==
    ASSUME TypeOK, NEW w \in Workers, NEW id \in Ids, NEW row \in Service,
           NEW action \in {"create", "update", "deactivate"},
           NEW before \in States, NEW after \in States,
           WriteWithAudit(w, id, row, action, before, after)
    PROVE  TypeOK'
  <1>1. [action |-> action, before |-> before, after |-> after] \in Entry
    BY DEF Entry
  <1> QED
    BY <1>1 DEF TypeOK, WriteWithAudit, Steps

-----------------------------------------------------------------------------
(* The inductive invariant *)

IndInv == TypeOK /\ EdgesResolve /\ ChecksStillHold

LEMMA InitInv == Init => IndInv
  <1> SUFFICES ASSUME Init PROVE IndInv
    OBVIOUS
  <1>1. TypeOK
    BY InitTypes
  <1>2. EdgesResolve
    <2> DEFINE stored == {id \in Ids : Seed[id].state # "absent"}
               graph == [id \in stored |-> Seed[id].edges]
    <2>1. Existing = stored
      BY DEF Init, Existing
    <2>2. Closed(graph) /\ Acyclic(graph) /\ DOMAIN graph = stored
      OBVIOUS
    <2>3. ASSUME NEW id \in stored PROVE Seed[id].edges \subseteq stored \ {id}
      <3>1. graph[id] \subseteq stored
        BY <2>2, <2>3 DEF Closed
      <3>2. {id} \in SUBSET DOMAIN graph /\ {id} # {}
        BY <2>2, <2>3
      <3>3. graph[id] \cap {id} = {}
        BY <2>2, <3>2 DEF Acyclic
      <3> QED
        BY <2>3, <3>1, <3>3
    <2> QED
      BY <2>1, <2>3 DEF EdgesResolve, Init
  <1>3. ChecksStillHold
    BY DEF Init, ChecksStillHold, WorkerSound, At
  <1> QED
    BY <1>1, <1>2, <1>3 DEF IndInv

\* Services are never deleted, so what a worker found is still there after a
\* step of another worker.
LEMMA OthersSound ==
    ASSUME NEW v \in Workers, WorkerSound(v), Existing \subseteq Existing',
           pc'[v] = pc[v], req'[v] = req[v], seen'[v] = seen[v]
    PROVE  WorkerSound(v)'
  <1>1. Candidate(v, seen[v].graph)' = Candidate(v, seen[v].graph)
    BY DEF Candidate
  <1> QED
    BY <1>1 DEF WorkerSound, At

LEMMA StepKeepsInv ==
    ASSUME IndInv, NEW w \in Workers, TypeOK', EdgesResolve', WorkerSound(w)',
           Existing \subseteq Existing',
           \A v \in Workers \ {w} : pc'[v] = pc[v] /\ req'[v] = req[v] /\ seen'[v] = seen[v]
    PROVE  IndInv'
  <1>1. ASSUME NEW v \in Workers PROVE WorkerSound(v)'
    BY <1>1, OthersSound DEF IndInv, ChecksStillHold
  <1> QED
    BY <1>1 DEF IndInv, ChecksStillHold

\* A step that leaves the table alone needs to look only at its own worker.
LEMMA ReadOnlyKeepsInv ==
    ASSUME IndInv, NEW w \in Workers, TypeOK', services' = services, WorkerSound(w)',
           \A v \in Workers \ {w} : pc'[v] = pc[v] /\ req'[v] = req[v] /\ seen'[v] = seen[v]
    PROVE  IndInv'
  <1>1. Existing' = Existing /\ EdgesResolve'
    BY DEF IndInv, EdgesResolve, Existing
  <1> QED
    BY <1>1, StepKeepsInv

LEMMA FinishKeepsInv ==
    ASSUME IndInv, NEW w \in Workers, Finish(w)
    PROVE  IndInv'
  <1>1. TypeOK'
    BY FinishTypes DEF IndInv
  <1>2. pc'[w] = "idle"
    BY DEF IndInv, TypeOK, Finish
  <1>3. WorkerSound(w)'
    BY <1>2 DEF WorkerSound, At
  <1>4. /\ services' = services
        /\ \A v \in Workers \ {w} : pc'[v] = pc[v] /\ req'[v] = req[v] /\ seen'[v] = seen[v]
    BY DEF Finish, IndInv, TypeOK
  <1> QED
    BY <1>1, <1>3, <1>4, ReadOnlyKeepsInv

LEMMA ReceiveKeepsInv ==
    ASSUME IndInv, NEW w \in Workers, Receive(w)
    PROVE  IndInv'
  <1>1. PICK r \in Requests :
          /\ req' = [req EXCEPT ![w] = r]
          /\ pc' = [pc EXCEPT ![w] = IF r.op = "create" THEN "references" ELSE "load"]
          /\ UNCHANGED <<services, audit, seen>>
    BY DEF Receive
  <1>2. TypeOK'
    BY <1>1, RequestTypes DEF IndInv, TypeOK, Steps
  <1>3. req'[w] = r /\ pc'[w] = IF r.op = "create" THEN "references" ELSE "load"
    BY <1>1 DEF IndInv, TypeOK
  <1>4. WorkerSound(w)'
    BY <1>3 DEF WorkerSound, At
  <1> QED
    BY <1>1, <1>2, <1>4, ReadOnlyKeepsInv DEF IndInv, TypeOK

LEMMA LoadKeepsInv ==
    ASSUME IndInv, NEW w \in Workers, Load(w)
    PROVE  IndInv'
  <1>1. CASE Finish(w)
    BY <1>1, FinishKeepsInv
  <1>2. CASE ~Finish(w)
    <2> DEFINE row == services[req[w].id]
               step == IF req[w].op = "update" THEN "references" ELSE "commit"
    <2>1. /\ pc[w] = "load" /\ req[w].op \in {"update", "deactivate"} /\ row.state # "absent"
          /\ seen' = [seen EXCEPT ![w].state = row.state]
          /\ pc' = [pc EXCEPT ![w] = step]
          /\ UNCHANGED <<services, audit, req>>
      BY <1>2 DEF Load, At, Goto
    <2>2. req[w] \in Requests /\ req[w].id \in Ids /\ row.state \in States
      BY <2>1, RequestTypes DEF IndInv, ChecksStillHold, WorkerSound, TypeOK, Service, States
    <2>3. TypeOK'
      <3>1. [seen[w] EXCEPT !.state = row.state] \in Seen
        BY <2>2 DEF IndInv, TypeOK, Seen
      <3>2. seen' = [seen EXCEPT ![w] = [seen[w] EXCEPT !.state = row.state]]
        BY <2>1
      <3> QED
        BY <2>1, <3>1, <3>2 DEF IndInv, TypeOK, Steps
    <2>4. pc'[w] = step /\ req'[w] = req[w]
      BY <2>1 DEF IndInv, TypeOK
    <2>5. WorkerSound(w)'
      BY <2>1, <2>2, <2>4 DEF WorkerSound, At, Existing
    <2> QED
      BY <2>1, <2>3, <2>5, ReadOnlyKeepsInv DEF IndInv, TypeOK
  <1> QED
    BY <1>1, <1>2

LEMMA CheckReferencesKeepsInv ==
    ASSUME IndInv, NEW w \in Workers, CheckReferences(w)
    PROVE  IndInv'
  <1>1. CASE Finish(w)
    BY <1>1, FinishKeepsInv
  <1>2. CASE ~Finish(w)
    <2>1. /\ pc[w] = "references" /\ req[w].edges \subseteq Existing
          /\ req[w].op = "update" => req[w].id \notin req[w].edges
          /\ pc' = [pc EXCEPT ![w] = "cycle"]
          /\ UNCHANGED <<services, audit, req, seen>>
      BY <1>2 DEF CheckReferences, At, Goto
    <2>2. TypeOK'
      BY <2>1 DEF IndInv, TypeOK, Steps
    <2>3. pc'[w] = "cycle" /\ req'[w] = req[w] /\ Existing' = Existing
      BY <2>1 DEF IndInv, TypeOK, Existing
    <2>4. WorkerSound(w)'
      BY <2>1, <2>3 DEF WorkerSound, At, IndInv, ChecksStillHold
    <2> QED
      BY <2>1, <2>2, <2>4, ReadOnlyKeepsInv DEF IndInv, TypeOK
  <1> QED
    BY <1>1, <1>2

LEMMA CheckCycleKeepsInv ==
    ASSUME IndInv, NEW w \in Workers, CheckCycle(w)
    PROVE  IndInv'
  <1>1. CASE Finish(w)
    BY <1>1, FinishKeepsInv
  <1>2. CASE ~Finish(w)
    <2>1. PICK graph \in GraphsRead :
            /\ pc[w] = "cycle" /\ ~ContainsCycle(Candidate(w, graph))
            /\ seen' = [seen EXCEPT ![w].graph = graph]
            /\ pc' = [pc EXCEPT ![w] = "commit"]
            /\ UNCHANGED <<services, audit, req>>
      BY <1>2 DEF CheckCycle, At, Goto
    <2>2. graph \in Graphs
      BY GraphsReadType DEF IndInv
    <2>3. TypeOK'
      <3>1. [seen[w] EXCEPT !.graph = graph] \in Seen
        BY <2>2 DEF IndInv, TypeOK, Seen
      <3>2. seen' = [seen EXCEPT ![w] = [seen[w] EXCEPT !.graph = graph]]
        BY <2>1
      <3> QED
        BY <2>1, <3>1, <3>2 DEF IndInv, TypeOK, Steps
    <2>4. /\ pc'[w] = "commit" /\ req'[w] = req[w] /\ Existing' = Existing
          /\ seen'[w].graph = graph
      BY <2>1 DEF IndInv, TypeOK, Existing, Seen
    <2>5. Candidate(w, seen[w].graph)' = Candidate(w, graph)
      BY <2>4 DEF Candidate
    <2>6. WorkerSound(w)'
      BY <2>1, <2>4, <2>5 DEF WorkerSound, At, IndInv, ChecksStillHold
    <2> QED
      BY <2>1, <2>3, <2>6, ReadOnlyKeepsInv DEF IndInv, TypeOK
  <1> QED
    BY <1>1, <1>2

\* A write of one row whose edges point to other services that are stored.
LEMMA WriteKeepsInv ==
    ASSUME IndInv, NEW w \in Workers, NEW id \in Ids, NEW row \in Service,
           NEW action \in {"create", "update", "deactivate"},
           NEW before \in States, NEW after \in States,
           WriteWithAudit(w, id, row, action, before, after),
           pc[w] = "commit", row.state # "absent", row.edges \subseteq Existing \ {id}
    PROVE  IndInv'
  <1>1. TypeOK'
    BY WriteTypes DEF IndInv
  <1>2. services' = [services EXCEPT ![id] = row] /\ services \in [Ids -> Service]
    BY DEF WriteWithAudit, IndInv, TypeOK
  <1>3. Existing' = Existing \cup {id}
    BY <1>2 DEF Existing
  <1>4. ASSUME NEW other \in Existing'
        PROVE  services'[other].edges \subseteq Existing' \ {other}
    <2>1. CASE other = id
      BY <1>2, <1>3, <2>1
    <2>2. CASE other # id
      <3>1. other \in Existing /\ services'[other] = services[other]
        BY <1>2, <1>3, <2>2 DEF Existing
      <3> QED
        BY <1>3, <3>1 DEF IndInv, EdgesResolve
    <2> QED
      BY <2>1, <2>2
  <1>5. EdgesResolve'
    BY <1>4 DEF EdgesResolve
  <1>6. pc'[w] = "reply" /\ req'[w] = req[w]
    BY DEF WriteWithAudit, IndInv, TypeOK
  <1>7. WorkerSound(w)'
    BY <1>6 DEF WorkerSound, At, IndInv, ChecksStillHold
  <1>8. \A v \in Workers \ {w} : pc'[v] = pc[v] /\ req'[v] = req[v] /\ seen'[v] = seen[v]
    BY DEF WriteWithAudit, IndInv, TypeOK
  <1> QED
    BY <1>1, <1>3, <1>5, <1>7, <1>8, StepKeepsInv

LEMMA CommitCreateKeepsInv ==
    ASSUME IndInv, NEW w \in Workers, CommitCreate(w)
    PROVE  IndInv'
  <1>1. CASE Finish(w)
    BY <1>1, FinishKeepsInv
  <1>2. CASE ~Finish(w)
    <2> DEFINE row == [state |-> "active", team |-> req[w].team, edges |-> req[w].edges]
    <2>1. PICK id \in Ids :
            NextId(id) /\ WriteWithAudit(w, id, row, "create", "absent", "active")
      BY <1>2 DEF CommitCreate
    <2>2. pc[w] = "commit" /\ req[w].op = "create" /\ req[w] \in Requests
          /\ req[w].edges \subseteq Existing
      BY DEF CommitCreate, At, IndInv, ChecksStillHold, WorkerSound
    <2>3. row \in Service
      BY <2>2, RequestTypes DEF Service
    <2>4. req[w].edges \subseteq Existing \ {id}
      BY <2>1, <2>2 DEF NextId, Existing
    <2> QED
      BY <2>1, <2>2, <2>3, <2>4, WriteKeepsInv DEF States
  <1> QED
    BY <1>1, <1>2

\* What an update or a deactivation finds when it writes.
LEMMA InFlight ==
    ASSUME IndInv, NEW w \in Workers, At(w, "commit", {"update", "deactivate"})
    PROVE  /\ pc[w] = "commit" /\ req[w] \in Requests /\ req[w].id \in Ids
           /\ services[req[w].id] \in Service /\ services[req[w].id].state # "absent"
           /\ services[req[w].id].edges \subseteq Existing \ {req[w].id}
           /\ seen[w].state \in States
  <1>1. pc[w] = "commit" /\ req[w] \in Requests /\ req[w].id \in Existing
    BY DEF At, IndInv, ChecksStillHold, WorkerSound
  <1> QED
    BY <1>1 DEF Existing, IndInv, TypeOK, EdgesResolve, Seen

LEMMA CommitUpdateKeepsInv ==
    ASSUME IndInv, NEW w \in Workers, CommitUpdate(w)
    PROVE  IndInv'
  <1> DEFINE id  == req[w].id
             row == [services[id] EXCEPT !.team = req[w].team, !.edges = req[w].edges]
  <1>1. /\ pc[w] = "commit" /\ req[w].op = "update"
        /\ WriteWithAudit(w, id, row, "update", seen[w].state, seen[w].state)
    BY DEF CommitUpdate, At
  <1>2. /\ req[w] \in Requests /\ id \in Ids /\ services[id] \in Service
        /\ services[id].state # "absent" /\ seen[w].state \in States
    BY <1>1, InFlight DEF At
  <1>3. /\ row \in Service /\ row.state # "absent" /\ row.edges = req[w].edges
    BY <1>1, <1>2, RequestTypes DEF Service
  <1>4. req[w].edges \subseteq Existing \ {id}
    BY <1>1 DEF IndInv, ChecksStillHold, WorkerSound
  <1> QED
    BY <1>1, <1>2, <1>3, <1>4, WriteKeepsInv

LEMMA CommitDeactivateKeepsInv ==
    ASSUME IndInv, NEW w \in Workers, CommitDeactivate(w)
    PROVE  IndInv'
  <1>1. CASE Finish(w)
    BY <1>1, FinishKeepsInv
  <1>2. CASE ~Finish(w)
    <2> DEFINE id  == req[w].id
               row == [services[id] EXCEPT !.state = "inactive"]
    <2>1. WriteWithAudit(w, id, row, "deactivate", seen[w].state, "inactive")
      BY <1>2 DEF CommitDeactivate
    <2>2. /\ pc[w] = "commit" /\ id \in Ids /\ services[id] \in Service
          /\ services[id].edges \subseteq Existing \ {id} /\ seen[w].state \in States
      BY InFlight DEF CommitDeactivate, At
    <2>3. row \in Service /\ row.state = "inactive" /\ row.edges = services[id].edges
      BY <2>2 DEF Service
    <2> HIDE DEF row
    <2>4. row.state # "absent" /\ row.edges \subseteq Existing \ {id} /\ "inactive" \in States
      BY <2>2, <2>3 DEF States
    <2> QED
      BY <2>1, <2>2, <2>3, <2>4, WriteKeepsInv
  <1> QED
    BY <1>1, <1>2

LEMMA NextKeepsInv == IndInv /\ [Next]_vars => IndInv'
  <1> SUFFICES ASSUME IndInv, [Next]_vars PROVE IndInv'
    OBVIOUS
  <1>1. CASE UNCHANGED vars
    <2>1. Existing' = Existing
      BY <1>1 DEF vars, Existing
    <2>2. ASSUME NEW v \in Workers PROVE WorkerSound(v)'
      BY <1>1, <2>1, OthersSound DEF vars, IndInv, ChecksStillHold
    <2> QED
      BY <1>1, <2>1, <2>2 DEF vars, IndInv, TypeOK, EdgesResolve, ChecksStillHold
  <1>2. ASSUME NEW w \in Workers, Receive(w) PROVE IndInv'
    BY <1>2, ReceiveKeepsInv
  <1>3. ASSUME NEW w \in Workers, Load(w) PROVE IndInv'
    BY <1>3, LoadKeepsInv
  <1>4. ASSUME NEW w \in Workers, CheckReferences(w) PROVE IndInv'
    BY <1>4, CheckReferencesKeepsInv
  <1>5. ASSUME NEW w \in Workers, CheckCycle(w) PROVE IndInv'
    BY <1>5, CheckCycleKeepsInv
  <1>6. ASSUME NEW w \in Workers, CommitCreate(w) PROVE IndInv'
    BY <1>6, CommitCreateKeepsInv
  <1>7. ASSUME NEW w \in Workers, CommitUpdate(w) PROVE IndInv'
    BY <1>7, CommitUpdateKeepsInv
  <1>8. ASSUME NEW w \in Workers, CommitDeactivate(w) PROVE IndInv'
    BY <1>8, CommitDeactivateKeepsInv
  <1>9. ASSUME NEW w \in Workers, Stop(w) PROVE IndInv'
    BY <1>9, FinishKeepsInv DEF Stop
  <1> QED
    BY <1>1, <1>2, <1>3, <1>4, <1>5, <1>6, <1>7, <1>8, <1>9 DEF Next

LEMMA Invariance == Spec => []IndInv
  BY InitInv, NextKeepsInv, PTL DEF Spec

\* The service keeps its table and its requests in flight typed.
THEOREM TypeCorrectness == Spec => []TypeOK
  <1>1. IndInv => TypeOK
    BY DEF IndInv
  <1> QED
    BY <1>1, Invariance, PTL

\* No dependency dangles and no service depends on itself, however requests
\* interleave and whatever reads fail.
THEOREM DependenciesResolve == Spec => []EdgesResolve
  <1>1. IndInv => EdgesResolve
    BY DEF IndInv
  <1> QED
    BY <1>1, Invariance, PTL

\* Every check but the one on the whole graph is still true at the write.
THEOREM ChecksRemainTrue == Spec => []ChecksStillHold
  <1>1. IndInv => ChecksStillHold
    BY DEF IndInv
  <1> QED
    BY <1>1, Invariance, PTL

-----------------------------------------------------------------------------
(* Acyclicity *)

\* The graph that adds node x with these edges to another one.
Extends(bigger, graph, x, edges) ==
    /\ DOMAIN bigger = DOMAIN graph \cup {x}
    /\ bigger[x] = edges
    /\ \A n \in DOMAIN graph : bigger[n] = graph[n]

\* Storing a node under another name than it was checked under keeps the
\* graph closed and acyclic, as long as nothing points to either name.
LEMMA RenamedNodeStaysAcyclic ==
    ASSUME NEW graph, Closed(graph), NEW new, NEW id, NEW edges, NEW checked, NEW stored,
           new \notin DOMAIN graph, id \notin DOMAIN graph, edges \subseteq DOMAIN graph,
           Extends(checked, graph, new, edges), Extends(stored, graph, id, edges),
           Acyclic(checked)
    PROVE  ~ContainsCycle(stored)
  <1>1. Closed(stored)
    BY DEF Closed, Extends
  <1>2. ASSUME NEW nodes \in SUBSET DOMAIN stored, nodes # {}
        PROVE  \E n \in nodes : stored[n] \cap nodes = {}
    <2> DEFINE older == nodes \cap DOMAIN graph
    <2>1. CASE older = {}
      BY <1>2, <2>1 DEF Extends
    <2>2. CASE older # {}
      <3>1. PICK n \in older : checked[n] \cap older = {}
        <4>1. older \in SUBSET DOMAIN checked
          BY DEF Extends
        <4> QED
          BY <2>2, <4>1 DEF Acyclic
      <3>2. checked[n] = graph[n] /\ stored[n] = graph[n] /\ graph[n] \subseteq DOMAIN graph
        BY <3>1 DEF Closed, Extends
      <3> QED
        BY <3>1, <3>2
    <2> QED
      BY <2>1, <2>2
  <1>3. Acyclic(stored)
    BY <1>2 DEF Acyclic
  <1> QED
    BY <1>1, <1>3 DEF ContainsCycle

LEMMA GraphClosed == EdgesResolve => Closed(Graph) /\ DOMAIN Graph = Existing
  BY DEF EdgesResolve, Closed, Graph

LEMMA CreateStaysAcyclic ==
    ASSUME IndInv, NEW w \in Workers, CommitCreate(w), Writes(w), seen[w].graph = Graph
    PROVE  ~ContainsCycle(Graph')
  <1> DEFINE row == [state |-> "active", team |-> req[w].team, edges |-> req[w].edges]
  <1>1. PICK id \in Ids : NextId(id) /\ WriteWithAudit(w, id, row, "create", "absent", "active")
    BY DEF CommitCreate, Writes, Finish, IndInv, TypeOK
  <1>2. services' = [services EXCEPT ![id] = row] /\ services \in [Ids -> Service]
        /\ id \notin Existing
    BY <1>1 DEF WriteWithAudit, IndInv, TypeOK, NextId, Existing
  <1>3. Graph' = [n \in Existing \cup {id} |-> IF n = id THEN req[w].edges ELSE Graph[n]]
    <2>1. Existing' = Existing \cup {id}
      BY <1>2 DEF Existing
    <2>2. \A n \in Existing' : services'[n].edges = IF n = id THEN req[w].edges ELSE Graph[n]
      BY <1>2, <2>1 DEF Graph, Existing
    <2> QED
      BY <2>1, <2>2 DEF Graph
  <1>4. /\ req[w].op = "create" /\ req[w].edges \subseteq Existing
        /\ ~ContainsCycle(Candidate(w, Graph))
    BY DEF CommitCreate, At, IndInv, ChecksStillHold, WorkerSound
  <1>5. DOMAIN Graph = Existing /\ Closed(Graph)
    BY GraphClosed DEF IndInv
  <1>6. NewNode \notin Existing
    BY IdsAssumption DEF Existing
  <1>7. Acyclic(Candidate(w, Graph))
    BY <1>4 DEF ContainsCycle
  <1>8. Extends(Candidate(w, Graph), Graph, NewNode, req[w].edges)
    BY <1>4, <1>5, <1>6 DEF Candidate, Extends
  <1>9. Extends(Graph', Graph, id, req[w].edges)
    BY <1>2, <1>3, <1>5 DEF Extends
  <1> QED
    BY <1>2, <1>4, <1>5, <1>6, <1>7, <1>8, <1>9, RenamedNodeStaysAcyclic

LEMMA UpdateStaysAcyclic ==
    ASSUME IndInv, NEW w \in Workers, CommitUpdate(w), seen[w].graph = Graph
    PROVE  ~ContainsCycle(Graph')
  <1> DEFINE id  == req[w].id
             row == [services[id] EXCEPT !.team = req[w].team, !.edges = req[w].edges]
  <1>1. /\ id \in Ids /\ services[id] \in Service /\ services[id].state # "absent"
        /\ req[w].op = "update"
    BY InFlight DEF CommitUpdate, At
  <1>2. services' = [services EXCEPT ![id] = row] /\ services \in [Ids -> Service]
    BY DEF CommitUpdate, WriteWithAudit, IndInv, TypeOK
  <1>3. row.state = services[id].state /\ row.edges = req[w].edges
    BY <1>1 DEF Service
  <1>4. Graph' = [n \in Existing |-> IF n = id THEN req[w].edges ELSE Graph[n]]
    <2> HIDE DEF row
    <2>1. Existing' = Existing
      BY <1>1, <1>2, <1>3 DEF Existing
    <2>2. \A n \in Existing : services'[n].edges = IF n = id THEN req[w].edges ELSE Graph[n]
      BY <1>1, <1>2, <1>3 DEF Graph, Existing
    <2> QED
      BY <2>1, <2>2 DEF Graph
  <1>5. Graph' = Candidate(w, Graph)
    BY <1>1, <1>4, GraphClosed DEF Candidate, IndInv
  <1>6. ~ContainsCycle(Candidate(w, Graph))
    BY DEF CommitUpdate, At, IndInv, ChecksStillHold, WorkerSound
  <1> QED
    BY <1>5, <1>6

LEMMA StepStaysAcyclic ==
    ASSUME IndInv, [Next]_vars, NEW w \in Workers,
           Writes(w), req[w].op \in {"create", "update"}, seen[w].graph = Graph
    PROVE  ~ContainsCycle(Graph')
  <1>1. ~UNCHANGED vars
    BY DEF Writes, vars
  <1>2. ASSUME NEW v \in Workers, v # w,
               \/ Receive(v) \/ Load(v) \/ CheckReferences(v) \/ CheckCycle(v)
               \/ CommitCreate(v) \/ CommitUpdate(v) \/ CommitDeactivate(v) \/ Stop(v)
        PROVE  pc'[w] = pc[w]
    BY <1>2 DEF Receive, Load, CheckReferences, CheckCycle, CommitCreate, CommitUpdate,
                CommitDeactivate, Stop, Finish, Goto, WriteWithAudit, IndInv, TypeOK
  <1>3. \/ Receive(w) \/ Load(w) \/ CheckReferences(w) \/ CheckCycle(w)
        \/ CommitCreate(w) \/ CommitUpdate(w) \/ CommitDeactivate(w) \/ Stop(w)
    BY <1>1, <1>2 DEF Next, Writes
  <1>4. CommitCreate(w) \/ CommitUpdate(w)
    BY <1>3 DEF Receive, Load, CheckReferences, CheckCycle, CommitDeactivate, Stop, At,
                Finish, Writes, IndInv, TypeOK
  <1> QED
    BY <1>4, CreateStaysAcyclic, UpdateStaysAcyclic

\* A write whose check saw the present graph leaves the graph acyclic.
THEOREM CheckedWritesStayAcyclic == Spec => CheckedGraphStaysAcyclic
  <1>1. IndInv /\ [Next]_vars =>
          [\A w \in Workers :
             Writes(w) /\ req[w].op \in {"create", "update"} /\ seen[w].graph = Graph
             => ~ContainsCycle(Graph')]_vars
    BY StepStaysAcyclic
  <1> QED
    BY <1>1, Invariance, PTL DEF Spec, CheckedGraphStaysAcyclic

-----------------------------------------------------------------------------
(* What a cycle takes *)

LEMMA InitAcyclic == Init => DependenciesAcyclic
  <1> SUFFICES ASSUME Init PROVE DependenciesAcyclic
    OBVIOUS
  <1> DEFINE stored == {id \in Ids : Seed[id].state # "absent"}
  <1>1. Graph = [id \in stored |-> Seed[id].edges]
    BY DEF Init, Graph, Existing
  <1> QED
    BY <1>1 DEF DependenciesAcyclic, ContainsCycle

\* Whatever is not the write of a create or an update leaves the graph alone.
LEMMA OnlyWritesChangeGraph ==
    ASSUME IndInv, [Next]_vars,
           ~\E w \in Workers : Writes(w) /\ req[w].op \in {"create", "update"}
    PROVE  Graph' = Graph
  <1>1. ASSUME services' = services PROVE Graph' = Graph
    BY <1>1 DEF Graph, Existing
  <1>2. ASSUME NEW w \in Workers, CommitCreate(w) \/ CommitUpdate(w), ~Finish(w)
        PROVE  FALSE
    BY <1>2 DEF CommitCreate, CommitUpdate, WriteWithAudit, At, Writes, IndInv, TypeOK
  <1>3. ASSUME NEW w \in Workers, CommitDeactivate(w), ~Finish(w)
        PROVE  Graph' = Graph
    <2> DEFINE id  == req[w].id
               row == [services[id] EXCEPT !.state = "inactive"]
    <2>1. services' = [services EXCEPT ![id] = row] /\ services \in [Ids -> Service]
      BY <1>3 DEF CommitDeactivate, WriteWithAudit, IndInv, TypeOK
    <2>2. id \in Ids /\ services[id] \in Service /\ services[id].state # "absent"
      BY <1>3, InFlight DEF CommitDeactivate, At
    <2>3. row.state # "absent" /\ row.edges = services[id].edges
      BY <2>2 DEF Service
    <2> HIDE DEF row
    <2>4. Existing' = Existing /\ \A n \in Existing : services'[n].edges = services[n].edges
      BY <2>1, <2>2, <2>3 DEF Existing
    <2> QED
      BY <2>4 DEF Graph
  <1>4. ASSUME NEW w \in Workers,
               \/ Receive(w) \/ Load(w) \/ CheckReferences(w) \/ CheckCycle(w) \/ Stop(w) \/ Finish(w)
        PROVE  services' = services
    BY <1>4 DEF Receive, Load, CheckReferences, CheckCycle, Stop, Finish, Goto
  <1>5. UNCHANGED vars => services' = services
    BY DEF vars
  <1> QED
    BY <1>1, <1>2, <1>3, <1>4, <1>5 DEF Next

\* The graph that is written is the one that was searched.
WritesWhatWasSearched ==
    \A w \in Workers :
      Writes(w) /\ req[w].op \in {"create", "update"} => seen[w].graph = Graph

LEMMA SearchedStepStaysAcyclic ==
    IndInv /\ DependenciesAcyclic /\ [Next]_vars /\ WritesWhatWasSearched => DependenciesAcyclic'
  BY OnlyWritesChangeGraph, StepStaysAcyclic DEF DependenciesAcyclic, WritesWhatWasSearched

\* The gap between the search and the write is the only way to a cycle: in every run in
\* which each write finds the graph its search has read, dependencies stay acyclic, for
\* any number of overlapping requests.
THEOREM CyclesNeedTheGap == Spec /\ [][WritesWhatWasSearched]_vars => []DependenciesAcyclic
  <1>1. IndInv /\ DependenciesAcyclic /\ [Next]_vars /\ [WritesWhatWasSearched]_vars
        => DependenciesAcyclic'
    <2>1. UNCHANGED vars => Graph' = Graph
      BY DEF vars, Graph, Existing
    <2> QED
      BY <2>1, SearchedStepStaysAcyclic DEF DependenciesAcyclic
  <1> QED
    BY <1>1, InitAcyclic, Invariance, PTL DEF Spec

\* What a single worker has searched is there when it writes.
SearchIsCurrent ==
    \A w \in Workers : At(w, "commit", {"create", "update"}) => seen[w].graph = Graph

LEMMA AloneSearchIsCurrent ==
    ASSUME \A v, w \in Workers : v = w, ReadsFail = FALSE,
           IndInv, SearchIsCurrent, [Next]_vars
    PROVE  SearchIsCurrent'
  <1> SUFFICES ASSUME NEW w \in Workers, At(w, "commit", {"create", "update"})'
               PROVE  seen'[w].graph = Graph'
    BY DEF SearchIsCurrent
  <1>1. CASE UNCHANGED vars
    BY <1>1 DEF vars, SearchIsCurrent, At, Graph, Existing
  <1>2. CASE CheckCycle(w)
    <2>1. GraphsRead = {Graph}
      BY DEF GraphsRead
    <2>2. seen' = [seen EXCEPT ![w].graph = Graph] /\ services' = services
      BY <1>2, <2>1 DEF CheckCycle, Goto, Finish, At, IndInv, TypeOK
    <2> QED
      BY <2>2 DEF IndInv, TypeOK, Seen, Graph, Existing
  <1>3. CASE ~UNCHANGED vars /\ ~CheckCycle(w)
    <2>1. \/ Receive(w) \/ Load(w) \/ CheckReferences(w)
          \/ CommitCreate(w) \/ CommitUpdate(w) \/ CommitDeactivate(w) \/ Stop(w)
      BY <1>3 DEF Next
    <2>2. pc'[w] = "commit" /\ req'[w].op \in {"create", "update"}
      BY DEF At
    <2> QED
      BY <2>1, <2>2 DEF Receive, Load, CheckReferences, CommitCreate, CommitUpdate,
                        CommitDeactivate, Stop, Finish, Goto, WriteWithAudit, At, IndInv, TypeOK
  <1> QED
    BY <1>1, <1>2, <1>3

\* One request at a time, and no read of the graph that fails unnoticed: then the check
\* does what its error message says, and dependencies stay acyclic.
THEOREM AloneDependenciesStayAcyclic ==
    ASSUME \A v, w \in Workers : v = w, ReadsFail = FALSE
    PROVE  Spec => []DependenciesAcyclic
  <1>1. Init => SearchIsCurrent
    BY DEF Init, SearchIsCurrent, At
  <1>2. IndInv /\ SearchIsCurrent /\ [Next]_vars => SearchIsCurrent'
    BY AloneSearchIsCurrent
  <1>3. IndInv /\ SearchIsCurrent /\ [Next]_vars => [WritesWhatWasSearched]_vars
    <2>1. ASSUME NEW w \in Workers, Writes(w), req[w].op \in {"create", "update"}, SearchIsCurrent
          PROVE  seen[w].graph = Graph
      BY <2>1 DEF SearchIsCurrent, Writes, At
    <2> QED
      BY <2>1 DEF WritesWhatWasSearched
  <1> QED
    BY <1>1, <1>2, <1>3, Invariance, CyclesNeedTheGap, PTL DEF Spec

-----------------------------------------------------------------------------
(* Deactivation *)

LEMMA StepDeactivates ==
    ASSUME IndInv, [Next]_vars, NEW id \in Ids
    PROVE  /\ services[id].state = "inactive" => services'[id].state = "inactive"
           /\ audit'[id] # audit[id] /\ audit'[id].action = "deactivate" =>
                services[id].state = "active"
  <1>1. CASE UNCHANGED <<services, audit>>
    BY <1>1
  <1>2. ASSUME NEW w \in Workers, CommitCreate(w), ~Finish(w)
        PROVE  /\ services[id].state = "inactive" => services'[id].state = "inactive"
               /\ audit'[id] # audit[id] => audit'[id].action # "deactivate"
    BY <1>2 DEF CommitCreate, WriteWithAudit, NextId, IndInv, TypeOK
  <1>3. ASSUME NEW w \in Workers, CommitUpdate(w)
        PROVE  /\ services[id].state = "inactive" => services'[id].state = "inactive"
               /\ audit'[id] # audit[id] => audit'[id].action # "deactivate"
    BY <1>3 DEF CommitUpdate, WriteWithAudit, IndInv, TypeOK, Service
  <1>4. ASSUME NEW w \in Workers, CommitDeactivate(w), ~Finish(w)
        PROVE  /\ services[id].state = "inactive" => services'[id].state = "inactive"
               /\ audit'[id] # audit[id] => services[id].state = "active"
    BY <1>4 DEF CommitDeactivate, WriteWithAudit, IndInv, TypeOK, Service
  <1>5. ASSUME NEW w \in Workers,
               \/ Receive(w) \/ Load(w) \/ CheckReferences(w) \/ CheckCycle(w) \/ Stop(w) \/ Finish(w)
        PROVE  UNCHANGED <<services, audit>>
    BY <1>5 DEF Receive, Load, CheckReferences, CheckCycle, Stop, Finish, Goto
  <1>6. UNCHANGED vars => UNCHANGED <<services, audit>>
    BY DEF vars
  <1> QED
    BY <1>1, <1>2, <1>3, <1>4, <1>5, <1>6 DEF Next

\* A service that was deactivated stays so, and its trail says so once.
THEOREM DeactivationIsFinal == Spec => DeactivatedForGood
  <1>1. IndInv /\ [Next]_vars =>
          [\A id \in Ids :
             /\ services[id].state = "inactive" => services'[id].state = "inactive"
             /\ audit'[id] # audit[id] /\ audit'[id].action = "deactivate" =>
                  services[id].state = "active"]_vars
    BY StepDeactivates
  <1> QED
    BY <1>1, Invariance, PTL DEF Spec, DeactivatedForGood

=============================================================================
