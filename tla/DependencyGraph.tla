--------------------------- MODULE DependencyGraph ---------------------------
(***************************************************************************)
(* The dependent services and the dependency graph between them, under     *)
(* concurrent HTTP requests (service/dependent_service_service.go).        *)
(*                                                                         *)
(* A request loads the service it is about, reads all services to check    *)
(* that what it refers to exists, reads them AGAIN to check that the graph *)
(* would stay acyclic, and then writes its own row and an audit entry in   *)
(* one transaction.  Nothing ties the write to the graph that was checked. *)
(*                                                                         *)
(* Names, chains, trust references and service codes are left out: a       *)
(* request may be refused because of them at the step that looks at them.  *)
(***************************************************************************)
EXTENDS Naturals, FiniteSets, RolloverDomain, GraphShape

CONSTANTS
    Ids,        \* primary keys, assigned in increasing order
    NewNode,    \* ^uint(0), the id a service has before it is stored
    Workers,    \* requests the service handles at the same time
    Users,
    RoleOf,     \* [Users -> Roles]
    Teams,
    TeamOf,     \* [Users -> Teams]
    Requests,   \* the requests clients send
    Seed,       \* the services of database.seedDomain: [Ids -> Service]
    ReadsFail,  \* whether reading all services may fail
    NoUser, NoTeam, NoId

Service == [ state : {"absent", "active", "inactive"},
             team  : Teams \cup {NoTeam},
             edges : SUBSET Ids ]

Request == [ op    : {"none", "create", "update", "deactivate"},
             actor : Users \cup {NoUser},
             id    : Ids \cup {NoId},
             team  : Teams \cup {NoTeam},
             edges : SUBSET Ids ]

ASSUME IdsAssumption == Ids \subseteq Nat /\ IsFiniteSet(Ids) /\ NewNode \notin Ids /\ NoId \notin Ids
ASSUME UsersAssumption == RoleOf \in [Users -> Roles] /\ TeamOf \in [Users -> Teams]
ASSUME ReadsFailAssumption == ReadsFail \in BOOLEAN
ASSUME RequestsAssumption ==
    /\ Requests \subseteq Request
    /\ \A r \in Requests :
        /\ r.op # "none" /\ r.actor \in Users
        /\ r.op \in {"update", "deactivate"} => r.id \in Ids
        /\ r.op \in {"create", "update"} => r.team \in Teams
ASSUME SeedAssumption ==
    /\ Seed \in [Ids -> Service]
    /\ LET stored == {id \in Ids : Seed[id].state # "absent"}
           graph == [id \in stored |-> Seed[id].edges]
       IN Closed(graph) /\ Acyclic(graph)
    /\ \A id \in Ids : Seed[id].state = "absent" => Seed[id].edges = {}

VARIABLES
    services,   \* table dependent_services
    audit,      \* the last audit entry of each service
    pc,         \* the step each worker is about to take
    req,        \* the request it handles
    seen        \* the state of the loaded row, and the graph it checked

vars == <<services, audit, pc, req, seen>>

-----------------------------------------------------------------------------
(* Rows, entries, steps *)

States == {"absent", "active", "inactive"}

Entry == [action : {"none", "create", "update", "deactivate"}, before : States, after : States]

NoEntry == [action |-> "none", before |-> "absent", after |-> "absent"]

Graphs == UNION {[nodes -> SUBSET Ids] : nodes \in SUBSET Ids}

Seen == [state : States, graph : Graphs]

NoGraph == [n \in {} |-> {}]

Unread == [state |-> "absent", graph |-> NoGraph]

NoRequest == [op |-> "none", actor |-> NoUser, id |-> NoId, team |-> NoTeam, edges |-> {}]

Steps == {"idle", "load", "references", "cycle", "commit", "reply"}

Existing == {id \in Ids : services[id].state # "absent"}

\* DependentServiceRepository.All
Graph == [id \in Existing |-> services[id].edges]

\* What the second read of all services makes of it: its error is ignored, and
\* a failed read is an empty graph.
GraphsRead == {Graph} \cup (IF ReadsFail THEN {NoGraph} ELSE {})

TypeOK ==
    /\ services \in [Ids -> Service]
    /\ audit \in [Ids -> Entry]
    /\ pc \in [Workers -> Steps]
    /\ req \in [Workers -> Request]
    /\ seen \in [Workers -> Seen]

\* A database that has been seeded, and a backend with nothing to do.
Init ==
    /\ services = Seed
    /\ audit = [id \in Ids |-> NoEntry]
    /\ pc = [w \in Workers |-> "idle"]
    /\ req = [w \in Workers |-> NoRequest]
    /\ seen = [w \in Workers |-> Unread]

-----------------------------------------------------------------------------
(* Helpers *)

\* The bound on the table: the requests in flight still find a free id.
RoomForCreate ==
    Cardinality(Existing) + Cardinality({w \in Workers : req[w].op = "create"}) < Cardinality(Ids)

\* Primary keys grow.
NextId(id) ==
    /\ services[id].state = "absent"
    /\ \A other \in Ids : other < id => services[other].state # "absent"

Role(w) == RoleOf[req[w].actor]

Team(w) == TeamOf[req[w].actor]

\* requireServiceOwnership
MayModify(w, team) ==
    \/ Role(w) \in {"admin", "pki_operator"}
    \/ Role(w) = "service_owner" /\ Team(w) = team

\* servicesContainCycle: it also refuses an edge to a service it was not given.
ContainsCycle(graph) == ~Closed(graph) \/ ~Acyclic(graph)

\* The graph as it would be after the request of w.
Candidate(w, graph) ==
    IF req[w].op = "create"
    THEN [n \in DOMAIN graph \cup {NewNode} |-> IF n = NewNode THEN req[w].edges ELSE graph[n]]
    ELSE [n \in DOMAIN graph |-> IF n = req[w].id THEN req[w].edges ELSE graph[n]]

\* The request is answered and leaves the tables alone.
Finish(w) ==
    /\ pc' = [pc EXCEPT ![w] = "idle"]
    /\ req' = [req EXCEPT ![w] = NoRequest]
    /\ seen' = [seen EXCEPT ![w] = Unread]
    /\ UNCHANGED <<services, audit>>

Goto(w, step) ==
    /\ pc' = [pc EXCEPT ![w] = step]
    /\ UNCHANGED <<services, audit, req>>

\* The transaction: the row and its audit entry, or neither.
WriteWithAudit(w, id, row, action, before, after) ==
    /\ services' = [services EXCEPT ![id] = row]
    /\ audit' = [audit EXCEPT ![id] = [action |-> action, before |-> before, after |-> after]]
    /\ pc' = [pc EXCEPT ![w] = "reply"]
    /\ UNCHANGED <<req, seen>>

At(w, step, ops) == pc[w] = step /\ req[w].op \in ops

-----------------------------------------------------------------------------
(* Handlers *)

\* Only holders of dependency.write get past the middleware; a create has
\* nothing to load.
Receive(w) ==
    /\ pc[w] = "idle"
    /\ \E r \in Requests :
        /\ r.op = "create" => RoomForCreate
        /\ HasPermission(RoleOf[r.actor], "dependency.write")
        /\ req' = [req EXCEPT ![w] = r]
        /\ pc' = [pc EXCEPT ![w] = IF r.op = "create" THEN "references" ELSE "load"]
    /\ UNCHANGED <<services, audit, seen>>

\* GetByID and the checks on the loaded row.
Load(w) ==
    /\ At(w, "load", {"update", "deactivate"})
    /\ LET row == services[req[w].id]
           transfer == Role(w) = "service_owner" /\ req[w].team # Team(w)
       IN IF \/ row.state = "absent"
             \/ ~MayModify(w, row.team)
             \/ req[w].op = "update" /\ transfer
             \/ req[w].op = "deactivate" /\ row.state # "active"
          THEN Finish(w)
          ELSE /\ seen' = [seen EXCEPT ![w].state = row.state]
               /\ Goto(w, IF req[w].op = "update" THEN "references" ELSE "commit")

\* Fault: the edges are not looked up.
CheckReferencesUnchecked(w) ==
    /\ At(w, "references", {"create", "update"})
    /\ \/ Finish(w)
       \/ /\ req[w].op = "create" => MayModify(w, req[w].team)
          /\ req[w].op = "update" => req[w].id \notin req[w].edges
          /\ UNCHANGED seen
          /\ Goto(w, "cycle")

\* validateReferences (after the ownership check of a create): the chain, the
\* trust anchors, and all services.
CheckReferences(w) ==
    /\ At(w, "references", {"create", "update"})
    /\ \/ Finish(w)
       \/ /\ req[w].op = "create" => MayModify(w, req[w].team)
          /\ req[w].op = "update" => req[w].id \notin req[w].edges
          /\ req[w].edges \subseteq Existing
          /\ UNCHANGED seen
          /\ Goto(w, "cycle")

\* Fault: the graph that was read now includes the candidate.
CheckCycleKeepingCandidate(w) ==
    /\ At(w, "cycle", {"create", "update"})
    /\ \E graph \in GraphsRead :
         IF ContainsCycle(Candidate(w, graph)) THEN Finish(w)
         ELSE /\ seen' = [seen EXCEPT ![w].graph = Candidate(w, graph)]
              /\ Goto(w, "commit")

\* Fault: the graph is checked as it is, without the edges of the request.
CheckCycleOfOldGraph(w) ==
    /\ At(w, "cycle", {"create", "update"})
    /\ \E graph \in GraphsRead :
         IF ContainsCycle(graph) THEN Finish(w)
         ELSE /\ seen' = [seen EXCEPT ![w].graph = graph]
              /\ Goto(w, "commit")

\* servicesContainCycle on a second read of all services.
CheckCycle(w) ==
    /\ At(w, "cycle", {"create", "update"})
    /\ \E graph \in GraphsRead :
         IF ContainsCycle(Candidate(w, graph)) THEN Finish(w)
         ELSE /\ seen' = [seen EXCEPT ![w].graph = graph]
              /\ Goto(w, "commit")

CommitCreate(w) ==
    /\ At(w, "commit", {"create"})
    /\ \/ \E id \in Ids :
            /\ NextId(id)
            /\ WriteWithAudit(w, id,
                 [state |-> "active", team |-> req[w].team, edges |-> req[w].edges],
                 "create", "absent", "active")
       \/ Finish(w)    \* the service code is taken

\* Fault: the whole row is saved, as it was loaded.
CommitUpdateSavingRow(w) ==
    /\ At(w, "commit", {"update"})
    /\ WriteWithAudit(w, req[w].id,
         [state |-> seen[w].state, team |-> req[w].team, edges |-> req[w].edges],
         "update", seen[w].state, seen[w].state)

\* UPDATE ... WHERE id = ?, of every column but the state.
CommitUpdate(w) ==
    /\ At(w, "commit", {"update"})
    /\ WriteWithAudit(w, req[w].id,
         [services[req[w].id] EXCEPT !.team = req[w].team, !.edges = req[w].edges],
         "update", seen[w].state, seen[w].state)

\* UPDATE ... WHERE id = ? AND service_state = 'active'.
CommitDeactivate(w) ==
    /\ At(w, "commit", {"deactivate"})
    /\ IF services[req[w].id].state # "active" THEN Finish(w)
       ELSE WriteWithAudit(w, req[w].id,
              [services[req[w].id] EXCEPT !.state = "inactive"],
              "deactivate", seen[w].state, "inactive")

\* Get after the commit, or the failure of a statement before it (every error
\* is answered, and a transaction that fails is rolled back), or the death of
\* the backend that served the request.
Stop(w) ==
    /\ pc[w] # "idle"
    /\ Finish(w)

Next == \E w \in Workers :
    \/ Receive(w) \/ Load(w) \/ CheckReferences(w) \/ CheckCycle(w)
    \/ CommitCreate(w) \/ CommitUpdate(w) \/ CommitDeactivate(w) \/ Stop(w)

Spec == Init /\ [][Next]_vars

-----------------------------------------------------------------------------
(* Properties *)

\* Every dependency is a stored service other than the dependent itself,
\* although it was looked up two steps before it is stored.
EdgesResolve == \A id \in Existing : services[id].edges \subseteq Existing \ {id}

Writes(w) == pc[w] = "commit" /\ pc'[w] = "reply"

\* A write whose cycle check saw the graph as it still is leaves it acyclic,
\* also for a new service, which was checked under another id.
CheckedGraphStaysAcyclic ==
    [][\A w \in Workers :
         Writes(w) /\ req[w].op \in {"create", "update"} /\ seen[w].graph = Graph
         => ~ContainsCycle(Graph')]_vars

\* Nothing brings a deactivated service back, and the trail has one entry for
\* its deactivation: an update that loaded it before leaves its state alone.
DeactivatedForGood ==
    [][\A id \in Ids :
         /\ services[id].state = "inactive" => services'[id].state = "inactive"
         /\ audit'[id] # audit[id] /\ audit'[id].action = "deactivate" =>
              services[id].state = "active"]_vars

WorkerSound(w) ==
    /\ pc[w] # "idle" => req[w] \in Requests
    /\ pc[w] \in {"references", "cycle", "commit"} /\ req[w].op # "create" =>
         req[w].id \in Existing
    /\ pc[w] \in {"cycle", "commit"} /\ req[w].op \in {"create", "update"} =>
         /\ req[w].edges \subseteq Existing
         /\ req[w].op = "update" => req[w].id \notin req[w].edges
    /\ At(w, "commit", {"create", "update"}) => ~ContainsCycle(Candidate(w, seen[w].graph))

\* What was checked before the transaction and does still hold in it: services
\* that were found are still there. That the graph is still the one whose
\* cycles were checked is not among it.
ChecksStillHold == \A w \in Workers : WorkerSound(w)

-----------------------------------------------------------------------------
(* What the code says of itself and does not keep *)

\* "dependency graph would be cyclic": an update that would make
\* the graph cyclic is refused, so it never is.
DependenciesAcyclic == ~ContainsCycle(Graph)

=============================================================================
