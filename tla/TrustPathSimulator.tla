-------------------------- MODULE TrustPathSimulator --------------------------
(***************************************************************************)
(* algorithm.Simulate: which services lose their trust path at the         *)
(* critical times of a rollover, on a frozen input.                        *)
(*                                                                         *)
(* At each critical time every active service is evaluated by itself       *)
(* (evaluateDirect: has it a certificate chain that is valid and trusted   *)
(* then?), and then with everything it depends on (resolveService: a       *)
(* depth-first search that stops at the first service that fails).  A step *)
(* is a call of resolveService, the return of one, or an iteration of the  *)
(* loops of Simulate.                                                      *)
(*                                                                         *)
(* Times are numbers, a minute is Minute of them.  Names, reasons in words *)
(* and the ids a path was found by are left out.                           *)
(***************************************************************************)
EXTENDS Integers, Sequences, FiniteSets, GraphShape

CONSTANTS
    Services,   \* ids
    Chains,     \* ids
    Anchors,    \* ids
    Leaves,     \* leaf subjects
    Minute,
    Snapshots   \* the frozen inputs

Config == [ old : Anchors, new : Anchors, start : Int, end : Int, simulation : Int,
            candidates : SUBSET Chains ]

Chain == [ anchor : Anchors, leaf : Leaves, from : Int, to : Int, valid : BOOLEAN,
           state : {"imported", "validated", "deprecated", "revoked"} ]

Service == [ chain : Chains, trust : SUBSET Anchors, deps : SUBSET Services,
             state : {"active", "inactive"} ]

\* The chains and services in an input are those there were.
IsSnapshot(s) ==
    /\ DOMAIN s = {"config", "chains", "services"}
    /\ s.config \in Config
    /\ DOMAIN s.chains \subseteq Chains /\ s.chains \in [DOMAIN s.chains -> Chain]
    /\ DOMAIN s.services \subseteq Services /\ s.services \in [DOMAIN s.services -> Service]

ASSUME IdsAssumption == Services \subseteq Nat /\ IsFiniteSet(Services)
ASSUME MinuteAssumption == Minute \in Nat \ {0}
ASSUME SnapshotsAssumption == \A s \in Snapshots : IsSnapshot(s)

VARIABLES
    input,      \* the frozen input
    points,     \* the critical times still to come
    now,        \* the one being evaluated
    direct,     \* the active services, and whether each has a path of its own now
    todo,       \* the services still to be resolved now
    stack,      \* the calls of resolveService in progress, with the dependencies left
    evidence,   \* what was found: [Times x services]
    phase       \* "validate", "run", "refused" or "done"

vars == <<input, points, now, direct, todo, stack, evidence, phase>>

-----------------------------------------------------------------------------
(* Pure helpers *)

\* criticalTimes
CriticalTimes(config) ==
    LET start == config.start
        end == config.end
    IN {start - Minute, start, start + (end - start) \div 2, end, end + Minute, config.simulation}

\* Fault: the new anchor replaces the old one at the end of the overlap.
ActiveAnchorsEndExclusive(config, at) ==
    IF at < config.start THEN {config.old}
    ELSE IF at >= config.end THEN {config.new}
    ELSE {config.old, config.new}

\* activeAnchors: both ends of the overlap belong to it.
ActiveAnchors(config, at) ==
    IF at < config.start THEN {config.old}
    ELSE IF at > config.end THEN {config.new}
    ELSE {config.old, config.new}

\* evaluateDirect: the chains a service may present are its own and the
\* candidates for the same leaf.
HasPath(snapshot, id, at) ==
    LET service == snapshot.services[id]
    IN /\ service.chain \in DOMAIN snapshot.chains
       /\ \E c \in (snapshot.config.candidates \cup {service.chain}) \cap DOMAIN snapshot.chains :
            LET chain == snapshot.chains[c] IN
            /\ chain.leaf = snapshot.chains[service.chain].leaf
            /\ chain.state \notin {"revoked", "deprecated"}
            /\ chain.from <= at /\ at < chain.to
            /\ chain.valid
            /\ chain.anchor \in ActiveAnchors(snapshot.config, at)
            /\ chain.anchor \in service.trust

ActiveServices(snapshot) ==
    {id \in DOMAIN snapshot.services : snapshot.services[id].state = "active"}

DepsOf(id) == IF id \in DOMAIN input.services THEN input.services[id].deps ELSE {}

\* Fault: the dependencies of the frozen services are not searched.
ValidWithoutSearch(snapshot) ==
    /\ snapshot.config.old # snapshot.config.new
    /\ snapshot.config.start < snapshot.config.end
    /\ snapshot.config.candidates \subseteq DOMAIN snapshot.chains

\* ValidateSnapshot; both anchors are in the input, which is frozen after they
\* were read.
Valid(snapshot) ==
    /\ snapshot.config.old # snapshot.config.new
    /\ snapshot.config.start < snapshot.config.end
    /\ snapshot.config.candidates \subseteq DOMAIN snapshot.chains
    /\ Acyclic([id \in DOMAIN snapshot.services |-> snapshot.services[id].deps])

IsLeast(n, set) == n \in set /\ \A other \in set : n <= other

Finding == [ at : Int, id : Services, reachable : BOOLEAN, path : Seq(Services) ]

Frame == [node : Services, rest : SUBSET Services]

TypeOK ==
    /\ input \in Snapshots
    /\ points \in SUBSET CriticalTimes(input.config)
    /\ now \in CriticalTimes(input.config)
    /\ direct \in UNION {[ids -> BOOLEAN] : ids \in SUBSET Services}
    /\ todo \in SUBSET ActiveServices(input)
    /\ stack \in Seq(Frame)
    /\ evidence \subseteq Finding
    /\ phase \in {"validate", "run", "refused", "done"}

Init ==
    /\ input \in Snapshots
    /\ points = CriticalTimes(input.config)
    /\ now = input.config.start
    /\ direct = [id \in {} |-> FALSE]
    /\ todo = {}
    /\ stack = <<>>
    /\ evidence = {}
    /\ phase = "validate"

-----------------------------------------------------------------------------
(* Steps *)

Validate ==
    /\ phase = "validate"
    /\ phase' = IF Valid(input) THEN "run" ELSE "refused"
    /\ UNCHANGED <<input, points, now, direct, todo, stack, evidence>>

\* Fault: services that are not active are resolved as well.
StartPointOfAll ==
    /\ phase = "run" /\ todo = {} /\ stack = <<>>
    /\ \E at \in points :
        /\ IsLeast(at, points)
        /\ now' = at
        /\ points' = points \ {at}
        /\ direct' = [id \in ActiveServices(input) |-> HasPath(input, id, at)]
    /\ todo' = DOMAIN input.services
    /\ UNCHANGED <<input, stack, evidence, phase>>

\* Fault: services without a path of their own are not resolved.
StartPointOfReachable ==
    /\ phase = "run" /\ todo = {} /\ stack = <<>>
    /\ \E at \in points :
        /\ IsLeast(at, points)
        /\ now' = at
        /\ points' = points \ {at}
        /\ direct' = [id \in ActiveServices(input) |-> HasPath(input, id, at)]
        /\ todo' = {id \in ActiveServices(input) : HasPath(input, id, at)}
    /\ UNCHANGED <<input, stack, evidence, phase>>

\* The next critical time: every active service is evaluated by itself.
StartPoint ==
    /\ phase = "run" /\ todo = {} /\ stack = <<>>
    /\ \E at \in points :
        /\ IsLeast(at, points)
        /\ now' = at
        /\ points' = points \ {at}
        /\ direct' = [id \in ActiveServices(input) |-> HasPath(input, id, at)]
    /\ todo' = ActiveServices(input)
    /\ UNCHANGED <<input, stack, evidence, phase>>

Nodes(callers) == [i \in 1..Len(callers) |-> callers[i].node]

Found(id, reachable, path) ==
    evidence' = evidence \cup {[at |-> now, id |-> id, reachable |-> reachable, path |-> path]}

\* Fault: a dependency that is inactive, and was not evaluated, is passed over.
ResolveSkippingInactive(id, callers) ==
    LET root == IF callers = <<>> THEN id ELSE callers[1].node
        path == Append(Nodes(callers), id)
    IN IF id \notin DOMAIN direct THEN stack' = callers /\ UNCHANGED evidence
       ELSE IF (\E i \in 1..Len(callers) : callers[i].node = id) \/ ~direct[id]
       THEN stack' = <<>> /\ Found(root, FALSE, path)
       ELSE /\ stack' = Append(callers, [node |-> id, rest |-> DepsOf(id)])
            /\ UNCHANGED evidence

\* Fault: the path of a failure forgets who called.
ResolveWithoutCallers(id, callers) ==
    LET root == IF callers = <<>> THEN id ELSE callers[1].node
    IN IF id \notin DOMAIN direct \/ ~direct[id]
       THEN stack' = <<>> /\ Found(root, FALSE, <<id>>)
       ELSE /\ stack' = Append(callers, [node |-> id, rest |-> DepsOf(id)])
            /\ UNCHANGED evidence

\* resolveService(id), called by the last of callers.  A failure is handed up
\* by all of them to the service that is being resolved.
Resolve(id, callers) ==
    LET root == IF callers = <<>> THEN id ELSE callers[1].node
        path == Append(Nodes(callers), id)
        visiting == \E i \in 1..Len(callers) : callers[i].node = id
    IN IF id \notin DOMAIN direct \/ visiting \/ ~direct[id]
       THEN /\ stack' = <<>>
            /\ Found(root, FALSE, path)
       ELSE /\ stack' = Append(callers, [node |-> id, rest |-> DepsOf(id)])
            /\ UNCHANGED evidence

\* The loop over the active services.
ResolveNext ==
    /\ phase = "run" /\ stack = <<>>
    /\ \E id \in todo :
        /\ IsLeast(id, todo)
        /\ todo' = todo \ {id}
        /\ Resolve(id, <<>>)
    /\ UNCHANGED <<input, points, now, direct, phase>>

Top == stack[Len(stack)]

\* Fault: the loop over the dependencies does not advance.
FollowKeepingEdge ==
    /\ phase = "run" /\ stack # <<>>
    /\ \E id \in Top.rest :
        /\ IsLeast(id, Top.rest)
        /\ Resolve(id, stack)
    /\ UNCHANGED <<input, points, now, direct, todo, phase>>

\* The calls in progress once the next dependency is taken.
Advanced(id) == [stack EXCEPT ![Len(stack)] = [node |-> Top.node, rest |-> Top.rest \ {id}]]

\* The loop over the dependencies of the innermost call.
Follow ==
    /\ phase = "run" /\ stack # <<>>
    /\ \E id \in Top.rest :
        /\ IsLeast(id, Top.rest)
        /\ Resolve(id, Advanced(id))
    /\ UNCHANGED <<input, points, now, direct, todo, phase>>

\* The innermost call has found everything reachable.
Return ==
    /\ phase = "run" /\ stack # <<>> /\ Top.rest = {}
    /\ stack' = SubSeq(stack, 1, Len(stack) - 1)
    /\ IF Len(stack) = 1 THEN Found(Top.node, TRUE, <<Top.node>>) ELSE UNCHANGED evidence
    /\ UNCHANGED <<input, points, now, direct, todo, phase>>

Finish ==
    /\ phase = "run" /\ todo = {} /\ stack = <<>> /\ points = {}
    /\ phase' = "done"
    /\ UNCHANGED <<input, points, now, direct, todo, stack, evidence>>

Next == Validate \/ StartPoint \/ ResolveNext \/ Follow \/ Return \/ Finish

Spec == Init /\ [][Next]_vars

\* The function that was called runs.
FairSpec == Spec /\ WF_vars(Next)

-----------------------------------------------------------------------------
(* Properties *)

\* A service is well at a time when it is in a set of active services that all
\* have a path of their own then and depend on nothing outside the set.
IsWell(id, at) == \E set \in SUBSET ActiveServices(input) :
    /\ id \in set
    /\ \A member \in set : HasPath(input, member, at) /\ DepsOf(member) \subseteq set

\* What is found of a service is what holds of everything it depends on,
\* through any number of others and shared dependencies.
FindingsRight == \A f \in evidence : f.reachable <=> IsWell(f.id, f.at)

\* A broken path leads from the service along dependencies, all of them well
\* by themselves, to one that is inactive or has no path of its own.
BrokenPathsExact == \A f \in evidence : ~f.reachable =>
    LET last == f.path[Len(f.path)] IN
    /\ f.path[1] = f.id
    /\ \A i \in 1..Len(f.path) - 1 :
        f.path[i + 1] \in DepsOf(f.path[i]) /\ HasPath(input, f.path[i], f.at)
    /\ last \in ActiveServices(input) => ~HasPath(input, last, f.at)

\* An input that passed validation is never found to be cyclic later: no
\* broken path meets a service twice.
NoCycleMet == \A f \in evidence : \A i, j \in DOMAIN f.path : f.path[i] = f.path[j] => i = j

\* Each active service has one finding for each critical time at the end.
Complete == phase = "done" =>
    \A at \in CriticalTimes(input.config), id \in ActiveServices(input) :
        Cardinality({f \in evidence : f.at = at /\ f.id = id}) = 1

\* As long as no chain begins or ends meanwhile, the overlap loses no service
\* that is reachable on either side of it: both of its ends belong to it.
OverlapKeepsBothSides ==
    LET start == input.config.start
        end == input.config.end
        steady == \A c \in DOMAIN input.chains :
            input.chains[c].from <= start - Minute /\ end + Minute < input.chains[c].to
    IN steady => \A f, g \in evidence :
         f.reachable /\ f.at \in {start - Minute, end + Minute} /\ g.id = f.id /\ g.at \in start..end
         => g.reachable

\* The simulation ends.
Terminates == <>(phase \in {"refused", "done"})

-----------------------------------------------------------------------------
(* What the code says of itself and does not keep *)

\* "All active service trust paths remain reachable before, during, and after
\* the proposed overlap window" is the explanation when nothing was found.
ReachableThroughout ==
    phase = "done" /\ (\A f \in evidence : f.reachable) =>
        \A at \in input.config.start - Minute .. input.config.end + Minute,
           id \in ActiveServices(input) : IsWell(id, at)

=============================================================================
