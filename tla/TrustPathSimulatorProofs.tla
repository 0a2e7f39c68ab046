----------------------- MODULE TrustPathSimulatorProofs -----------------------
(***************************************************************************)
(* What Simulate reports is right on every frozen input.  The inductive    *)
(* invariant says of the calls of resolveService in progress that they are *)
(* a path of services that are well by themselves, that the dependencies   *)
(* they have followed are well, and that the service being resolved is     *)
(* only well if all of them are.                                           *)
(***************************************************************************)
EXTENDS TrustPathSimulator, SequenceTheorems, FiniteSetTheorems, TLAPS

\* The sets of services that IsWell asks for.
WellSet(set, at) ==
    \A member \in set : HasPath(input, member, at) /\ DepsOf(member) \subseteq set

\* What is common to the calls in progress and to the callers of a new one.
CallersSound(callers) ==
    /\ callers \in Seq(Frame)
    /\ \A i \in 1..Len(callers) :
        /\ callers[i].node \in ActiveServices(input) /\ HasPath(input, callers[i].node, now)
        /\ callers[i].rest \subseteq DepsOf(callers[i].node)
        /\ \A set \in SUBSET ActiveServices(input) :
             WellSet(set, now) /\ callers[1].node \in set => callers[i].node \in set
    /\ \A i, j \in 1..Len(callers) : callers[i].node = callers[j].node => i = j
    /\ \A i \in 1..Len(callers) - 1 : callers[i + 1].node \in DepsOf(callers[i].node)

DependenciesFollowed ==
    \A i \in 1..Len(stack) : \A n \in DepsOf(stack[i].node) \ stack[i].rest :
        \/ IsWell(n, now)
        \/ i < Len(stack) /\ n = stack[i + 1].node

DirectNow == direct = [id \in ActiveServices(input) |-> HasPath(input, id, now)]

SearchSound ==
    /\ phase = "validate" => todo = {} /\ stack = <<>>
    /\ phase = "run" => Valid(input)
    /\ todo # {} \/ stack # <<>> => phase = "run" /\ DirectNow
    /\ CallersSound(stack)
    /\ DependenciesFollowed

FindingsSound == FindingsRight /\ BrokenPathsExact /\ NoCycleMet

IndInv == TypeOK /\ SearchSound /\ FindingsSound

\* A service still has to be judged at a time that is to come, and at this one until
\* it is taken from the services to be resolved and its call is over.
Pending(at, id) ==
    \/ at \in points
    \/ at = now /\ (id \in todo \/ (stack # <<>> /\ stack[1].node = id))

FindingsOf(at, id) == {f \in evidence : f.at = at /\ f.id = id}

\* A service has no finding while it is pending, and then one.
EachFoundOnce ==
    \A at \in CriticalTimes(input.config), id \in ActiveServices(input) :
        IF Pending(at, id) THEN FindingsOf(at, id) = {} ELSE \E f \in evidence : FindingsOf(at, id) = {f}

CountInv ==
    /\ EachFoundOnce
    /\ todo # {} \/ stack # <<>> => now \notin points
    /\ stack # <<>> => stack[1].node \notin todo
    /\ phase = "done" => points = {} /\ todo = {} /\ stack = <<>>

-----------------------------------------------------------------------------
(* Facts about a frozen input *)

LEMMA InputTypes ==
    ASSUME TypeOK
    PROVE  /\ ActiveServices(input) \subseteq Services
           /\ ActiveServices(input) \subseteq DOMAIN input.services
           /\ DOMAIN input.services \subseteq Services
           /\ \A id \in Services : DepsOf(id) \subseteq Services
           /\ CriticalTimes(input.config) \subseteq Int
  <1>1. IsSnapshot(input)
    BY SnapshotsAssumption DEF TypeOK
  <1>2. DOMAIN input.services \subseteq Services /\ input.services \in [DOMAIN input.services -> Service]
    BY <1>1 DEF IsSnapshot
  <1>3. input.config.start \in Int /\ input.config.end \in Int /\ input.config.simulation \in Int
    BY <1>1 DEF IsSnapshot, Config
  <1>4. CriticalTimes(input.config) \subseteq Int
    BY <1>3, MinuteAssumption DEF CriticalTimes
  <1>5. \A id \in Services : DepsOf(id) \subseteq Services
    BY <1>2 DEF DepsOf, Service
  <1> QED
    BY <1>2, <1>4, <1>5 DEF ActiveServices

\* Being well is a matter of the input alone.
LEMMA WellIsFixed ==
    ASSUME input' = input
    PROVE  /\ \A id, at : IsWell(id, at)' <=> IsWell(id, at)
           /\ \A id : DepsOf(id)' = DepsOf(id)
           /\ \A set, at : WellSet(set, at)' <=> WellSet(set, at)
  BY DEF IsWell, DepsOf, WellSet

LEMMA WellBySet ==
    ASSUME NEW id, NEW at
    PROVE  IsWell(id, at) <=> \E set \in SUBSET ActiveServices(input) : id \in set /\ WellSet(set, at)
  BY DEF IsWell, WellSet

\* A service whose dependencies are well is well.
LEMMA WellByDependencies ==
    ASSUME NEW at, NEW id \in ActiveServices(input), HasPath(input, id, at),
           \A n \in DepsOf(id) : IsWell(n, at)
    PROVE  IsWell(id, at)
  <1> DEFINE well == {n \in ActiveServices(input) : IsWell(n, at)}
             set == well \cup {id}
  <1>1. \A n : IsWell(n, at) => n \in well
    BY DEF IsWell
  <1>2. ASSUME NEW n \in well
        PROVE  HasPath(input, n, at) /\ DepsOf(n) \subseteq well
    <2>1. PICK s \in SUBSET ActiveServices(input) : n \in s /\ WellSet(s, at)
      BY WellBySet
    <2>2. \A m \in s : IsWell(m, at)
      BY <2>1, WellBySet
    <2> QED
      BY <1>1, <2>1, <2>2 DEF WellSet
  <1>3. WellSet(set, at)
    BY <1>1, <1>2 DEF WellSet
  <1>4. set \in SUBSET ActiveServices(input) /\ id \in set
    OBVIOUS
  <1> HIDE DEF set
  <1> QED
    BY <1>3, <1>4, WellBySet

-----------------------------------------------------------------------------
(* A call of resolveService *)

\* What holds when the last of callers calls resolveService(id): as between
\* calls, but the edge to id is already taken.
Calling(callers, id) ==
    /\ id \in Services /\ phase = "run" /\ Valid(input) /\ DirectNow
    /\ CallersSound(callers)
    /\ callers # <<>> => id \in DepsOf(callers[Len(callers)].node)
    /\ \A i \in 1..Len(callers) : \A n \in DepsOf(callers[i].node) \ callers[i].rest :
        \/ IsWell(n, now)
        \/ i < Len(callers) /\ n = callers[i + 1].node
        \/ i = Len(callers) /\ n = id

\* A service never meets itself among its callers: validation found no cycle.
LEMMA NotVisiting ==
    ASSUME TypeOK, NEW callers, NEW id, Calling(callers, id),
           NEW k \in 1..Len(callers), callers[k].node = id
    PROVE  FALSE
  <1> DEFINE nodes == {callers[i].node : i \in k..Len(callers)}
             graph == [n \in DOMAIN input.services |-> input.services[n].deps]
  <1>1. Len(callers) \in Nat /\ callers # <<>>
    BY DEF Calling, CallersSound
  <1>2. \A i \in 1..Len(callers) : /\ callers[i].node \in DOMAIN input.services
                                   /\ DepsOf(callers[i].node) = graph[callers[i].node]
    BY InputTypes DEF Calling, CallersSound, DepsOf
  <1>3. ASSUME NEW i \in k..Len(callers)
        PROVE  callers[i].node \in DOMAIN graph /\ graph[callers[i].node] \cap nodes # {}
    <2>0. i \in 1..Len(callers)
      BY <1>1
    <2>1. CASE i = Len(callers)
      <3>1. id \in DepsOf(callers[i].node)
        BY <1>1, <2>1 DEF Calling
      <3>2. k \in k..Len(callers)
        BY <1>1
      <3>3. id \in nodes
        BY <3>2
      <3> QED
        BY <1>2, <2>0, <3>1, <3>3
    <2>2. CASE i # Len(callers)
      <3>1. i \in 1..Len(callers) - 1 /\ i + 1 \in k..Len(callers)
        BY <1>1, <2>2
      <3>2. callers[i + 1].node \in DepsOf(callers[i].node)
        BY <3>1 DEF Calling, CallersSound
      <3>3. callers[i + 1].node \in nodes
        BY <3>1
      <3> QED
        BY <1>2, <2>0, <3>2, <3>3
    <2> QED
      BY <2>1, <2>2
  <1>4. nodes \in SUBSET DOMAIN graph /\ nodes # {}
    <2>1. nodes \subseteq DOMAIN graph
      BY <1>3
    <2>2. k \in k..Len(callers)
      BY <1>1
    <2> QED
      BY <2>1, <2>2
  <1>5. \A n \in nodes : graph[n] \cap nodes # {}
    BY <1>3
  <1>6. Acyclic(graph)
    BY DEF Calling, Valid
  <1> HIDE DEF nodes, graph
  <1> QED
    BY <1>4, <1>5, <1>6 DEF Acyclic

\* A finding that is right is added to those there are.
LEMMA FoundKeepsSound ==
    ASSUME TypeOK, FindingsSound, input' = input,
           NEW id, NEW reachable, NEW path, Found(id, reachable, path),
           reachable <=> IsWell(id, now),
           \A i, j \in DOMAIN path : path[i] = path[j] => i = j,
           ~reachable =>
             /\ path[1] = id
             /\ \A i \in 1..Len(path) - 1 : path[i + 1] \in DepsOf(path[i]) /\ HasPath(input, path[i], now)
             /\ path[Len(path)] \in ActiveServices(input) => ~HasPath(input, path[Len(path)], now)
    PROVE  FindingsSound'
  <1> DEFINE f == [at |-> now, id |-> id, reachable |-> reachable, path |-> path]
  <1>1. \A g \in evidence' : g \in evidence \/ g = f
    BY DEF Found
  <1>2. FindingsRight'
    BY <1>1, WellIsFixed DEF FindingsSound, FindingsRight
  <1>3. BrokenPathsExact'
    BY <1>1, WellIsFixed DEF FindingsSound, BrokenPathsExact
  <1>4. NoCycleMet'
    BY <1>1 DEF FindingsSound, NoCycleMet
  <1> QED
    BY <1>2, <1>3, <1>4 DEF FindingsSound

LEMMA SameEvidenceKeepsSound ==
    ASSUME FindingsSound, UNCHANGED <<input, evidence>>
    PROVE  FindingsSound'
  BY WellIsFixed DEF FindingsSound, FindingsRight, BrokenPathsExact, NoCycleMet

\* The path that is reported when resolveService(id) fails.
LEMMA PathOfFailure ==
    ASSUME TypeOK, NEW callers, NEW id, Calling(callers, id)
    PROVE  LET path == Append(Nodes(callers), id) IN
           /\ path \in Seq(Services) /\ Len(path) = Len(callers) + 1
           /\ Len(callers) \in Nat
           /\ \A i \in 1..Len(callers) : path[i] = callers[i].node
           /\ path[Len(callers) + 1] = id
  <1>1. callers \in Seq(Frame) /\ Len(callers) \in Nat /\ id \in Services
    BY DEF Calling, CallersSound
  <1>2. \A i \in 1..Len(callers) : callers[i].node \in Services
    <2>1. \A i \in 1..Len(callers) : callers[i] \in Frame
      BY <1>1
    <2> QED
      BY <2>1 DEF Frame
  <1>3. /\ Nodes(callers) \in Seq(Services) /\ Len(Nodes(callers)) = Len(callers)
        /\ \A i \in 1..Len(callers) : Nodes(callers)[i] = callers[i].node
    BY <1>1, <1>2 DEF Nodes
  <1> QED
    BY <1>1, <1>3

\* The service that is being resolved is not well when a call fails.
LEMMA FailureMeansUnwell ==
    ASSUME TypeOK, NEW callers, NEW id, Calling(callers, id),
           id \notin DOMAIN direct \/ ~direct[id],
           NEW root, root = IF callers = <<>> THEN id ELSE callers[1].node
    PROVE  /\ id \in ActiveServices(input) => ~HasPath(input, id, now)
           /\ ~IsWell(root, now)
  <1>1. id \in ActiveServices(input) => ~HasPath(input, id, now)
    BY DEF Calling, DirectNow
  <1>2. ASSUME IsWell(root, now) PROVE FALSE
    <2>1. PICK set \in SUBSET ActiveServices(input) : root \in set /\ WellSet(set, now)
      BY <1>2, WellBySet
    <2>2. id \in set
      <3>1. CASE callers = <<>>
        BY <2>1, <3>1
      <3>2. CASE callers # <<>>
        <4>1. callers \in Seq(Frame) /\ Len(callers) \in 1..Len(callers)
          BY <3>2 DEF Calling, CallersSound
        <4>2. callers[Len(callers)].node \in set
          BY <2>1, <3>2, <4>1 DEF Calling, CallersSound
        <4> QED
          BY <2>1, <3>2, <4>2 DEF Calling, WellSet
      <3> QED
        BY <3>1, <3>2
    <2> QED
      BY <1>1, <2>1, <2>2 DEF WellSet
  <1> QED
    BY <1>1, <1>2

LEMMA FailureKeepsInv ==
    ASSUME IndInv, NEW callers, NEW id, Calling(callers, id),
           id \notin DOMAIN direct \/ ~direct[id],
           NEW root, root = IF callers = <<>> THEN id ELSE callers[1].node,
           stack' = <<>>, Found(root, FALSE, Append(Nodes(callers), id)),
           UNCHANGED <<input, points, now, direct, phase>>, todo' \in SUBSET todo
    PROVE  IndInv'
  <1> DEFINE path == Append(Nodes(callers), id)
             L == Len(callers)
  <1>1. TypeOK /\ SearchSound /\ FindingsSound
    BY DEF IndInv
  <1>2. /\ path \in Seq(Services) /\ Len(path) = L + 1 /\ L \in Nat
        /\ \A i \in 1..L : path[i] = callers[i].node
        /\ path[L + 1] = id /\ DOMAIN path = 1..L + 1
    <2>1. /\ path \in Seq(Services) /\ Len(path) = Len(callers) + 1 /\ Len(callers) \in Nat
          /\ \A i \in 1..Len(callers) : path[i] = callers[i].node
          /\ path[Len(callers) + 1] = id
      BY <1>1, PathOfFailure
    <2> HIDE DEF path
    <2> QED
      BY <2>1
  <1>3. ~IsWell(root, now) /\ (id \in ActiveServices(input) => ~HasPath(input, id, now))
    BY <1>1, FailureMeansUnwell
  <1>4. \A i \in 1..L : callers[i].node # id
    BY <1>1, NotVisiting
  <1>5. path[1] = root
    <2>1. CASE callers = <<>>
      BY <1>2, <2>1
    <2>2. CASE callers # <<>>
      <3>1. callers \in Seq(Frame) /\ 1 \in 1..L
        BY <2>2 DEF Calling, CallersSound
      <3> QED
        BY <1>2, <2>2, <3>1
    <2> QED
      BY <2>1, <2>2
  <1> HIDE DEF path, L
  <1>6. \A i, j \in DOMAIN path : path[i] = path[j] => i = j
    <2>1. \A i, j \in 1..L : callers[i].node = callers[j].node => i = j
      BY DEF Calling, CallersSound, L
    <2>2. \A i \in DOMAIN path : i \in 1..L \/ i = L + 1
      BY <1>2
    <2> QED
      BY <1>2, <1>4, <2>1, <2>2
  <1>7. ASSUME NEW i \in 1..Len(path) - 1
        PROVE  path[i + 1] \in DepsOf(path[i]) /\ HasPath(input, path[i], now)
    <2>1. i \in 1..L
      BY <1>2
    <2>2. HasPath(input, path[i], now)
      BY <1>2, <2>1 DEF Calling, CallersSound, L
    <2>3. CASE i = L
      <3>1. callers # <<>>
        BY <2>1 DEF L
      <3> QED
        BY <1>2, <2>1, <2>2, <2>3, <3>1 DEF Calling, L
    <2>4. CASE i # L
      <3>1. i \in 1..L - 1 /\ i + 1 \in 1..L
        BY <1>2, <2>1, <2>4
      <3>2. callers[i + 1].node \in DepsOf(callers[i].node)
        BY <3>1 DEF Calling, CallersSound, L
      <3> QED
        BY <1>2, <2>1, <2>2, <3>1, <3>2
    <2> QED
      BY <2>3, <2>4
  <1>8. path[Len(path)] \in ActiveServices(input) => ~HasPath(input, path[Len(path)], now)
    BY <1>2, <1>3
  <1>9. Found(root, FALSE, path)
    BY DEF path
  <1>10. FindingsSound'
    BY <1>1, <1>3, <1>5, <1>6, <1>7, <1>8, <1>9, FoundKeepsSound
  <1>11. root \in Services
    <2>1. 1 \in DOMAIN path
      BY <1>2
    <2> QED
      BY <1>2, <1>5, <2>1
  <1>12. TypeOK'
    <2>1. now \in Int
      BY <1>1, InputTypes DEF TypeOK
    <2>2. [at |-> now, id |-> root, reachable |-> FALSE, path |-> path] \in Finding
      BY <1>2, <1>11, <2>1 DEF Finding
    <2>3. evidence' \subseteq Finding
      BY <1>1, <1>9, <2>2 DEF Found, TypeOK
    <2> QED
      BY <1>1, <2>3 DEF TypeOK
  <1>13. SearchSound'
    <2>1. CallersSound(<<>>)'
      BY DEF CallersSound
    <2>2. CallersSound(stack)' /\ DependenciesFollowed'
      BY <2>1 DEF CallersSound, DependenciesFollowed
    <2>3. DirectNow' /\ Valid(input') /\ phase' = "run"
      BY DEF Calling, DirectNow
    <2> QED
      BY <2>2, <2>3 DEF SearchSound
  <1> QED
    BY <1>10, <1>12, <1>13 DEF IndInv

LEMMA ResolveKeepsInv ==
    ASSUME IndInv, NEW callers, NEW id, Calling(callers, id), Resolve(id, callers),
           UNCHANGED <<input, points, now, direct, phase>>, todo' \in SUBSET todo
    PROVE  IndInv'
  <1> DEFINE L == Len(callers)
             frame == [node |-> id, rest |-> DepsOf(id)]
  <1>1. TypeOK /\ SearchSound /\ FindingsSound
    BY DEF IndInv
  <1>2. \A i \in 1..L : callers[i].node # id
    BY <1>1, NotVisiting
  <1>3. CASE id \notin DOMAIN direct \/ ~direct[id]
    <2> DEFINE root == IF callers = <<>> THEN id ELSE callers[1].node
    <2>1. stack' = <<>> /\ Found(root, FALSE, Append(Nodes(callers), id))
      BY <1>3 DEF Resolve
    <2> HIDE DEF root
    <2>2. root = IF callers = <<>> THEN id ELSE callers[1].node
      BY DEF root
    <2> QED
      BY <1>3, <2>1, <2>2, FailureKeepsInv
  <1>4. CASE ~(id \notin DOMAIN direct \/ ~direct[id])
    <2>1. stack' = Append(callers, frame) /\ UNCHANGED evidence
      BY <1>2, <1>4 DEF Resolve
    <2>2. id \in ActiveServices(input) /\ HasPath(input, id, now)
      BY <1>4 DEF Calling, DirectNow
    <2>3. frame \in Frame /\ callers \in Seq(Frame)
      BY <1>1, InputTypes DEF Calling, CallersSound, Frame
    <2>4. /\ L \in Nat /\ Len(stack') = L + 1 /\ stack' \in Seq(Frame)
          /\ \A i \in 1..L : stack'[i] = callers[i]
          /\ stack'[L + 1] = frame
      BY <2>1, <2>3
    <2>5. frame.node = id /\ frame.rest = DepsOf(id)
      OBVIOUS
    <2> HIDE DEF L, frame
    <2>6. \A i \in 1..Len(stack') : i \in 1..L \/ i = L + 1
      BY <2>4
    <2>7. CallersSound(stack)'
      <3>1. ASSUME NEW i \in 1..Len(stack')
            PROVE  /\ stack'[i].node \in ActiveServices(input) /\ HasPath(input, stack'[i].node, now)
                   /\ stack'[i].rest \subseteq DepsOf(stack'[i].node)
        <4>1. CASE i \in 1..L
          BY <2>4, <4>1 DEF Calling, CallersSound, L
        <4>2. CASE i = L + 1
          BY <2>2, <2>4, <2>5, <4>2
        <4> QED
          BY <2>6, <4>1, <4>2
      <3>2. ASSUME NEW i \in 1..Len(stack'), NEW set \in SUBSET ActiveServices(input),
                   WellSet(set, now), stack'[1].node \in set
            PROVE  stack'[i].node \in set
        <4>1. CASE L = 0
          BY <2>4, <3>2, <4>1
        <4>2. CASE L # 0
          <5>1. 1 \in 1..L /\ L \in 1..L /\ callers # <<>>
            BY <2>4, <4>2 DEF L
          <5>2. \A j \in 1..L : callers[j].node \in set
            BY <2>4, <3>2, <5>1 DEF Calling, CallersSound, L
          <5>3. id \in DepsOf(callers[L].node)
            BY <5>1 DEF Calling, L
          <5>4. id \in set
            BY <3>2, <5>1, <5>2, <5>3 DEF WellSet
          <5> QED
            BY <2>4, <2>5, <2>6, <5>2, <5>4
        <4> QED
          BY <4>1, <4>2
      <3>3. \A i, j \in 1..Len(stack') : stack'[i].node = stack'[j].node => i = j
        <4>1. \A i, j \in 1..L : callers[i].node = callers[j].node => i = j
          BY DEF Calling, CallersSound, L
        <4>2. \A i \in 1..L : stack'[i].node = callers[i].node /\ callers[i].node # id
          BY <1>2, <2>4 DEF L
        <4>3. stack'[L + 1].node = id
          BY <2>4, <2>5
        <4> QED
          BY <2>6, <4>1, <4>2, <4>3
      <3>4. ASSUME NEW i \in 1..Len(stack') - 1
            PROVE  stack'[i + 1].node \in DepsOf(stack'[i].node)
        <4>1. CASE i = L
          <5>1. callers # <<>> /\ i \in 1..L
            BY <2>4, <4>1 DEF L
          <5> QED
            BY <2>4, <2>5, <4>1, <5>1 DEF Calling, L
        <4>2. CASE i # L
          <5>1. i \in 1..L - 1 /\ i \in 1..L /\ i + 1 \in 1..L
            BY <2>4, <4>2
          <5>2. callers[i + 1].node \in DepsOf(callers[i].node)
            BY <5>1 DEF Calling, CallersSound, L
          <5> QED
            BY <2>4, <5>1, <5>2
        <4> QED
          BY <4>1, <4>2
      <3> QED
        BY <2>4, <3>1, <3>2, <3>3, <3>4 DEF CallersSound, DepsOf, WellSet
    <2>8. DependenciesFollowed'
      <3> SUFFICES ASSUME NEW i \in 1..Len(stack'), NEW n \in DepsOf(stack'[i].node) \ stack'[i].rest
                   PROVE  IsWell(n, now) \/ (i < Len(stack') /\ n = stack'[i + 1].node)
        BY WellIsFixed DEF DependenciesFollowed
      <3>1. CASE i = L + 1
        BY <2>4, <2>5, <3>1
      <3>2. CASE i \in 1..L
        <4>1. IsWell(n, now) \/ (i < L /\ n = callers[i + 1].node) \/ (i = L /\ n = id)
          BY <2>4, <3>2 DEF Calling, L
        <4>2. CASE i < L /\ n = callers[i + 1].node
          BY <2>4, <3>2, <4>2
        <4>3. CASE i = L /\ n = id
          BY <2>4, <2>5, <4>3
        <4> QED
          BY <4>1, <4>2, <4>3
      <3> QED
        BY <2>6, <3>1, <3>2
    <2>9. TypeOK'
      BY <1>1, <2>1, <2>4 DEF TypeOK
    <2>10. DirectNow' /\ Valid(input') /\ phase' = "run"
      BY DEF Calling, DirectNow
    <2>11. SearchSound'
      BY <2>7, <2>8, <2>10 DEF SearchSound
    <2>12. FindingsSound'
      BY <1>1, <2>1, SameEvidenceKeepsSound
    <2> QED
      BY <2>9, <2>11, <2>12 DEF IndInv
  <1> QED
    BY <1>3, <1>4

-----------------------------------------------------------------------------
(* The steps *)

LEMMA InitInv == Init => IndInv
  <1> SUFFICES ASSUME Init PROVE IndInv
    OBVIOUS
  <1>1. TypeOK
    <2>1. direct \in [{} -> BOOLEAN] /\ {} \in SUBSET Services
      BY DEF Init
    <2>2. direct \in UNION {[ids -> BOOLEAN] : ids \in SUBSET Services}
      BY <2>1
    <2>3. now \in CriticalTimes(input.config)
      BY DEF Init, CriticalTimes
    <2> QED
      BY <2>2, <2>3 DEF Init, TypeOK
  <1>2. SearchSound
    BY DEF Init, SearchSound, CallersSound, DependenciesFollowed
  <1>3. FindingsSound
    BY DEF Init, FindingsSound, FindingsRight, BrokenPathsExact, NoCycleMet
  <1> QED
    BY <1>1, <1>2, <1>3 DEF IndInv

\* Steps outside of the search: it is not in progress before or after them.
LEMMA IdleSearchSound ==
    ASSUME SearchSound, stack = <<>>, UNCHANGED <<input, stack>>,
           phase' = "validate" => todo' = {},
           phase' = "run" => Valid(input),
           todo' # {} => phase' = "run" /\ DirectNow'
    PROVE  SearchSound'
  BY DEF SearchSound, CallersSound, DependenciesFollowed

LEMMA ValidateKeepsInv ==
    ASSUME IndInv, Validate
    PROVE  IndInv'
  <1>1. TypeOK /\ SearchSound /\ FindingsSound /\ stack = <<>> /\ todo = {}
    BY DEF IndInv, Validate, SearchSound
  <1>2. /\ phase' \in {"run", "refused"} /\ (phase' = "run" => Valid(input))
        /\ UNCHANGED <<input, points, now, direct, todo, stack, evidence>>
    BY DEF Validate
  <1>3. TypeOK'
    BY <1>1, <1>2 DEF TypeOK
  <1>4. SearchSound'
    BY <1>1, <1>2, IdleSearchSound
  <1> QED
    BY <1>1, <1>2, <1>3, <1>4, SameEvidenceKeepsSound DEF IndInv

LEMMA StartPointKeepsInv ==
    ASSUME IndInv, StartPoint
    PROVE  IndInv'
  <1>1. TypeOK /\ SearchSound /\ FindingsSound
    BY DEF IndInv
  <1>2. PICK at \in points :
          /\ now' = at /\ points' = points \ {at}
          /\ direct' = [id \in ActiveServices(input) |-> HasPath(input, id, at)]
    BY DEF StartPoint
  <1>3. /\ todo' = ActiveServices(input) /\ phase = "run" /\ stack = <<>>
        /\ UNCHANGED <<input, stack, evidence, phase>>
    BY DEF StartPoint
  <1>4. TypeOK'
    <2>1. ActiveServices(input) \in SUBSET Services
      BY <1>1, InputTypes
    <2>2. direct' \in [ActiveServices(input) -> BOOLEAN]
      BY <1>2 DEF HasPath
    <2>3. direct' \in UNION {[ids -> BOOLEAN] : ids \in SUBSET Services}
      BY <2>1, <2>2
    <2> QED
      BY <1>1, <1>2, <1>3, <2>3 DEF TypeOK
  <1>5. DirectNow'
    BY <1>2, <1>3 DEF DirectNow
  <1>6. SearchSound'
    BY <1>1, <1>3, <1>5, IdleSearchSound DEF SearchSound
  <1> QED
    BY <1>1, <1>3, <1>4, <1>6, SameEvidenceKeepsSound DEF IndInv

LEMMA ResolveNextKeepsInv ==
    ASSUME IndInv, ResolveNext
    PROVE  IndInv'
  <1>1. PICK id \in todo : todo' = todo \ {id} /\ Resolve(id, <<>>)
    BY DEF ResolveNext
  <1>2. TypeOK /\ SearchSound /\ stack = <<>> /\ phase = "run" /\ todo # {}
    BY <1>1 DEF IndInv, ResolveNext
  <1>3. id \in Services
    BY <1>1, <1>2, InputTypes DEF TypeOK
  <1>4. Calling(<<>>, id)
    BY <1>2, <1>3 DEF Calling, SearchSound, CallersSound
  <1> QED
    BY <1>1, <1>4, ResolveKeepsInv DEF ResolveNext

LEMMA FollowKeepsInv ==
    ASSUME IndInv, Follow
    PROVE  IndInv'
  <1> DEFINE L == Len(stack)
  <1>1. /\ TypeOK /\ SearchSound /\ CallersSound(stack) /\ DependenciesFollowed
        /\ stack \in Seq(Frame) /\ stack # <<>>
        /\ phase = "run" /\ Valid(input) /\ DirectNow
    BY DEF IndInv, SearchSound, Follow, TypeOK
  <1>2. PICK id \in stack[L].rest : Resolve(id, Advanced(id))
    BY DEF Follow, Top
  <1>3. L \in Nat \ {0} /\ L \in 1..L /\ stack[L] \in Frame
    BY <1>1
  <1>4. id \in DepsOf(stack[L].node) /\ id \in Services
    BY <1>1, <1>3 DEF CallersSound, Frame
  <1> DEFINE last == [node |-> stack[L].node, rest |-> stack[L].rest \ {id}]
             callers == [stack EXCEPT ![L] = last]
  <1>5. Resolve(id, callers)
    BY <1>2 DEF Advanced, Top
  <1>6. last \in Frame /\ last.node = stack[L].node /\ last.rest = stack[L].rest \ {id}
    BY <1>3 DEF Frame
  <1> HIDE DEF last
  <1>7. /\ callers \in Seq(Frame) /\ Len(callers) = L
        /\ \A i \in 1..L : callers[i] = IF i = L THEN last ELSE stack[i]
    BY <1>1, <1>3, <1>6
  <1>8. /\ \A i \in 1..L : callers[i].node = stack[i].node
        /\ \A i \in 1..L : callers[i].rest \subseteq stack[i].rest
    BY <1>6, <1>7
  <1> HIDE DEF callers
  <1>9. CallersSound(callers)
    <2>1. \A i \in 1..L :
            /\ stack[i].node \in ActiveServices(input) /\ HasPath(input, stack[i].node, now)
            /\ stack[i].rest \subseteq DepsOf(stack[i].node)
            /\ \A set \in SUBSET ActiveServices(input) :
                 WellSet(set, now) /\ stack[1].node \in set => stack[i].node \in set
      BY <1>1 DEF CallersSound
    <2>2. callers[1].node = stack[1].node
      BY <1>3, <1>8
    <2>3. \A i \in 1..L :
            /\ callers[i].node \in ActiveServices(input) /\ HasPath(input, callers[i].node, now)
            /\ callers[i].rest \subseteq DepsOf(callers[i].node)
            /\ \A set \in SUBSET ActiveServices(input) :
                 WellSet(set, now) /\ callers[1].node \in set => callers[i].node \in set
      <3> SUFFICES ASSUME NEW i \in 1..L
                   PROVE  /\ callers[i].node \in ActiveServices(input)
                          /\ HasPath(input, callers[i].node, now)
                          /\ callers[i].rest \subseteq DepsOf(callers[i].node)
                          /\ \A set \in SUBSET ActiveServices(input) :
                               WellSet(set, now) /\ callers[1].node \in set => callers[i].node \in set
        OBVIOUS
      <3>1. callers[i].node = stack[i].node /\ callers[i].rest \subseteq stack[i].rest
        BY <1>8
      <3> QED
        BY <2>1, <2>2, <3>1
    <2>4. \A i, j \in 1..L : callers[i].node = callers[j].node => i = j
      BY <1>1, <1>8 DEF CallersSound
    <2>5. ASSUME NEW i \in 1..L - 1
          PROVE  callers[i + 1].node \in DepsOf(callers[i].node)
      <3>1. i \in 1..L /\ i + 1 \in 1..L
        BY <1>3
      <3> QED
        BY <1>1, <1>8, <3>1 DEF CallersSound
    <2> QED
      BY <1>7, <2>3, <2>4, <2>5 DEF CallersSound
  <1>10. ASSUME NEW i \in 1..L, NEW n \in DepsOf(callers[i].node) \ callers[i].rest
         PROVE  \/ IsWell(n, now)
                \/ i < L /\ n = callers[i + 1].node
                \/ i = L /\ n = id
    <2>1. CASE i = L /\ n = id
      BY <2>1
    <2>2. CASE ~(i = L /\ n = id)
      <3>1. n \in DepsOf(stack[i].node) \ stack[i].rest
        BY <1>6, <1>7, <1>8, <2>2
      <3>2. IsWell(n, now) \/ (i < L /\ n = stack[i + 1].node)
        BY <1>1, <3>1 DEF DependenciesFollowed
      <3>3. i < L => i + 1 \in 1..L
        BY <1>3
      <3> QED
        BY <1>8, <3>2, <3>3
    <2> QED
      BY <2>1, <2>2
  <1>11. Calling(callers, id)
    <2>1. id \in DepsOf(callers[Len(callers)].node)
      BY <1>3, <1>4, <1>7, <1>8
    <2> QED
      BY <1>1, <1>4, <1>7, <1>9, <1>10, <2>1 DEF Calling
  <1> QED
    BY <1>5, <1>11, ResolveKeepsInv DEF Follow

LEMMA ReturnKeepsInv ==
    ASSUME IndInv, Return
    PROVE  IndInv'
  <1> DEFINE L == Len(stack)
             n == stack[L].node
  <1>1. /\ TypeOK /\ SearchSound /\ FindingsSound /\ CallersSound(stack) /\ DependenciesFollowed
        /\ stack \in Seq(Frame) /\ stack # <<>>
        /\ phase = "run" /\ Valid(input) /\ DirectNow
    BY DEF IndInv, SearchSound, Return, TypeOK
  <1>2. /\ stack' = SubSeq(stack, 1, L - 1) /\ stack[L].rest = {}
        /\ IF L = 1 THEN Found(n, TRUE, <<n>>) ELSE UNCHANGED evidence
        /\ UNCHANGED <<input, points, now, direct, todo, phase>>
    BY DEF Return, Top
  <1>3. L \in Nat \ {0} /\ L \in 1..L /\ n \in Services
    <2>1. L \in Nat \ {0} /\ L \in 1..L /\ stack[L] \in Frame
      BY <1>1
    <2> QED
      BY <2>1 DEF Frame
  <1>4. /\ stack' \in Seq(Frame) /\ Len(stack') = L - 1
        /\ \A i \in 1..L - 1 : stack'[i] = stack[i] /\ i \in 1..L
    <2>1. 1 \in Int /\ L - 1 \in Int
      BY <1>3
    <2>2. \A i \in 1..L - 1 : stack[i] \in Frame /\ i \in 1..L
      BY <1>1, <1>3
    <2>3. /\ SubSeq(stack, 1, L - 1) \in Seq(Frame)
          /\ Len(SubSeq(stack, 1, L - 1)) = IF 1 <= L - 1 THEN L - 1 - 1 + 1 ELSE 0
          /\ \A i \in 1..L - 1 - 1 + 1 : SubSeq(stack, 1, L - 1)[i] = stack[1 + i - 1]
      BY <2>1, <2>2, SubSeqProperties
    <2>4. L - 1 - 1 + 1 = L - 1 /\ \A i \in 1..L - 1 : 1 + i - 1 = i
      BY <1>3
    <2> QED
      BY <1>2, <1>3, <2>2, <2>3, <2>4
  <1>5. IsWell(n, now)
    <2>1. n \in ActiveServices(input) /\ HasPath(input, n, now)
      BY <1>1, <1>3 DEF CallersSound
    <2>2. \A m \in DepsOf(n) : IsWell(m, now)
      BY <1>1, <1>2, <1>3 DEF DependenciesFollowed
    <2> QED
      BY <2>1, <2>2, WellByDependencies
  <1> HIDE DEF n, L
  <1>6. TypeOK' /\ FindingsSound'
    <2>1. CASE L = 1
      <3>1. now \in Int
        BY <1>1, InputTypes DEF TypeOK
      <3>2. [at |-> now, id |-> n, reachable |-> TRUE, path |-> <<n>>] \in Finding
        BY <1>3, <3>1 DEF Finding
      <3>3. Found(n, TRUE, <<n>>)
        BY <1>2, <2>1
      <3>4. TypeOK'
        BY <1>1, <1>2, <1>4, <3>2, <3>3 DEF Found, TypeOK
      <3>5. \A i, j \in DOMAIN <<n>> : <<n>>[i] = <<n>>[j] => i = j
        OBVIOUS
      <3>6. FindingsSound'
        BY <1>1, <1>2, <1>5, <3>3, <3>5, FoundKeepsSound
      <3> QED
        BY <3>4, <3>6
    <2>2. CASE L # 1
      <3>1. UNCHANGED evidence
        BY <1>2, <2>2
      <3>2. TypeOK'
        BY <1>1, <1>2, <1>4, <3>1 DEF TypeOK
      <3> QED
        BY <1>1, <1>2, <3>1, <3>2, SameEvidenceKeepsSound
    <2> QED
      BY <2>1, <2>2
  <1>7. CallersSound(stack)'
    <2>1. ASSUME NEW i \in 1..Len(stack')
          PROVE  /\ stack'[i].node \in ActiveServices(input) /\ HasPath(input, stack'[i].node, now)
                 /\ stack'[i].rest \subseteq DepsOf(stack'[i].node)
                 /\ \A set \in SUBSET ActiveServices(input) :
                      WellSet(set, now) /\ stack'[1].node \in set => stack'[i].node \in set
      <3>1. i \in 1..Len(stack) /\ stack'[i] = stack[i]
        BY <1>4 DEF L
      <3>2. stack'[1] = stack[1]
        BY <1>3, <1>4
      <3> QED
        BY <1>1, <3>1, <3>2 DEF CallersSound
    <2>2. \A i, j \in 1..Len(stack') : stack'[i].node = stack'[j].node => i = j
      BY <1>1, <1>4 DEF CallersSound, L
    <2>3. ASSUME NEW i \in 1..Len(stack') - 1
          PROVE  stack'[i + 1].node \in DepsOf(stack'[i].node)
      <3>1. i \in 1..L - 1 /\ i + 1 \in 1..L - 1
        BY <1>3, <1>4
      <3> QED
        BY <1>1, <1>4, <3>1 DEF CallersSound, L
    <2> QED
      BY <1>2, <1>4, <2>1, <2>2, <2>3 DEF CallersSound, DepsOf, WellSet
  <1>8. DependenciesFollowed'
    <2> SUFFICES ASSUME NEW i \in 1..Len(stack'), NEW m \in DepsOf(stack'[i].node) \ stack'[i].rest
                 PROVE  IsWell(m, now) \/ (i < Len(stack') /\ m = stack'[i + 1].node)
      BY <1>2, WellIsFixed DEF DependenciesFollowed
    <2>1. i \in 1..L /\ i < L /\ stack'[i] = stack[i]
      BY <1>3, <1>4
    <2>2. IsWell(m, now) \/ m = stack[i + 1].node
      BY <1>1, <2>1 DEF DependenciesFollowed, L
    <2>3. CASE i = L - 1
      BY <1>3, <1>5, <2>2, <2>3 DEF n
    <2>4. CASE i # L - 1
      <3>1. i + 1 \in 1..L - 1
        BY <1>3, <2>1, <2>4
      <3> QED
        BY <1>3, <1>4, <2>2, <3>1
    <2> QED
      BY <2>3, <2>4
  <1>9. SearchSound'
    <2>1. DirectNow' /\ Valid(input') /\ phase' = "run"
      BY <1>1, <1>2 DEF DirectNow
    <2> QED
      BY <1>7, <1>8, <2>1 DEF SearchSound
  <1> QED
    BY <1>6, <1>9 DEF IndInv

LEMMA FinishKeepsInv ==
    ASSUME IndInv, Finish
    PROVE  IndInv'
  <1>1. /\ TypeOK /\ SearchSound /\ FindingsSound /\ stack = <<>> /\ todo = {} /\ phase' = "done"
        /\ UNCHANGED <<input, points, now, direct, todo, stack, evidence>>
    BY DEF IndInv, Finish
  <1>2. TypeOK'
    BY <1>1 DEF TypeOK
  <1>3. SearchSound'
    BY <1>1, IdleSearchSound
  <1> QED
    BY <1>1, <1>2, <1>3, SameEvidenceKeepsSound DEF IndInv

LEMMA NextKeepsInv == IndInv /\ [Next]_vars => IndInv'
  <1> SUFFICES ASSUME IndInv, [Next]_vars PROVE IndInv'
    OBVIOUS
  <1>1. CASE UNCHANGED vars
    <2>1. UNCHANGED <<input, points, now, direct, todo, stack, evidence, phase>>
      BY <1>1 DEF vars
    <2>2. TypeOK'
      BY <2>1 DEF IndInv, TypeOK
    <2>3. SearchSound'
      BY <2>1, WellIsFixed DEF IndInv, SearchSound, CallersSound, DependenciesFollowed, DirectNow
    <2> QED
      BY <2>1, <2>2, <2>3, SameEvidenceKeepsSound DEF IndInv
  <1> QED
    BY <1>1, ValidateKeepsInv, StartPointKeepsInv, ResolveNextKeepsInv, FollowKeepsInv,
       ReturnKeepsInv, FinishKeepsInv DEF Next

LEMMA Invariance == Spec => []IndInv
  BY InitInv, NextKeepsInv, PTL DEF Spec

-----------------------------------------------------------------------------
(* How often a service is judged *)

\* A finding is recorded for a service that was pending until then.
LEMMA FoundKeepsCount ==
    ASSUME EachFoundOnce, UNCHANGED <<input, now>>, now \in CriticalTimes(input.config),
           NEW root \in ActiveServices(input), NEW reachable, NEW path, Found(root, reachable, path),
           Pending(now, root), ~Pending(now, root)',
           \A at, id : at # now \/ id # root => (Pending(at, id)' <=> Pending(at, id))
    PROVE  EachFoundOnce'
  <1> DEFINE f == [at |-> now, id |-> root, reachable |-> reachable, path |-> path]
  <1>1. evidence' = evidence \cup {f} /\ f.at = now /\ f.id = root
    BY DEF Found
  <1> HIDE DEF f
  <1>2. FindingsOf(now, root) = {}
    BY DEF EachFoundOnce
  <1>3. FindingsOf(now, root)' = {f}
    BY <1>1, <1>2 DEF FindingsOf
  <1>4. ASSUME NEW at, NEW id, at # now \/ id # root
        PROVE  FindingsOf(at, id)' = FindingsOf(at, id)
    BY <1>1, <1>4 DEF FindingsOf
  <1> SUFFICES ASSUME NEW at \in CriticalTimes(input.config), NEW id \in ActiveServices(input)
      PROVE  IF Pending(at, id)' THEN FindingsOf(at, id)' = {}
             ELSE \E g \in evidence' : FindingsOf(at, id)' = {g}
    BY DEF EachFoundOnce
  <1>5. CASE at = now /\ id = root
    BY <1>1, <1>3, <1>5
  <1>6. CASE at # now \/ id # root
    <2>1. IF Pending(at, id) THEN FindingsOf(at, id) = {}
          ELSE \E g \in evidence : FindingsOf(at, id) = {g}
      BY DEF EachFoundOnce
    <2>2. FindingsOf(at, id)' = FindingsOf(at, id) /\ (Pending(at, id)' <=> Pending(at, id))
      BY <1>4, <1>6
    <2> QED
      BY <1>1, <2>1, <2>2
  <1> QED
    BY <1>5, <1>6

\* Nothing is recorded, and the same services are pending.
LEMMA SameCount ==
    ASSUME EachFoundOnce, UNCHANGED <<input, evidence>>,
           \A at \in CriticalTimes(input.config), id \in ActiveServices(input) :
             Pending(at, id)' <=> Pending(at, id)
    PROVE  EachFoundOnce'
  BY DEF EachFoundOnce, FindingsOf

LEMMA InitCounts == Init => CountInv
  <1> SUFFICES ASSUME Init PROVE CountInv
    OBVIOUS
  <1>1. \A at \in CriticalTimes(input.config), id \in ActiveServices(input) :
          Pending(at, id) /\ FindingsOf(at, id) = {}
    BY DEF Init, Pending, FindingsOf
  <1> QED
    BY <1>1 DEF Init, CountInv, EachFoundOnce

LEMMA StartPointCounts ==
    ASSUME IndInv, CountInv, StartPoint
    PROVE  CountInv'
  <1>1. PICK at \in points : now' = at /\ points' = points \ {at}
    BY DEF StartPoint
  <1>2. /\ todo' = ActiveServices(input) /\ phase = "run" /\ stack = <<>> /\ todo = {}
        /\ UNCHANGED <<input, stack, evidence, phase>>
    BY DEF StartPoint
  <1>3. \A t \in CriticalTimes(input.config), id \in ActiveServices(input) :
          Pending(t, id)' <=> Pending(t, id)
    BY <1>1, <1>2 DEF Pending
  <1> QED
    BY <1>1, <1>2, <1>3, SameCount DEF CountInv

\* The loop over the active services and the calls below it: the service that is
\* being resolved stays the same until a finding is recorded for it.
LEMMA CallCounts ==
    ASSUME IndInv, CountInv, phase = "run", UNCHANGED <<input, points, now, phase>>,
           NEW root \in ActiveServices(input), Pending(now, root), now \notin points,
           root \notin todo', todo' = todo \/ (todo' = todo \ {root} /\ stack = <<>>),
           stack # <<>> => stack[1].node = root,
           \/ stack' # <<>> /\ stack'[1].node = root /\ UNCHANGED evidence
           \/ stack' = <<>> /\ \E reachable, path : Found(root, reachable, path)
    PROVE  CountInv'
  <1>1. EachFoundOnce /\ now \in CriticalTimes(input.config)
    BY DEF IndInv, TypeOK, CountInv
  <1>2. \A at, id : at # now \/ id # root => (Pending(at, id)' <=> Pending(at, id))
    BY DEF Pending
  <1>3. CASE stack' # <<>> /\ stack'[1].node = root /\ UNCHANGED evidence
    <2>1. Pending(now, root)'
      BY <1>3 DEF Pending
    <2>2. \A at \in CriticalTimes(input.config), id \in ActiveServices(input) :
            Pending(at, id)' <=> Pending(at, id)
      BY <1>2, <2>1
    <2> QED
      BY <1>1, <1>3, <2>2, SameCount DEF CountInv
  <1>4. CASE stack' = <<>> /\ \E reachable, path : Found(root, reachable, path)
    <2>1. ~Pending(now, root)'
      BY <1>4 DEF Pending
    <2>2. EachFoundOnce'
      BY <1>1, <1>2, <1>4, <2>1, FoundKeepsCount
    <2> QED
      BY <1>4, <2>2 DEF CountInv
  <1> QED
    BY <1>3, <1>4

\* A call either goes on or ends them all.
LEMMA ResolveOutcome ==
    ASSUME NEW id, NEW callers \in Seq(Frame), Resolve(id, callers),
           NEW root, root = IF callers = <<>> THEN id ELSE callers[1].node
    PROVE  \/ stack' # <<>> /\ stack'[1].node = root /\ UNCHANGED evidence
           \/ stack' = <<>> /\ \E reachable, path : Found(root, reachable, path)
  <1>1. CASE stack' = <<>> /\ Found(root, FALSE, Append(Nodes(callers), id))
    BY <1>1
  <1>2. CASE stack' = Append(callers, [node |-> id, rest |-> DepsOf(id)]) /\ UNCHANGED evidence
    <2> DEFINE frame == [node |-> id, rest |-> DepsOf(id)]
    <2>1. frame.node = id
      OBVIOUS
    <2> HIDE DEF frame
    <2>2. stack' = Append(callers, frame)
      BY <1>2 DEF frame
    <2>3. /\ Len(stack') = Len(callers) + 1 /\ Len(callers) \in Nat
          /\ stack'[Len(callers) + 1] = frame
          /\ \A i \in 1..Len(callers) : stack'[i] = callers[i]
      BY <2>2, AppendProperties
    <2>4. stack' # <<>>
      BY <2>3
    <2>5. stack'[1].node = root
      <3>1. CASE callers = <<>>
        BY <2>1, <2>3, <3>1
      <3>2. CASE callers # <<>>
        <4>1. 1 \in 1..Len(callers)
          BY <3>2
        <4> QED
          BY <2>3, <3>2, <4>1
      <3> QED
        BY <3>1, <3>2
    <2> QED
      BY <1>2, <2>4, <2>5
  <1> QED
    BY <1>1, <1>2 DEF Resolve

LEMMA ResolveNextCounts ==
    ASSUME IndInv, CountInv, ResolveNext
    PROVE  CountInv'
  <1>1. PICK id \in todo : todo' = todo \ {id} /\ Resolve(id, <<>>)
    BY DEF ResolveNext
  <1>2. phase = "run" /\ stack = <<>> /\ UNCHANGED <<input, points, now, phase>>
    BY DEF ResolveNext
  <1>3. id \in ActiveServices(input) /\ Pending(now, id) /\ now \notin points
    BY <1>1 DEF IndInv, TypeOK, Pending, CountInv
  <1>4. \/ stack' # <<>> /\ stack'[1].node = id /\ UNCHANGED evidence
        \/ stack' = <<>> /\ \E reachable, path : Found(id, reachable, path)
    <2>1. <<>> \in Seq(Frame)
      OBVIOUS
    <2> QED
      BY <1>1, <2>1, ResolveOutcome
  <1> QED
    BY <1>1, <1>2, <1>3, <1>4, CallCounts

\* The service being resolved is active, pending, and no longer in the loop.
LEMMA RootPending ==
    ASSUME IndInv, CountInv, stack # <<>>
    PROVE  /\ stack[1].node \in ActiveServices(input) /\ Pending(now, stack[1].node)
           /\ now \notin points /\ stack[1].node \notin todo /\ 1 \in 1..Len(stack)
           /\ stack \in Seq(Frame)
  <1>1. stack \in Seq(Frame) /\ 1 \in 1..Len(stack)
    BY DEF IndInv, TypeOK
  <1>2. stack[1].node \in ActiveServices(input)
    BY <1>1 DEF IndInv, SearchSound, CallersSound
  <1> QED
    BY <1>1, <1>2 DEF CountInv, Pending

LEMMA FollowCounts ==
    ASSUME IndInv, CountInv, Follow
    PROVE  CountInv'
  <1> DEFINE root == stack[1].node
  <1>1. PICK id \in Top.rest : Resolve(id, Advanced(id))
    BY DEF Follow
  <1>2. phase = "run" /\ stack # <<>> /\ UNCHANGED <<input, points, now, todo, phase>>
    BY DEF Follow
  <1>3. /\ root \in ActiveServices(input) /\ Pending(now, root) /\ now \notin points /\ root \notin todo
        /\ 1 \in 1..Len(stack) /\ stack \in Seq(Frame)
    BY <1>2, RootPending
  <1>4. Advanced(id) \in Seq(Frame) /\ Advanced(id) # <<>> /\ Advanced(id)[1].node = root
    <2> DEFINE L == Len(stack)
               last == [node |-> Top.node, rest |-> Top.rest \ {id}]
    <2>1. L \in 1..L /\ stack[L] \in Frame /\ Top = stack[L]
      BY <1>3 DEF Top
    <2>2. last \in Frame /\ last.node = stack[L].node
      BY <2>1 DEF Frame
    <2> HIDE DEF last
    <2>3. Advanced(id) = [stack EXCEPT ![L] = last]
      BY DEF Advanced, last
    <2>4. Advanced(id) \in Seq(Frame) /\ Len(Advanced(id)) = Len(stack)
          /\ Advanced(id)[1] = IF 1 = L THEN last ELSE stack[1]
      BY <1>3, <2>1, <2>2, <2>3
    <2> QED
      BY <1>3, <2>2, <2>4
  <1>5. \/ stack' # <<>> /\ stack'[1].node = root /\ UNCHANGED evidence
        \/ stack' = <<>> /\ \E reachable, path : Found(root, reachable, path)
    BY <1>1, <1>4, ResolveOutcome
  <1> QED
    BY <1>2, <1>3, <1>5, CallCounts

LEMMA ReturnCounts ==
    ASSUME IndInv, CountInv, Return
    PROVE  CountInv'
  <1> DEFINE root == stack[1].node
             L == Len(stack)
  <1>1. /\ phase = "run" /\ stack # <<>> /\ UNCHANGED <<input, points, now, todo, phase>>
        /\ stack' = SubSeq(stack, 1, L - 1)
        /\ IF L = 1 THEN Found(Top.node, TRUE, <<Top.node>>) ELSE UNCHANGED evidence
    BY DEF Return
  <1>2. /\ root \in ActiveServices(input) /\ Pending(now, root) /\ now \notin points /\ root \notin todo
        /\ 1 \in 1..L /\ stack \in Seq(Frame)
    BY <1>1, RootPending
  <1>3. CASE L = 1
    <2>1. Found(root, TRUE, <<Top.node>>)
      BY <1>1, <1>3 DEF Top
    <2>2. stack' = <<>>
      BY <1>1, <1>2, <1>3
    <2> QED
      BY <1>1, <1>2, <2>1, <2>2, CallCounts
  <1>4. CASE L # 1
    <2>1. L \in Nat
      BY <1>2
    <2> HIDE DEF L
    <2>2. 1 \in Int /\ L - 1 \in Int /\ 1 <= L - 1 /\ \A i \in 1..L - 1 : i \in 1..L
      BY <1>2, <1>4, <2>1
    <2>3. \A i \in 1..L - 1 : stack[i] \in Frame
      BY <1>2, <2>2 DEF L
    <2>4. /\ Len(stack') = IF 1 <= L - 1 THEN L - 1 - 1 + 1 ELSE 0
          /\ \A i \in 1..L - 1 - 1 + 1 : stack'[i] = stack[1 + i - 1]
      BY <1>1, <2>2, <2>3, SubSeqProperties
    <2>5. 1 \in 1..L - 1 - 1 + 1 /\ 1 + 1 - 1 = 1 /\ L - 1 - 1 + 1 # 0
      BY <2>1, <2>2
    <2>6. stack' # <<>> /\ stack'[1] = stack[1]
      <3>1. Len(stack') # 0 /\ stack'[1] = stack[1 + 1 - 1]
        BY <2>2, <2>4, <2>5
      <3> QED
        BY <2>5, <3>1
    <2> QED
      BY <1>1, <1>2, <1>4, <2>6, CallCounts
  <1> QED
    BY <1>3, <1>4

LEMMA NextCounts == IndInv /\ CountInv /\ [Next]_vars => CountInv'
  <1> SUFFICES ASSUME IndInv, CountInv, [Next]_vars PROVE CountInv'
    OBVIOUS
  <1>1. CASE Validate \/ Finish \/ UNCHANGED vars
    <2>1. UNCHANGED <<input, points, now, todo, stack, evidence>>
      BY <1>1 DEF Validate, Finish, vars
    <2>2. phase' = "done" => points = {} /\ todo = {} /\ stack = <<>>
      BY <1>1 DEF Validate, Finish, vars, CountInv
    <2>3. EachFoundOnce'
      BY <2>1, SameCount DEF Pending, CountInv
    <2> QED
      BY <2>1, <2>2, <2>3 DEF CountInv
  <1> QED
    BY <1>1, StartPointCounts, ResolveNextCounts, FollowCounts, ReturnCounts DEF Next

-----------------------------------------------------------------------------
(* Results *)

\* A simulation keeps its state typed on every frozen input.
THEOREM TypeCorrectness == Spec => []TypeOK
  <1>1. IndInv => TypeOK
    BY DEF IndInv
  <1> QED
    BY <1>1, Invariance, PTL

\* Simulate finds a service reachable exactly when it and everything it
\* depends on has a path, whatever the graph, the chains and the window.
THEOREM FindingsAreRight == Spec => []FindingsRight
  <1>1. IndInv => FindingsRight
    BY DEF IndInv, FindingsSound
  <1> QED
    BY <1>1, Invariance, PTL

\* The path it reports with a failure leads along dependencies to the first
\* service that fails by itself.
THEOREM BrokenPathsAreExact == Spec => []BrokenPathsExact
  <1>1. IndInv => BrokenPathsExact
    BY DEF IndInv, FindingsSound
  <1> QED
    BY <1>1, Invariance, PTL

\* After ValidateSnapshot, resolveService never meets a cycle.
THEOREM ValidatedNeverCyclic == Spec => []NoCycleMet
  <1>1. IndInv => NoCycleMet
    BY DEF IndInv, FindingsSound
  <1> QED
    BY <1>1, Invariance, PTL

\* Where no chain begins or ends meanwhile, a path from before or after the
\* overlap is a path during it.
LEMMA PathKeptByOverlap ==
    ASSUME TypeOK, NEW id \in ActiveServices(input),
           NEW at \in {input.config.start - Minute, input.config.end + Minute},
           NEW then \in input.config.start..input.config.end,
           \A c \in DOMAIN input.chains :
             /\ input.chains[c].from <= input.config.start - Minute
             /\ input.config.end + Minute < input.chains[c].to,
           HasPath(input, id, at)
    PROVE  HasPath(input, id, then)
  <1> DEFINE start == input.config.start
             end == input.config.end
  <1>1. IsSnapshot(input)
    BY SnapshotsAssumption DEF TypeOK
  <1>2. start \in Int /\ end \in Int /\ Minute \in Nat \ {0}
    BY <1>1, MinuteAssumption DEF IsSnapshot, Config
  <1>3. \A c \in DOMAIN input.chains : input.chains[c].from \in Int /\ input.chains[c].to \in Int
    BY <1>1 DEF IsSnapshot, Chain
  <1>4. \A c \in DOMAIN input.chains : input.chains[c].from <= then /\ then < input.chains[c].to
    BY <1>2, <1>3
  <1>5. ActiveAnchors(input.config, at) \subseteq ActiveAnchors(input.config, then)
    BY <1>1, <1>2 DEF ActiveAnchors
  <1> QED
    BY <1>4, <1>5 DEF HasPath

\* The overlap loses no service that is reachable before or after it.
THEOREM OverlapIsSafe == Spec => []OverlapKeepsBothSides
  <1>1. IndInv => OverlapKeepsBothSides
    <2> DEFINE start == input.config.start
               end == input.config.end
    <2> SUFFICES ASSUME IndInv, NEW f \in evidence, NEW g \in evidence,
                        \A c \in DOMAIN input.chains :
                          input.chains[c].from <= start - Minute /\ end + Minute < input.chains[c].to,
                        f.reachable, f.at \in {start - Minute, end + Minute},
                        g.id = f.id, g.at \in start..end
                 PROVE  g.reachable
      BY DEF OverlapKeepsBothSides
    <2>1. TypeOK /\ FindingsRight
      BY DEF IndInv, FindingsSound
    <2>2. PICK set \in SUBSET ActiveServices(input) : f.id \in set /\ WellSet(set, f.at)
      BY <2>1, WellBySet DEF FindingsRight
    <2>3. WellSet(set, g.at)
      BY <2>1, <2>2, PathKeptByOverlap DEF WellSet
    <2>4. IsWell(g.id, g.at)
      BY <2>2, <2>3, WellBySet
    <2> QED
      BY <2>1, <2>4 DEF FindingsRight
  <1> QED
    BY <1>1, Invariance, PTL

\* A simulation that is done has judged every active service at every critical time,
\* and none of them twice.
THEOREM SimulationIsComplete == Spec => []Complete
  <1>1. Spec => []CountInv
    BY Invariance, InitCounts, NextCounts, PTL DEF Spec
  <1>2. CountInv => Complete
    <2> SUFFICES ASSUME CountInv, phase = "done",
                        NEW at \in CriticalTimes(input.config), NEW id \in ActiveServices(input)
        PROVE  Cardinality({f \in evidence : f.at = at /\ f.id = id}) = 1
      BY DEF Complete
    <2>1. ~Pending(at, id)
      BY DEF CountInv, Pending
    <2>2. PICK f \in evidence : FindingsOf(at, id) = {f}
      BY <2>1 DEF CountInv, EachFoundOnce
    <2> QED
      BY <2>2, FS_Singleton DEF FindingsOf
  <1> QED
    BY <1>1, <1>2, PTL

-----------------------------------------------------------------------------
(* Between the critical times *)

\* No chain begins or ends but at a time that is evaluated, or as the overlap has ended.
EndsAreEvaluated ==
    LET start == input.config.start
        end == input.config.end
    IN \A c \in DOMAIN input.chains : \A t \in {input.chains[c].from, input.chains[c].to} :
         start - Minute < t /\ t <= end + Minute =>
           t \in {start, start + (end - start) \div 2, end, end + 1}

DoneWasValid == phase = "done" => Valid(input)

LEMMA StepKeepsDoneValid == IndInv /\ DoneWasValid /\ [Next]_vars => DoneWasValid'
  <1> SUFFICES ASSUME IndInv, DoneWasValid, [Next]_vars, phase' = "done" PROVE Valid(input)'
    BY DEF DoneWasValid
  <1>1. input' = input
    BY DEF Next, Validate, StartPoint, ResolveNext, Follow, Return, Finish, vars
  <1>2. Valid(input)
    BY DEF IndInv, SearchSound, DoneWasValid, Next, Validate, StartPoint, ResolveNext, Follow,
           Return, Finish, vars
  <1> QED
    BY <1>1, <1>2 DEF Valid

\* A time with the same anchors and the same chains in their windows.
Alike(at, then) ==
    /\ ActiveAnchors(input.config, at) = ActiveAnchors(input.config, then)
    /\ \A c \in DOMAIN input.chains :
         input.chains[c].from <= at /\ at < input.chains[c].to <=>
         input.chains[c].from <= then /\ then < input.chains[c].to

LEMMA AlikePaths ==
    ASSUME NEW id, NEW at, NEW then, Alike(at, then), HasPath(input, id, at)
    PROVE  HasPath(input, id, then)
  BY DEF Alike, HasPath

LEMMA EveryTimeIsLikeACritical ==
    ASSUME IsSnapshot(input), Valid(input), EndsAreEvaluated,
           NEW then \in input.config.start - Minute .. input.config.end + Minute
    PROVE  \E at \in CriticalTimes(input.config) : Alike(at, then)
  <1> DEFINE start == input.config.start
             end == input.config.end
             middle == start + (end - start) \div 2
  <1>1. start \in Int /\ end \in Int /\ start < end /\ Minute \in Int /\ Minute > 0
    BY MinuteAssumption DEF IsSnapshot, Config, Valid
  <1>2. middle \in Int /\ start <= middle /\ middle < end
    BY <1>1
  <1>3. {start - Minute, start, middle, end, end + Minute} \subseteq CriticalTimes(input.config)
    BY DEF CriticalTimes
  <1>4. then \in Int /\ start - Minute <= then /\ then <= end + Minute
    BY <1>1
  <1>5. \A at : ActiveAnchors(input.config, at) =
                  IF at < start THEN {input.config.old}
                  ELSE IF at > end THEN {input.config.new} ELSE {input.config.old, input.config.new}
    BY DEF ActiveAnchors
  <1>6. \A c \in DOMAIN input.chains : \A t \in {input.chains[c].from, input.chains[c].to} :
          t \in Int /\ (start - Minute < t /\ t <= end + Minute => t \in {start, middle, end, end + 1})
    BY DEF EndsAreEvaluated, IsSnapshot, Chain
  <1> HIDE DEF start, end, middle
  <1>7. ASSUME NEW at \in {start - Minute, start, middle, end, end + Minute},
               \/ at = start - Minute /\ then < start
               \/ at = start /\ start <= then /\ then < middle
               \/ at = middle /\ middle <= then /\ then < end
               \/ at = end /\ then = end
               \/ at = end + Minute /\ end < then
        PROVE  Alike(at, then)
    <2>1. ActiveAnchors(input.config, at) = ActiveAnchors(input.config, then)
      BY <1>1, <1>2, <1>4, <1>5, <1>7
    <2>2. ASSUME NEW t \in Int,
                 start - Minute < t /\ t <= end + Minute => t \in {start, middle, end, end + 1}
          PROVE  t <= at <=> t <= then
      BY <1>1, <1>2, <1>4, <1>7, <2>2
    <2>3. at \in Int
      BY <1>1, <1>2, <1>7
    <2>4. ASSUME NEW c \in DOMAIN input.chains
          PROVE  input.chains[c].from <= at /\ at < input.chains[c].to <=>
                 input.chains[c].from <= then /\ then < input.chains[c].to
      <3> DEFINE from == input.chains[c].from
                 to == input.chains[c].to
      <3>1. from \in Int /\ to \in Int /\ (from <= at <=> from <= then) /\ (to <= at <=> to <= then)
        BY <1>6, <2>2, <2>4
      <3> QED
        BY <1>4, <2>3, <3>1
    <2> QED
      BY <2>1, <2>4 DEF Alike
  <1>8. \E at \in {start - Minute, start, middle, end, end + Minute} :
          \/ at = start - Minute /\ then < start
          \/ at = start /\ start <= then /\ then < middle
          \/ at = middle /\ middle <= then /\ then < end
          \/ at = end /\ then = end
          \/ at = end + Minute /\ end < then
    BY <1>1, <1>2, <1>4
  <1> QED
    BY <1>3, <1>7, <1>8

\* The explanation of a simulation that found nothing, "All active service trust paths
\* remain reachable before, during, and after the proposed overlap window", is true for
\* every moment of that time when no chain begins or ends between two critical times.
THEOREM SilenceIsRightBetweenEnds == Spec => [](EndsAreEvaluated => ReachableThroughout)
  <1>1. Init => DoneWasValid
    BY DEF Init, DoneWasValid
  <1>2. IndInv /\ DoneWasValid /\ Complete => (EndsAreEvaluated => ReachableThroughout)
    <2> SUFFICES ASSUME IndInv, DoneWasValid, Complete, EndsAreEvaluated, phase = "done",
                        \A f \in evidence : f.reachable,
                        NEW then \in input.config.start - Minute .. input.config.end + Minute,
                        NEW id \in ActiveServices(input)
                 PROVE  IsWell(id, then)
      BY DEF ReachableThroughout
    <2>1. IsSnapshot(input) /\ Valid(input) /\ FindingsRight
      BY SnapshotsAssumption DEF IndInv, TypeOK, DoneWasValid, FindingsSound
    <2>2. PICK at \in CriticalTimes(input.config) : Alike(at, then)
      BY <2>1, EveryTimeIsLikeACritical
    <2>3. PICK f \in evidence : f.at = at /\ f.id = id
      <3>1. Cardinality({f \in evidence : f.at = at /\ f.id = id}) # 0
        BY DEF Complete
      <3>2. {f \in evidence : f.at = at /\ f.id = id} # {}
        BY <3>1, FS_EmptySet
      <3> QED
        BY <3>2
    <2>4. PICK set \in SUBSET ActiveServices(input) : id \in set /\ WellSet(set, at)
      BY <2>1, <2>3, WellBySet DEF FindingsRight
    <2>5. WellSet(set, then)
      BY <2>2, <2>4, AlikePaths DEF WellSet
    <2> QED
      BY <2>4, <2>5, WellBySet
  <1> QED
    BY <1>1, <1>2, StepKeepsDoneValid, Invariance, SimulationIsComplete, PTL DEF Spec

=============================================================================
