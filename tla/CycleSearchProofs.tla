-------------------------- MODULE CycleSearchProofs --------------------------
(***************************************************************************)
(* The search answers rightly on every finite or infinite graph it ends    *)
(* on.  The inductive invariant says what is known in the middle of it:    *)
(* the calls in progress are a path, and what is done is closed under      *)
(* edges and without a cycle.                                              *)
(***************************************************************************)
EXTENDS CycleSearch, SequenceTheorems, TLAPS

IndInv == TypeOK /\ SearchSound

LEMMA EdgesOfType == TypeOK => \A n \in Ids : EdgesOf(n) \subseteq Ids
  BY DEF TypeOK, EdgesOf, Graphs

LEMMA EdgesOfDomain == TypeOK => DOMAIN edges \subseteq Ids /\ \A n \in DOMAIN edges : EdgesOf(n) = edges[n]
  BY DEF TypeOK, EdgesOf, Graphs

LEMMA InitInv == Init => IndInv
  <1> SUFFICES ASSUME Init PROVE IndInv
    OBVIOUS
  <1>1. TypeOK
    BY DEF Init, TypeOK, Frame
  <1>2. Done = {}
    BY DEF Init, Done
  <1>3. StackIsPath /\ FollowedEdges
    BY DEF Init, StackIsPath, FollowedEdges
  <1>4. DoneIsAcyclic
    BY <1>2 DEF DoneIsAcyclic
  <1>5. SearchSound
    BY <1>3, <1>4 DEF Init, SearchSound, VerdictRight
  <1> QED
    BY <1>1, <1>5 DEF IndInv

-----------------------------------------------------------------------------
(* A call of visit *)

\* What holds of the callers when one of them calls visit(n): as in the
\* invariant, but the edge to n is already taken off the last frame.
Calling(callers, n) ==
    /\ n \in Ids /\ callers \in Seq(Frame)
    /\ outcome = "running" /\ DoneIsAcyclic
    /\ strict => n \in DOMAIN edges
    /\ \A i \in 1..Len(callers) : callers[i].rest \subseteq EdgesOf(callers[i].node)
    /\ \A i \in 1..Len(callers) : state[callers[i].node] = "open"
    /\ \A m \in Ids : state[m] = "open" => \E i \in 1..Len(callers) : callers[i].node = m
    /\ \A i, j \in 1..Len(callers) : callers[i].node = callers[j].node => i = j
    /\ \A i \in 1..Len(callers) - 1 : callers[i + 1].node \in EdgesOf(callers[i].node)
    /\ callers # <<>> => n \in EdgesOf(callers[Len(callers)].node)
    /\ \A i \in 1..Len(callers) : \A m \in EdgesOf(callers[i].node) \ callers[i].rest :
        \/ m \in Done
        \/ i < Len(callers) /\ m = callers[i + 1].node
        \/ i = Len(callers) /\ m = n

\* A call that meets an open service has found a cycle: the calls from that
\* service on.
LEMMA OpenMeansCycle ==
    ASSUME TypeOK, NEW callers, NEW n, Calling(callers, n), state[n] = "open"
    PROVE  ~Acyclic(edges)
  <1>1. PICK k \in 1..Len(callers) : callers[k].node = n
    BY DEF Calling
  <1> DEFINE nodes == {callers[i].node : i \in k..Len(callers)}
  <1>2. Len(callers) \in Nat /\ callers # <<>>
    BY <1>1 DEF Calling
  <1>3. ASSUME NEW i \in k..Len(callers)
        PROVE  callers[i].node \in DOMAIN edges /\ edges[callers[i].node] \cap nodes # {}
    <2>1. CASE i = Len(callers)
      <3>1. n \in EdgesOf(callers[i].node)
        BY <1>2, <2>1 DEF Calling
      <3>2. n \in nodes
        BY <1>1, <1>2
      <3> QED
        BY <3>1, <3>2 DEF EdgesOf
    <2>2. CASE i # Len(callers)
      <3>1. i \in 1..Len(callers) - 1 /\ i + 1 \in k..Len(callers)
        BY <1>1, <1>2, <2>2
      <3>2. callers[i + 1].node \in EdgesOf(callers[i].node)
        BY <3>1 DEF Calling
      <3>3. callers[i + 1].node \in nodes
        BY <3>1
      <3> QED
        BY <3>2, <3>3 DEF EdgesOf
    <2> QED
      BY <2>1, <2>2
  <1>4. nodes \in SUBSET DOMAIN edges /\ nodes # {}
    <2>1. nodes \subseteq DOMAIN edges
      BY <1>3
    <2>2. k \in k..Len(callers)
      BY <1>2
    <2>3. n \in nodes
      BY <1>1, <2>2
    <2> QED
      BY <2>1, <2>3
  <1>5. \A m \in nodes : edges[m] \cap nodes # {}
    BY <1>3
  <1> HIDE DEF nodes
  <1> QED
    BY <1>4, <1>5 DEF Acyclic

LEMMA VisitKeepsInv ==
    ASSUME TypeOK, SearchSound, NEW callers, NEW n, Calling(callers, n), Visit(n, callers),
           UNCHANGED <<strict, edges>>, roots' \in SUBSET roots,
           \A m \in roots \ roots' : m = n
    PROVE  IndInv'
  <1>1. CASE state[n] = "open"
    <2>1. outcome' = "cycle" /\ stack' = callers /\ UNCHANGED state
      BY <1>1 DEF Visit
    <2>2. ~Acyclic(edges)
      BY <1>1, OpenMeansCycle
    <2>3. TypeOK'
      BY <2>1 DEF TypeOK, Calling, EdgesOf
    <2>4. SearchSound'
      BY <1>1, <2>1, <2>2 DEF SearchSound, VerdictRight
    <2> QED
      BY <2>3, <2>4 DEF IndInv
  <1>2. CASE state[n] = "done"
    <2>1. stack' = callers /\ UNCHANGED <<state, outcome>>
      BY <1>2 DEF Visit
    <2>2. TypeOK'
      BY <2>1 DEF TypeOK, Calling, EdgesOf
    <2>3. StackIsPath'
      BY <2>1 DEF Calling, StackIsPath, EdgesOf
    <2>4. FollowedEdges'
      BY <1>2, <2>1 DEF Calling, FollowedEdges, EdgesOf, Done
    <2>5. DoneIsAcyclic'
      BY <2>1 DEF Calling, DoneIsAcyclic, EdgesOf, Done
    <2>6. SearchSound'
      BY <1>2, <2>1, <2>3, <2>4, <2>5 DEF SearchSound, VerdictRight
    <2> QED
      BY <2>2, <2>6 DEF IndInv
  <1>3. CASE state[n] = "new"
    <2> DEFINE frame == [node |-> n, rest |-> EdgesOf(n)]
               L == Len(callers)
    <2>1. /\ state' = [state EXCEPT ![n] = "open"] /\ outcome' = outcome
          /\ stack' = Append(callers, frame)
      BY <1>3 DEF Visit
    <2>2. frame \in Frame /\ n \in Ids /\ callers \in Seq(Frame)
      BY EdgesOfType DEF Calling, Frame
    <2>3. /\ L \in Nat /\ Len(stack') = L + 1 /\ stack' \in Seq(Frame)
          /\ \A i \in 1..L : stack'[i] = callers[i]
          /\ stack'[L + 1] = frame
      BY <2>1, <2>2
    <2> HIDE DEF L
    <2>4. TypeOK'
      <3>1. \A i \in 1..Len(stack') : stack'[i].rest \subseteq EdgesOf(stack'[i].node)
        <4>1. \A i \in 1..Len(stack') : i \in 1..L \/ i = L + 1
          BY <2>3
        <4>2. \A i \in 1..L : callers[i].rest \subseteq EdgesOf(callers[i].node)
          BY DEF Calling, L
        <4> QED
          BY <2>3, <4>1, <4>2
      <3> QED
        BY <2>1, <2>2, <2>3, <3>1 DEF TypeOK, EdgesOf
    <2>5. Done' = Done
      BY <1>3, <2>1, <2>2 DEF Done, TypeOK
    <2>6. \A i \in 1..L : callers[i].node # n /\ state[callers[i].node] = "open" /\ callers[i].node \in Ids
      <3>1. \A i \in 1..L : callers[i] \in Frame
        BY <2>2 DEF L
      <3>2. \A i \in 1..L : state[callers[i].node] = "open"
        BY DEF Calling, L
      <3> QED
        BY <1>3, <3>1, <3>2 DEF Frame
    <2>7. \A i \in 1..Len(stack') : i \in 1..L \/ i = L + 1
      BY <2>3
    <2>8. StackIsPath'
      <3>1. \A i \in 1..Len(stack') : state'[stack'[i].node] = "open"
        BY <2>1, <2>2, <2>3, <2>6, <2>7 DEF TypeOK
      <3>2. ASSUME NEW m \in Ids, state'[m] = "open"
            PROVE  \E i \in 1..Len(stack') : stack'[i].node = m
        <4>1. CASE m = n
          BY <2>3, <4>1
        <4>2. CASE m # n
          <5>1. PICK i \in 1..L : callers[i].node = m
            BY <2>1, <2>2, <3>2, <4>2 DEF Calling, L, TypeOK
          <5> QED
            BY <2>3, <5>1
        <4> QED
          BY <4>1, <4>2
      <3>3. \A i, j \in 1..Len(stack') : stack'[i].node = stack'[j].node => i = j
        <4>1. \A i, j \in 1..L : callers[i].node = callers[j].node => i = j
          BY DEF Calling, L
        <4> QED
          BY <2>3, <2>6, <2>7, <4>1
      <3>4. ASSUME NEW i \in 1..Len(stack') - 1
            PROVE  stack'[i + 1].node \in EdgesOf(stack'[i].node)
        <4>1. CASE i = L
          BY <2>3, <4>1 DEF Calling, L
        <4>2. CASE i # L
          <5>1. i \in 1..L - 1 /\ i \in 1..L /\ i + 1 \in 1..L
            BY <2>3, <3>4, <4>2
          <5>2. callers[i + 1].node \in EdgesOf(callers[i].node)
            BY <5>1 DEF Calling, L
          <5> QED
            BY <2>3, <5>1, <5>2
        <4> QED
          BY <4>1, <4>2
      <3> QED
        BY <3>1, <3>2, <3>3, <3>4 DEF StackIsPath, EdgesOf
    <2>9. FollowedEdges'
      <3> SUFFICES ASSUME NEW i \in 1..Len(stack'),
                          NEW m \in EdgesOf(stack'[i].node) \ stack'[i].rest
                   PROVE  m \in Done \/ (i < Len(stack') /\ m = stack'[i + 1].node)
        BY <2>5 DEF FollowedEdges, EdgesOf
      <3>1. CASE i = L + 1
        BY <2>3, <3>1
      <3>2. CASE i \in 1..L
        <4>1. stack'[i] = callers[i]
          BY <2>3, <3>2
        <4>2. m \in Done \/ (i < L /\ m = callers[i + 1].node) \/ (i = L /\ m = n)
          BY <3>2, <4>1 DEF Calling, L
        <4>3. CASE i < L /\ m = callers[i + 1].node
          BY <2>3, <3>2, <4>3
        <4>4. CASE i = L /\ m = n
          BY <2>3, <4>4
        <4> QED
          BY <4>2, <4>3, <4>4
      <3> QED
        BY <2>7, <3>1, <3>2
    <2>10. DoneIsAcyclic'
      BY <2>5 DEF Calling, DoneIsAcyclic, EdgesOf
    <2>11. SearchSound'
      BY <2>1, <2>2, <2>8, <2>9, <2>10 DEF SearchSound, VerdictRight, Calling, TypeOK
    <2> QED
      BY <2>4, <2>11 DEF IndInv
  <1> QED
    BY <1>1, <1>2, <1>3 DEF Visit

-----------------------------------------------------------------------------
(* The steps *)

LEMMA VisitRootKeepsInv ==
    ASSUME IndInv, VisitRoot
    PROVE  IndInv'
  <1>1. PICK n \in roots : roots' = roots \ {n} /\ Visit(n, <<>>)
    BY DEF VisitRoot
  <1>2. TypeOK /\ SearchSound /\ StackIsPath /\ DoneIsAcyclic /\ stack = <<>> /\ outcome = "running"
    BY DEF IndInv, SearchSound, VisitRoot
  <1>3. n \in DOMAIN edges /\ n \in Ids
    BY <1>2, EdgesOfDomain DEF TypeOK
  <1>4. Calling(<<>>, n)
    BY <1>2, <1>3 DEF Calling, StackIsPath
  <1> QED
    BY <1>1, <1>2, <1>4, VisitKeepsInv DEF VisitRoot

LEMMA FollowKeepsInv ==
    ASSUME IndInv, Follow
    PROVE  IndInv'
  <1> DEFINE L == Len(stack)
  <1>1. /\ TypeOK /\ SearchSound /\ StackIsPath /\ FollowedEdges /\ DoneIsAcyclic
        /\ stack \in Seq(Frame) /\ stack # <<>> /\ outcome = "running"
    BY DEF IndInv, SearchSound, Follow, TypeOK
  <1>2. PICK n \in Ids :
          /\ IsNextEdge(n)
          /\ IF strict /\ n \notin DOMAIN edges
             THEN outcome' = "missing" /\ UNCHANGED <<state, stack>>
             ELSE Visit(n, Advanced(n))
    BY DEF Follow
  <1>3. L \in Nat \ {0} /\ L \in 1..L /\ stack[L] \in Frame /\ n \in stack[L].rest
    BY <1>1, <1>2 DEF IsNextEdge, Top
  <1>4. n \in EdgesOf(stack[L].node)
    BY <1>1, <1>3 DEF TypeOK
  <1>5. CASE strict /\ n \notin DOMAIN edges
    <2>1. outcome' = "missing" /\ UNCHANGED <<strict, edges, state, roots, stack>>
      BY <1>2, <1>5 DEF Follow
    <2>2. stack[L].node \in DOMAIN edges /\ ~Closed(edges)
      BY <1>4, <1>5 DEF Closed, EdgesOf
    <2>3. TypeOK'
      BY <1>1, <2>1 DEF TypeOK, EdgesOf
    <2>4. SearchSound'
      BY <1>1, <1>5, <2>1, <2>2 DEF SearchSound, VerdictRight
    <2> QED
      BY <2>3, <2>4 DEF IndInv
  <1>6. CASE ~(strict /\ n \notin DOMAIN edges)
    <2> DEFINE last == [node |-> stack[L].node, rest |-> stack[L].rest \ {n}]
               callers == [stack EXCEPT ![L] = last]
    <2>1. Visit(n, callers) /\ UNCHANGED <<strict, edges, roots>>
      BY <1>2, <1>6 DEF Follow, Advanced, Top
    <2>2. last \in Frame /\ last.node = stack[L].node /\ last.rest = stack[L].rest \ {n}
      BY <1>3 DEF Frame
    <2> HIDE DEF last
    <2>3. /\ callers \in Seq(Frame) /\ Len(callers) = L
          /\ \A i \in 1..L : callers[i] = IF i = L THEN last ELSE stack[i]
      BY <1>1, <1>3, <2>2
    <2>4. /\ \A i \in 1..L : callers[i].node = stack[i].node
          /\ \A i \in 1..L : callers[i].rest \subseteq stack[i].rest
      BY <2>2, <2>3
    <2> HIDE DEF callers
    <2>5. Calling(callers, n)
      <3>1. /\ n \in Ids /\ callers \in Seq(Frame) /\ outcome = "running" /\ DoneIsAcyclic
            /\ strict => n \in DOMAIN edges
        BY <1>1, <1>6, <2>3
      <3>2. \A i \in 1..Len(callers) : callers[i].rest \subseteq EdgesOf(callers[i].node)
        BY <1>1, <2>3, <2>4 DEF TypeOK
      <3>3. /\ \A i \in 1..Len(callers) : state[callers[i].node] = "open"
            /\ \A m \in Ids : state[m] = "open" => \E i \in 1..Len(callers) : callers[i].node = m
            /\ \A i, j \in 1..Len(callers) : callers[i].node = callers[j].node => i = j
        BY <1>1, <2>3, <2>4 DEF StackIsPath
      <3>4. ASSUME NEW i \in 1..Len(callers) - 1
            PROVE  callers[i + 1].node \in EdgesOf(callers[i].node)
        <4>1. i \in 1..L - 1 /\ i \in 1..L /\ i + 1 \in 1..L
          BY <1>3, <2>3
        <4> QED
          BY <1>1, <2>4, <4>1 DEF StackIsPath
      <3>5. n \in EdgesOf(callers[Len(callers)].node)
        BY <1>3, <1>4, <2>3, <2>4
      <3>6. ASSUME NEW i \in 1..Len(callers), NEW m \in EdgesOf(callers[i].node) \ callers[i].rest
            PROVE  \/ m \in Done
                   \/ i < Len(callers) /\ m = callers[i + 1].node
                   \/ i = Len(callers) /\ m = n
        <4>1. CASE i = L /\ m = n
          BY <2>3, <4>1
        <4>2. CASE ~(i = L /\ m = n)
          <5>1. m \in EdgesOf(stack[i].node) \ stack[i].rest
            BY <2>2, <2>3, <2>4, <4>2
          <5>2. m \in Done \/ (i < L /\ m = stack[i + 1].node)
            BY <1>1, <2>3, <5>1 DEF FollowedEdges
          <5>3. i < L => i + 1 \in 1..L
            BY <1>3, <2>3
          <5> QED
            BY <2>3, <2>4, <5>2, <5>3
        <4> QED
          BY <4>1, <4>2
      <3> QED
        BY <3>1, <3>2, <3>3, <3>4, <3>5, <3>6 DEF Calling
    <2> QED
      BY <1>1, <2>1, <2>5, VisitKeepsInv
  <1> QED
    BY <1>5, <1>6

\* A service whose edges all lead to services that are done is on no cycle.
LEMMA OneMoreDone ==
    ASSUME DoneIsAcyclic, NEW n, n \notin Done, EdgesOf(n) \subseteq Done,
           NEW nodes \in SUBSET (Done \cup {n}), nodes # {}
    PROVE  \E m \in nodes : EdgesOf(m) \cap nodes = {}
  <1>1. CASE nodes \ {n} = {}
    BY <1>1
  <1>2. CASE nodes \ {n} # {}
    <2>1. PICK m \in nodes \ {n} : EdgesOf(m) \cap (nodes \ {n}) = {}
      <3>1. nodes \ {n} \in SUBSET Done
        OBVIOUS
      <3> QED
        BY <1>2, <3>1 DEF DoneIsAcyclic
    <2>2. EdgesOf(m) \subseteq Done
      BY <2>1 DEF DoneIsAcyclic
    <2> QED
      BY <2>1, <2>2
  <1> QED
    BY <1>1, <1>2

LEMMA ReturnKeepsInv ==
    ASSUME IndInv, Return
    PROVE  IndInv'
  <1> DEFINE L == Len(stack)
             n == stack[L].node
  <1>1. /\ TypeOK /\ SearchSound /\ StackIsPath /\ FollowedEdges /\ DoneIsAcyclic
        /\ stack \in Seq(Frame) /\ stack # <<>> /\ outcome = "running"
    BY DEF IndInv, SearchSound, Return, TypeOK
  <1>2. /\ state' = [state EXCEPT ![n] = "done"] /\ stack' = SubSeq(stack, 1, L - 1)
        /\ UNCHANGED <<strict, edges, roots, outcome>> /\ stack[L].rest = {}
    BY DEF Return, Top
  <1>3. L \in Nat \ {0} /\ L \in 1..L /\ n \in Ids
    <2>1. L \in Nat \ {0} /\ L \in 1..L /\ stack[L] \in Frame
      BY <1>1
    <2> QED
      BY <2>1 DEF Frame
  <1>4. /\ stack' \in Seq(Frame) /\ Len(stack') = L - 1
        /\ \A i \in 1..L - 1 : stack'[i] = stack[i] /\ i \in 1..L
    <2>1. 1 \in Int /\ L - 1 \in Int
      BY <1>3
    <2>2. \A i \in 1..L - 1 : stack[i] \in Frame /\ i \in 1..L
      BY <1>1, <1>3
    <2>3. /\ SubSeq(stack, 1, L - 1) \in Seq(Frame)
          /\ Len(SubSeq(stack, 1, L - 1)) = IF 1 <= L - 1 THEN L - 1 - 1 + 1 ELSE 0
          /\ \A i \in 1..L - 1 - 1 + 1 : SubSeq(stack, 1, L - 1)[i] = stack[1 + i - 1]
      BY <2>1, <2>2, SubSeqProperties
    <2>4. L - 1 - 1 + 1 = L - 1 /\ \A i \in 1..L - 1 : 1 + i - 1 = i
      BY <1>3
    <2> QED
      BY <1>2, <1>3, <2>2, <2>3, <2>4
  <1>5. n \notin Done /\ Done' = Done \cup {n} /\ state[n] = "open"
    BY <1>1, <1>2, <1>3 DEF StackIsPath, Done, TypeOK
  <1>6. EdgesOf(n) \subseteq Done
    BY <1>1, <1>2, <1>3 DEF FollowedEdges
  <1> HIDE DEF n, L
  <1>7. TypeOK'
    BY <1>1, <1>2, <1>3, <1>4 DEF TypeOK, EdgesOf, L
  <1>8. StackIsPath'
    <2>1. \A i \in 1..L - 1 : stack[i].node # n
      BY <1>1, <1>3, <1>4 DEF StackIsPath, n, L
    <2>2. \A i \in 1..Len(stack') : state'[stack'[i].node] = "open"
      BY <1>1, <1>2, <1>3, <1>4, <2>1 DEF StackIsPath, TypeOK, L
    <2>3. ASSUME NEW m \in Ids, state'[m] = "open" PROVE \E i \in 1..Len(stack') : stack'[i].node = m
      <3>1. m # n /\ state[m] = "open"
        BY <1>1, <1>2, <1>3, <2>3 DEF TypeOK
      <3>2. PICK i \in 1..L : stack[i].node = m
        BY <1>1, <3>1 DEF StackIsPath, L
      <3>3. i \in 1..L - 1
        BY <1>3, <3>1, <3>2 DEF n
      <3> QED
        BY <1>4, <3>2, <3>3
    <2>4. \A i, j \in 1..Len(stack') : stack'[i].node = stack'[j].node => i = j
      BY <1>1, <1>4 DEF StackIsPath, L
    <2>5. ASSUME NEW i \in 1..Len(stack') - 1 PROVE stack'[i + 1].node \in EdgesOf(stack'[i].node)
      <3>1. i \in 1..L - 1 /\ i + 1 \in 1..L - 1
        BY <1>3, <1>4
      <3> QED
        BY <1>1, <1>4, <3>1 DEF StackIsPath, L
    <2> QED
      BY <1>2, <2>2, <2>3, <2>4, <2>5 DEF StackIsPath, EdgesOf
  <1>9. FollowedEdges'
    <2> SUFFICES ASSUME NEW i \in 1..Len(stack'),
                        NEW m \in EdgesOf(stack'[i].node) \ stack'[i].rest
                 PROVE  m \in Done' \/ (i < Len(stack') /\ m = stack'[i + 1].node)
      BY <1>2 DEF FollowedEdges, EdgesOf
    <2>1. i \in 1..L /\ i < L /\ stack'[i] = stack[i]
      BY <1>3, <1>4
    <2>2. m \in Done \/ m = stack[i + 1].node
      BY <1>1, <2>1 DEF FollowedEdges, L
    <2>3. CASE i = L - 1
      BY <1>3, <1>5, <2>2, <2>3 DEF n
    <2>4. CASE i # L - 1
      <3>1. i + 1 \in 1..L - 1
        BY <1>3, <2>1, <2>4
      <3> QED
        BY <1>3, <1>4, <1>5, <2>2, <3>1
    <2> QED
      BY <2>3, <2>4
  <1>10. DoneIsAcyclic'
    <2>1. \A m \in Done' : EdgesOf(m) \subseteq Done'
      BY <1>1, <1>5, <1>6 DEF DoneIsAcyclic
    <2>2. \A nodes \in SUBSET Done' : nodes # {} => \E m \in nodes : EdgesOf(m) \cap nodes = {}
      BY <1>1, <1>5, <1>6, OneMoreDone
    <2> QED
      BY <1>2, <2>1, <2>2 DEF DoneIsAcyclic, EdgesOf
  <1>11. SearchSound'
    BY <1>1, <1>2, <1>3, <1>5, <1>8, <1>9, <1>10 DEF SearchSound, VerdictRight, TypeOK
  <1> QED
    BY <1>7, <1>11 DEF IndInv

LEMMA AcceptKeepsInv ==
    ASSUME IndInv, Accept
    PROVE  IndInv'
  <1>1. /\ TypeOK /\ SearchSound /\ StackIsPath /\ DoneIsAcyclic
        /\ stack = <<>> /\ roots = {} /\ outcome' = "acyclic"
        /\ UNCHANGED <<strict, edges, state, roots, stack>>
    BY DEF IndInv, SearchSound, Accept
  <1>2. \A m \in Ids : state[m] # "open"
    BY <1>1 DEF StackIsPath
  <1>3. DOMAIN edges \subseteq Done
    BY <1>1, <1>2, EdgesOfDomain DEF SearchSound, Done, TypeOK
  <1>4. \A m \in DOMAIN edges : EdgesOf(m) = edges[m]
    BY <1>1, EdgesOfDomain
  <1>5. Acyclic(edges)
    BY <1>1, <1>3, <1>4 DEF Acyclic, DoneIsAcyclic
  <1>6. strict => Closed(edges)
    BY <1>1, <1>3, <1>4 DEF Closed, DoneIsAcyclic, SearchSound, Done
  <1>7. TypeOK'
    BY <1>1 DEF TypeOK, EdgesOf
  <1>8. SearchSound'
    BY <1>1, <1>5, <1>6 DEF SearchSound, VerdictRight
  <1> QED
    BY <1>7, <1>8 DEF IndInv

LEMMA NextKeepsInv == IndInv /\ [Next]_vars => IndInv'
  <1> SUFFICES ASSUME IndInv, [Next]_vars PROVE IndInv'
    OBVIOUS
  <1>1. CASE UNCHANGED vars
    BY <1>1 DEF vars, IndInv, TypeOK, EdgesOf, SearchSound, StackIsPath, FollowedEdges,
                DoneIsAcyclic, Done, VerdictRight
  <1> QED
    BY <1>1, VisitRootKeepsInv, FollowKeepsInv, ReturnKeepsInv, AcceptKeepsInv DEF Next

LEMMA Invariance == Spec => []IndInv
  BY InitInv, NextKeepsInv, PTL DEF Spec

\* The search keeps its state typed, and each call to edges of its service.
THEOREM TypeCorrectness == Spec => []TypeOK
  <1>1. IndInv => TypeOK
    BY DEF IndInv
  <1> QED
    BY <1>1, Invariance, PTL

\* What the search knows in the middle of it is true.
THEOREM SearchStaysSound == Spec => []SearchSound
  <1>1. IndInv => SearchSound
    BY DEF IndInv
  <1> QED
    BY <1>1, Invariance, PTL

\* Both searches of the backend answer rightly on every graph.
THEOREM SearchIsRight == Spec => []VerdictRight
  <1>1. IndInv => VerdictRight
    BY DEF IndInv, SearchSound
  <1> QED
    BY <1>1, Invariance, PTL

=============================================================================
