------------------------ MODULE ScenarioLifecycleProofs ------------------------
(***************************************************************************)
(* What the lifecycle promises follows from its moves, whoever implements  *)
(* them: RolloverScenarioProofs and ConsoleProofs use it.                  *)
(***************************************************************************)
EXTENDS ScenarioLifecycle, TLAPS

\* What the database starts with, and what a simulation returns.
StartsTyped ==
    /\ Seeded \in [Ids -> Assessment]
    /\ \A id \in Ids : Seeded[id].state # "absent" => Seeded[id].input \in Inputs
    /\ ResultOf \in [Inputs -> Results]
    /\ Verifiers \subseteq Users

\* Only what exists has an input.
Typed ==
    /\ assessment \in [Ids -> Assessment]
    /\ \A id \in Ids : assessment[id].state # "absent" => assessment[id].input \in Inputs

AccountableStep(id) ==
    LET old == assessment[id]
        new == assessment'[id]
    IN /\ old.state \in Settled => new = old
       /\ old.state # "absent" => new.input = old.input /\ new.creator = old.creator
       /\ new.state \in Settled => old.state \in Settled \cup {"executing"}
       /\ new.state = "executing" => old.state \in {"ready", "executing"}
       /\ old.state = "draft" => new.state \in {"draft", "simulated"}
       /\ new.state = "simulated" /\ old.state # "simulated" => new.result = ResultOf[new.input]
       /\ new.state = "verified" /\ old.state # "verified" =>
            new.verifier \in Verifiers \ {new.creator}

\* One assessment is replaced by another one.
Replaced(id, new) ==
    /\ assessment' = [assessment EXCEPT ![id] = new]
    /\ new \in Assessment
    /\ new.state # "absent" => new.input \in Inputs

LEMMA ReplacedIsTyped ==
    ASSUME Typed, NEW id \in Ids, NEW new, Replaced(id, new)
    PROVE  /\ Typed'
           /\ assessment'[id] = new
           /\ \A other \in Ids \ {id} : assessment'[other] = assessment[other]
  BY DEF Typed, Replaced

\* Every move replaces one assessment, accountably.
LEMMA MoveIsAccountable ==
    ASSUME StartsTyped, Typed, NEW id \in Ids,
           \/ Draft(id) \/ Assess(id) \/ MarkReady(id) \/ Execute(id)
           \/ Reopen(id) \/ Verify(id) \/ RollBack(id)
    PROVE  Typed' /\ \A other \in Ids : AccountableStep(other)
  <1> DEFINE old == assessment[id]
  <1>1. old \in Assessment /\ (old.state # "absent" => old.input \in Inputs)
    BY DEF Typed
  <1>2. \A other \in Ids : assessment'[other] = assessment[other] => AccountableStep(other)
    BY DEF AccountableStep, Settled
  <1>3. ASSUME NEW new, Replaced(id, new), AccountableStep(id)
        PROVE  Typed' /\ \A other \in Ids : AccountableStep(other)
    BY <1>2, <1>3, ReplacedIsTyped
  <1>4. CASE Draft(id)
    <2>1. PICK user \in Users, input \in Inputs :
            assessment' = [assessment EXCEPT ![id] =
              [ state |-> "draft", input |-> input, creator |-> user,
                verifier |-> NoUser, result |-> NoResult ]]
      BY <1>4 DEF Draft
    <2> DEFINE new == [ state |-> "draft", input |-> input, creator |-> user,
                        verifier |-> NoUser, result |-> NoResult ]
    <2>2. Replaced(id, new)
      BY <2>1 DEF Replaced, Assessment
    <2>3. assessment'[id] = new /\ old.state = "absent"
      BY <1>4, <2>2, ReplacedIsTyped DEF Draft
    <2> QED
      BY <1>3, <2>2, <2>3 DEF AccountableStep, Settled
  <1>5. CASE Assess(id)
    <2> DEFINE new == [ state |-> "simulated", input |-> old.input, creator |-> old.creator,
                        verifier |-> old.verifier, result |-> ResultOf[old.input] ]
    <2>1. old.state = "draft" /\ assessment' = [assessment EXCEPT ![id] = new]
      BY <1>5 DEF Assess
    <2>2. Replaced(id, new)
      BY <1>1, <2>1 DEF Replaced, Assessment, StartsTyped
    <2>3. assessment'[id] = new
      BY <2>2, ReplacedIsTyped
    <2> QED
      BY <1>3, <2>1, <2>2, <2>3 DEF AccountableStep, Settled
  <1>6. CASE Verify(id)
    <2>1. PICK user \in Verifiers \ {old.creator} :
            assessment' = [assessment EXCEPT ![id] =
              [ state |-> "verified", input |-> @.input, creator |-> @.creator,
                verifier |-> user, result |-> @.result ]]
      BY <1>6 DEF Verify
    <2> DEFINE new == [ state |-> "verified", input |-> old.input, creator |-> old.creator,
                        verifier |-> user, result |-> old.result ]
    <2>2. old.state = "executing"
      BY <1>6 DEF Verify
    <2>3. Replaced(id, new)
      BY <1>1, <2>1, <2>2 DEF Replaced, Assessment, StartsTyped
    <2>4. assessment'[id] = new
      BY <2>3, ReplacedIsTyped
    <2> QED
      BY <1>3, <2>2, <2>3, <2>4 DEF AccountableStep, Settled
  <1>7. ASSUME NEW to \in {"draft", "ready", "executing", "rollback"},
               assessment' = [assessment EXCEPT ![id].state = to],
               \/ old.state = "simulated" /\ to = "ready"
               \/ old.state = "ready" /\ to = "executing"
               \/ old.state \in {"simulated", "ready"} /\ to = "draft"
               \/ old.state = "executing" /\ to = "rollback"
        PROVE  Typed' /\ \A other \in Ids : AccountableStep(other)
    <2> DEFINE new == [old EXCEPT !.state = to]
    <2>1. /\ new \in Assessment /\ new.state = to /\ new.input = old.input
          /\ new.creator = old.creator
      BY <1>1 DEF Assessment
    <2>2. assessment' = [assessment EXCEPT ![id] = new]
      BY <1>7
    <2> HIDE DEF new
    <2>3. Replaced(id, new)
      BY <1>1, <1>7, <2>1, <2>2 DEF Replaced
    <2>4. assessment'[id] = new
      BY <2>3, ReplacedIsTyped
    <2> QED
      BY <1>3, <1>7, <2>1, <2>3, <2>4 DEF AccountableStep, Settled
  <1>8. MarkReady(id) \/ Execute(id) \/ Reopen(id) \/ RollBack(id)
        => Typed' /\ \A other \in Ids : AccountableStep(other)
    BY <1>7 DEF MarkReady, Execute, Reopen, RollBack
  <1> QED
    BY <1>4, <1>5, <1>6, <1>8

\* Whatever goes through the lifecycle is accountable.
THEOREM LifecycleIsAccountable ==
    ASSUME StartsTyped
    PROVE  Spec => Accountable
  <1>1. Init => Typed
    BY DEF Init, Typed, StartsTyped
  <1>2. Typed /\ [Next]_assessment => Typed'
    BY MoveIsAccountable DEF Next, Typed
  <1>3. Typed /\ [Next]_assessment => [\A id \in Ids : AccountableStep(id)]_assessment
    BY MoveIsAccountable DEF Next
  <1> QED
    BY <1>1, <1>2, <1>3, PTL DEF Spec, Accountable, AccountableStep

=============================================================================
