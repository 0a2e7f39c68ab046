-------------------------- MODULE ScenarioLifecycle --------------------------
(***************************************************************************)
(* What the rollover service promises of its scenarios, whoever calls it   *)
(* and in whatever order: every scenario is an assessment of one frozen    *)
(* input that goes through                                                 *)
(*                                                                         *)
(*     draft -> simulated -> ready -> executing -> verified | rollback     *)
(*              simulated, ready -> draft                                  *)
(*                                                                         *)
(* one move at a time; its result is the simulation of its input; a second *)
(* person signs it off; and what was verified or rolled back stays so.     *)
(* RolloverScenario implements this with concurrent HTTP requests.         *)
(***************************************************************************)
CONSTANTS
    Ids,        \* the scenarios there can be
    Users,
    Verifiers,  \* the users who hold scenario.verify
    Inputs,     \* frozen inputs: hash, algorithm version and simulation time
    Results,
    ResultOf,   \* the deterministic simulation: [Inputs -> Results]
    Seeded,     \* the assessments the database starts with: [Ids -> Assessment]
    NoUser, NoInput, NoResult

VARIABLE assessment

Assessment ==
    [ state    : {"absent", "draft", "simulated", "ready", "executing", "verified", "rollback"},
      input    : Inputs \cup {NoInput},
      creator  : Users \cup {NoUser},
      verifier : Users \cup {NoUser},
      result   : Results \cup {NoResult} ]

Init == assessment = Seeded

\* A new assessment of an input nobody assessed before.
Draft(id) ==
    /\ assessment[id].state = "absent"
    /\ \E user \in Users, input \in Inputs :
        /\ \A other \in Ids : assessment[other].input # input
        /\ assessment' = [assessment EXCEPT ![id] =
             [ state |-> "draft", input |-> input, creator |-> user,
               verifier |-> NoUser, result |-> NoResult ]]

Assess(id) ==
    /\ assessment[id].state = "draft"
    /\ assessment' = [assessment EXCEPT ![id] =
         [ state |-> "simulated", input |-> @.input, creator |-> @.creator,
           verifier |-> @.verifier, result |-> ResultOf[@.input] ]]

MarkReady(id) ==
    /\ assessment[id].state = "simulated"
    /\ assessment' = [assessment EXCEPT ![id].state = "ready"]

Execute(id) ==
    /\ assessment[id].state = "ready"
    /\ assessment' = [assessment EXCEPT ![id].state = "executing"]

\* Back to the drawing board, as long as nothing was executed.
Reopen(id) ==
    /\ assessment[id].state \in {"simulated", "ready"}
    /\ assessment' = [assessment EXCEPT ![id].state = "draft"]

\* Sign-off by a second person.
Verify(id) ==
    /\ assessment[id].state = "executing"
    /\ \E user \in Verifiers \ {assessment[id].creator} :
        assessment' = [assessment EXCEPT ![id] =
          [ state |-> "verified", input |-> @.input, creator |-> @.creator,
            verifier |-> user, result |-> @.result ]]

RollBack(id) ==
    /\ assessment[id].state = "executing"
    /\ assessment' = [assessment EXCEPT ![id].state = "rollback"]

Next == \E id \in Ids :
    \/ Draft(id) \/ Assess(id) \/ MarkReady(id) \/ Execute(id)
    \/ Reopen(id) \/ Verify(id) \/ RollBack(id)

Spec == Init /\ [][Next]_assessment

-----------------------------------------------------------------------------
(* What follows for whoever implements it *)

Settled == {"verified", "rollback"}

\* An assessment that was verified or rolled back stays as it is, with its result and its
\* reviewer.  None changes its input or its creator.  It is settled only from executing and
\* executed only from ready, and a draft has to be assessed first, by the simulation of its
\* own input.  Who signs it off may do so and did not create it.
Accountable ==
    [][\A id \in Ids :
         LET old == assessment[id]
             new == assessment'[id]
         IN /\ old.state \in Settled => new = old
            /\ old.state # "absent" => new.input = old.input /\ new.creator = old.creator
            /\ new.state \in Settled => old.state \in Settled \cup {"executing"}
            /\ new.state = "executing" => old.state \in {"ready", "executing"}
            /\ old.state = "draft" => new.state \in {"draft", "simulated"}
            /\ new.state = "simulated" /\ old.state # "simulated" => new.result = ResultOf[new.input]
            /\ new.state = "verified" /\ old.state # "verified" =>
                 new.verifier \in Verifiers \ {new.creator}]_assessment

=============================================================================
