------------------------- MODULE MCRolloverScenario -------------------------
(***************************************************************************)
(* Small instances of RolloverScenario: who the users are and which        *)
(* requests the clients of each run send.                                  *)
(***************************************************************************)
EXTENDS RolloverScenario, TLC

CONSTANTS
    admin, operator, owner, reviewer,  \* users, one of each role that matters
    w1, w2,
    seedInput, inputA, inputB, seedResult, resultA, resultB,
    seedKey, keyA, keyB

MCWorkers == {w1, w2}
MCUsers == {admin, operator, owner, reviewer}
MCRoleOf == (admin :> "admin") @@ (operator :> "pki_operator")
            @@ (owner :> "service_owner") @@ (reviewer :> "security_reviewer")
MCInputs == {seedInput, inputA, inputB}
MCResults == {seedResult, resultA, resultB}
MCResultOf == (seedInput :> seedResult) @@ (inputA :> resultA) @@ (inputB :> resultB)
LifecycleResultOf == (seedInput :> seedResult) @@ (inputA :> resultA)
MCKeys == {seedKey, keyA, keyB}

Create(user) == [NoRequest EXCEPT !.op = "create", !.actor = user]
Simulate(user, id, key) ==
    [NoRequest EXCEPT !.op = "simulate", !.actor = user, !.id = id, !.key = key]
Transition(user, id, to) ==
    [NoRequest EXCEPT !.op = "transition", !.actor = user, !.id = id, !.to = to]
Replay(user, id) == [NoRequest EXCEPT !.op = "replay", !.actor = user, !.id = id]

\* One scenario from its creation by an administrator, who may verify but not
\* what is theirs, to its end; a reviewer and an operator work on it too.
LifecycleIds == {1, 2}
LifecycleInputs == {seedInput, inputA}
LifecycleRequests ==
    {Create(admin), Simulate(admin, 2, keyA), Replay(operator, 2), Replay(reviewer, 2)}
    \cup {Transition(admin, 2, to) : to \in {"ready", "draft", "executing", "verified"}}
    \cup {Transition(operator, 2, to) : to \in {"draft", "rollback", "verified"}}
    \cup {Transition(reviewer, 2, "verified")}

\* Keys and inputs: scenarios created, simulated and reopened by their owner
\* and an operator, competing for two keys and two inputs.
KeysIds == {1, 2, 3}
KeysRequests ==
    {Create(owner), Create(reviewer)}
    \cup {Simulate(owner, 2, key) : key \in {keyA, keyB, seedKey, NoKey}}
    \cup {Simulate(operator, 1, keyA), Simulate(owner, 1, keyB)}
    \cup {Transition(operator, id, "draft") : id \in {1, 2}}

\* Two scenarios beside the seeded one, nothing simulated.
DraftsIds == {1, 2, 3}
DraftsRequests == {Create(owner)}

=============================================================================
