--------------------------- MODULE RolloverDomain ---------------------------
(***************************************************************************)
(* The vocabulary the backend's modules share: roles and what they permit  *)
(* (constants/roles.go), and the states of a rollover scenario with the    *)
(* moves between them (constants/scenario_state.go).                       *)
(***************************************************************************)

Roles == {"admin", "pki_operator", "service_owner", "security_reviewer", "auditor"}

WriteRoles == {"admin", "pki_operator", "service_owner"}

\* The role -> permission table, transposed: who holds each permission.
Holders(permission) ==
    CASE permission = "read"             -> Roles
      [] permission = "anchor.write"     -> {"admin", "pki_operator"}
      [] permission = "chain.write"      -> {"admin", "pki_operator"}
      [] permission = "dependency.write" -> WriteRoles
      [] permission = "scenario.write"   -> WriteRoles
      [] permission = "scenario.run"     -> WriteRoles
      [] permission = "scenario.verify"  -> {"admin", "security_reviewer"}
      [] permission = "audit.read"       -> {"admin", "security_reviewer", "auditor"}

HasPermission(role, permission) == role \in Holders(permission)

ScenarioStates == {"draft", "simulated", "ready", "executing", "verified", "rollback"}

\* Fault: what is being executed can still be reopened.
ScenarioMovesReopenExecuting ==
    { <<"draft", "simulated">>,
      <<"simulated", "ready">>,    <<"simulated", "draft">>,
      <<"ready", "executing">>,    <<"ready", "draft">>,
      <<"executing", "verified">>, <<"executing", "rollback">>, <<"executing", "draft">> }

ScenarioMoves ==
    { <<"draft", "simulated">>,
      <<"simulated", "ready">>,    <<"simulated", "draft">>,
      <<"ready", "executing">>,    <<"ready", "draft">>,
      <<"executing", "verified">>, <<"executing", "rollback">> }

CanTransitionScenario(from, to) == <<from, to>> \in ScenarioMoves

=============================================================================
