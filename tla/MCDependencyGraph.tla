-------------------------- MODULE MCDependencyGraph --------------------------
(***************************************************************************)
(* A small instance of DependencyGraph: the three seeded services, a       *)
(* platform administrator and the owner of two of the services.            *)
(***************************************************************************)
EXTENDS DependencyGraph, TLC

CONSTANTS admin, owner, reviewer, platform, payments, w1, w2

MCIds == 1..4
MCWorkers == {w1, w2}
MCUsers == {admin, owner, reviewer}
MCRoleOf == (admin :> "admin") @@ (owner :> "service_owner") @@ (reviewer :> "security_reviewer")
MCTeams == {platform, payments}
MCTeamOf == (admin :> platform) @@ (owner :> payments) @@ (reviewer :> platform)

Stored(team, edges) == [state |-> "active", team |-> team, edges |-> edges]

\* EDGE-AUTH <- PAYMENTS-API <- ORDER-WORKER, and room for one more.
MCSeed ==
    << Stored(platform, {}), Stored(payments, {1}), Stored(payments, {2}),
       [state |-> "absent", team |-> NoTeam, edges |-> {}] >>

Create(user, team, edges) ==
    [NoRequest EXCEPT !.op = "create", !.actor = user, !.team = team, !.edges = edges]
Update(user, id, team, edges) ==
    [NoRequest EXCEPT !.op = "update", !.actor = user, !.id = id, !.team = team, !.edges = edges]
Deactivate(user, id) == [NoRequest EXCEPT !.op = "deactivate", !.actor = user, !.id = id]

\* Edges are cut and drawn the other way round, a service changes hands, is
\* deactivated twice, and a new one is put between the others.
MCRequests ==
    { Create(owner, payments, {1, 3}), Create(owner, platform, {1}), Create(reviewer, platform, {}),
      Update(owner, 3, payments, {}), Update(owner, 3, payments, {2}),
      Update(owner, 3, platform, {}), Update(admin, 3, platform, {1}),
      Update(admin, 1, platform, {3}), Update(admin, 1, platform, {}),
      Update(owner, 2, payments, {2}), Update(owner, 2, payments, {4}),
      Deactivate(owner, 3), Deactivate(admin, 3) }

=============================================================================
