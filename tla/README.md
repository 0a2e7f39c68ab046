# CertRollover in TLA+

CertRollover rehearses the replacement of a PKI trust anchor: it keeps trust
anchors, certificate chains and the services that depend on them, freezes them
into *rollover scenarios*, simulates which services would lose their trust path,
and takes each scenario through a review by a second person. This directory
specifies the parts of it that are hard to test, model-checks them with TLC and
proves the main results with TLAPS. Paths below are relative to
`src/backend/internal/` unless they start with `src/`.

## The system

| Component | State | Operations | Interacts through | What is hard |
|---|---|---|---|---|
| Rollover scenarios (`service/rollover_scenario_service.go`, its repository, handler, model) | table `rollover_scenarios`: state, frozen input, results, idempotency key, creator, verifier, replay flag | Create, Simulate, Transition, Replay (Get, List, Compare only read) | reads anchors, chains, services when it freezes an input; writes with the audit log in one transaction | every check is made before the transaction; retries; reopening; separation of duties |
| Dependent services (`service/dependent_service_service.go`) | table `dependent_services`: owner team, chain, trust references, dependency edges, active/inactive | Create, Update, Deactivate | reads chains and anchors; the graph is frozen into scenarios | graph constraints spread over rows, checked before an unguarded write |
| Trust anchors (`service/trust_anchor_service.go`) | table `trust_anchors`: validity, revoked, archived, stored state | Import, Lifecycle (revoke, archive, restore) | referred to by chains, services, scenarios | lifecycle writes without a guard; a stored state that ages |
| Certificate chains (`service/certificate_chain_service.go`) | table `certificate_chains` | Import, Transition | signed by an anchor; used by services and scenarios | guarded transitions; anchor read before the import |
| Audit log (`service/common.go`, `repository/trust_anchor_repository.go`) | table `audit_logs`, append only | Record, List | written in the transaction of every write | snapshots taken from rows read before the transaction |
| Simulator (`algorithm/simulator.go`) | none: a function of the frozen input | NewSnapshot, Simulate, Compare | called by Simulate, Replay and the seed | window boundaries, dependency resolution, cycle detection |
| Cycle checks (`service/common.go`, `algorithm/simulator.go`) | a depth-first search | servicesContainCycle, detectCycle | called before a service is stored, and by Simulate | shared search state, order of a Go map |
| Authentication, RBAC, rate limit (`middleware/`) | token, role table, buckets in memory | Login, RequireAuth, RequireAnyPermission, RateLimiter | in front of every handler | window boundary, time read before a lock |
| Start-up and seed (`database/database.go`) | the seeded rows | Open, seed | before the first request | two backends starting at once |
| Server (`src/backend/cmd/server/main.go`) | requests in flight | run, graceful shutdown | | a stop between two steps |
| Frontend (`src/frontend/src`) | session, lists of each page | stores, API client | HTTP | late and reordered responses |

What makes each of them correct:

* *scenarios*: the flow draft → simulated → ready → executing → verified or
  rollback, with reopening to draft, whatever requests overlap; a verification
  is by a reviewer other than the creator; past draft a scenario stands on the
  simulation of its own frozen input; no key is shared by two scenarios; a repeated
  key returns the stored result; every change of state is audited with what it
  replaced.
* *dependent services*: dependencies exist, the graph is acyclic, a deactivated
  service stays so, an owner changes services of their team only.
* *anchors and chains*: a revocation is final, chain transitions follow their
  table, a chain's window lies in its anchor's.
* *simulator*: a service is reachable exactly when it and everything it depends
  on has a valid path at that time; a cycle is refused exactly when there is one.
* *rate limit*: no window lets more than the limit through.

`PROJECT.json` lists every hazard found in the code with the property that
watches it, or the reason there is none yet.

## Modules

| Module | Models |
|---|---|
| `RolloverDomain` | `constants/roles.go`, `constants/scenario_state.go`: the permission table and the scenario transition table, shared by the others |
| `ScenarioLifecycle` | the abstract promise: scenarios are drafted, assessed, made ready, executed, verified by somebody else or rolled back, each in one atomic step |
| `RolloverScenario` | the service that implements it: requests on workers, their reads, checks, transactions and answers, failures and crashes |
| `DependencyGraph` | the dependent services: both reads of the graph, the checks on them, the writes |
| `CycleSearch` | the depth-first search of `servicesContainCycle` and `detectCycle`, call by call |
| `TrustPathSimulator` | `algorithm.Simulate` on a frozen input: critical times, direct paths, the recursion of `resolveService` |
| `Certificates` | `x509util/certificate.go`, `constants/certificate_state.go`: when a certificate may be an anchor, when a bundle verifies, states and windows |
| `TrustCatalogue` | two backends from their start on: the seed, the trust anchors, the certificate chains, and the input a scenario freezes from them |
| `RateLimiter` | the buckets of `middleware/auth.go` and the clock |
| `Console` | the browser console on the scenarios, the requests it has in flight and their way through the middleware; it contains `RateLimiter` |
| `GraphShape` | when a dependency graph is closed and when it is acyclic: the reference the searches are checked against |
| `MC...` | the instances TLC checks |
| `ScenarioLifecycleProofs`, `RolloverScenarioProofs`, `DependencyGraphProofs`, `CycleSearchProofs`, `TrustPathSimulatorProofs`, `TrustCatalogueProofs`, `RateLimiterProofs`, `ConsoleProofs` | theorems and proofs |

### RolloverScenario and ScenarioLifecycle

A request runs on a worker, which stands for a goroutine of any backend.
`pc[w]` is the step it is about to take: *read* (permission, binding, `GetByID`
and the checks on the row; for a create, freezing the input), *find* (the lookup
of the idempotency key), *commit* (the transaction) and *reply* (the `Get` after
it). Steps of different workers interleave freely; a transaction is one step
because its first statement is a guarded `UPDATE` or an insert under unique indexes,
which serialises it against the others.

| Action | Code |
|---|---|
| `Receive`, `Deny` | the route, its permissions, and their refusal |
| `FreezeInput`, `CommitCreate` | `Create` up to and in its transaction |
| `ReadForSimulate`, `FindKey`, `CommitSimulate` | `Simulate` |
| `ReadForTransition`, `CommitTransition` | `Transition` with the handler's per-target permission |
| `ReadForReplay`, `CommitReplay` | `Replay` |
| `Reply` | `Get` |
| `DatabaseFails` | any statement returns an error; in a transaction everything is rolled back |
| `Crash` | the backend dies: its requests are gone, its rows stay |

`scenarios[id]` keeps the columns the properties tell apart; a frozen input
is one value, its simulation result the value `ResultOf` maps it to, and the
unkeyed draft has the key `NoKey`, which is the empty string the unique index
sees. `audit[id]` is the last entry of a scenario.

`ScenarioLifecycle` is refined under `assessment[id] =` state, input, creator,
verifier and result of the row: each transaction is one of its steps, and all else
(reads, refusals, failures, replays) a stutter. `Console` implements it too, with one
whole handler per step. `Accountable` says what follows for both: what is verified or
rolled back stays as it is, nothing is settled out of order, and a permitted second person
signs off.

### DependencyGraph

`services[id]` keeps state, team and edges. A worker goes through *load*
(`GetByID` and the checks on the row), *references* (`validateReferences`), *cycle*
(the second read and `servicesContainCycle`), *commit* and *reply*.
`GraphsRead` has the empty graph beside the real one because the error of the
second read is dropped (`all, _ := s.services.All(ctx)`). `Candidate` is the graph with
the request's edges; a new service stands in it under `NewNode` (`^uint(0)`) because
it has no id yet. Refusals for chains, trust references and service codes are the
disjunct `Finish(w)` of the step that looks at them, and `Stop` covers every
other failure and the death of the backend.

### CycleSearch

The graph and the variant (`strict`: an edge out of the graph is an error, as in
`servicesContainCycle`; otherwise such a node is visited without edges, as in
`detectCycle`) are chosen initially. `stack` holds the calls of `visit` in
progress with the edges each still has to follow, in increasing order as they are
stored; the roots come in any order because Go ranges over a map. `SearchIsRight`
and `Terminates` justify that `DependencyGraph` and `TrustPathSimulator` evaluate a
search in one step, by what it decides (`GraphShape`).

### TrustPathSimulator

The frozen input is chosen initially and never changes.

| Action | Code |
|---|---|
| `Validate` | `ValidateSnapshot` |
| `StartPoint` | the loop over `criticalTimes`: `activeAnchors`, then `evaluateDirect` of every active service (`HasPath`) |
| `ResolveNext` | the loop over the active services: calls `resolveService` |
| `Follow` | the loop over the dependencies of the innermost call: calls `resolveService` |
| `Return` | that loop has ended |
| `Finish` | the result is returned |

`stack` holds the calls in progress; their services are both `visiting` and
`path` of the code. `Resolve` is one call: it fails when the service was not
evaluated (absent or inactive), is being visited or has no path of its own, and a
failure is handed up by every caller, so the whole stack goes at once. `evidence`
has one record per service and critical time, with the broken path beside it. Times
are numbers. Which of several valid chains is named, and the wording of
reasons, is left out.

`IsWell` is the reference: a service is well when it is in some set of active services
that all have a path of their own and depend on nothing outside the set. It does not
recurse and does not know of any order.

### Certificates and TrustCatalogue

A certificate is the record of what the decisions of `x509util` look at: its key, the
key that signed it, its window, whether it is a CA with the right key usage. A signature
checks out when the signer's key is the issuer's; `Verify` is the promise of
`x509.Certificate.Verify`, some path from the leaf through the bundle to the anchor.
The windows differ at their ends as they do in the code: an anchor is invalid at its
`NotAfter`, `Verify` still accepts it, and a chain is stored with the narrowest window of
*every* certificate of the bundle.

A worker is a backend. It begins `down`, and its steps are those of `database.Open`
and then of one request after the other.

| Action | Code |
|---|---|
| `Start`, `FindAccount`, `AddAccount`, `CountAnchors`, `SeedDomain` | the container starts; `seed`, account by account, outside a transaction; then the count and the transaction that seeds the domain |
| `CheckAnchor`, `CommitAnchor` | `TrustAnchorService.Import` |
| `CheckChain`, `InsertChain`, `CommitChain` | `CertificateChainService.Import`: the checks; the `INSERT`, which draws the key; the audit entry and the `COMMIT`, from which on others see the row |
| `ReadForLifecycle`, `CommitLifecycle` | `TrustAnchorService.Lifecycle`: the `UPDATE` by id alone |
| `ReadForTransition`, `CommitTransition` | `CertificateChainService.Transition`: the `UPDATE` guarded by the state that was read |
| `ReadAnchors`, `FindCandidates`, `ListChains`, `LoadServices`, `CommitInput` | `RolloverScenarioService.Create`: four reads, `ValidateSnapshot` and the insert |
| `PlaceService` | a service is stored with a chain (`DependencyGraph` has the rest) |
| `DatabaseFails`, `Crash`, `Tick` | a statement fails; a backend dies or exits; time passes |

The order of keys is not the order in which chains appear. PostgreSQL takes the key from
a sequence at the `INSERT` (`drawn`) and others see the row at the `COMMIT`, so of two
overlapping imports the one with the greater key may commit first, and a key whose
transaction is rolled back is never used. Nothing in the specification relies on keys but the
`ORDER BY` of the list. Of anchors no property reads the order at all, so an anchor is
stored under any free key, in one step.

A bundle is kept as its leaf and the set of the others. The fingerprint in
the code is of the ordered list, so `CommitChain` leaves open whether a bundle of the same
certificates is refused (`SameCertificates`). The unique indexes are looked at when a
transaction commits: an `INSERT` that meets an uncommitted row of the same code waits for
it, and an earlier refusal would only leave the same rows.

`RolloverScenario` takes a frozen input as one value; `FrozenInputsArePast` and
`FrozenGapsExplained` say what kind of value it is although the four reads are not one:
every row in it has been in the database and has only moved forward since, no candidate
is missing, and the chain of a service is missing only when it was committed after the
chains were listed and before the services were read, whatever its key, or when the page is
full. Two history variables record what was there to list (`listed`) and what was committed
since (`meanwhile`). `PageSize` is 200 in the code and 3 in the run.

### RateLimiter and Console

`RateLimiter` can be used on its own (`LimiterSpec`, which the proofs are about) and is
extended by `Console`, where the limiters of sign-ins and of simulations stand
between a request and its handler. The reading of the clock and the counting are two steps
(`Admit` and `LimitRate`), because the code reads the clock before it takes the lock.
`passed` and `restarts` are history variables of `PassesBounded`.

A tab of the console keeps what the stores of the session and of the scenarios and the
component `RolloversPage` keep (`page[t]`); the access token is in localStorage. A slot is
a request in flight (`call[s]`), with what the page showed when its button was pressed.

| Action | Code |
|---|---|
| `Login`, `Logout` | `stores/auth.ts`, `pages/LoginPage.tsx` |
| `Fetch`, `Select`, `Leave` | `fetchScenarios`, `select`, another page |
| `Simulate`, `Transition` | the buttons of `RolloversPage.tsx`, offered as its conditions say; only a roll-back ignores `busy` |
| `Deliver` | an answer arrives: `merge`, the `finally` clauses, the event of a 401 |
| `Lose` | `fetch` rejects; the backend may still serve the request |
| `Admit`, `LimitRate` | `RequireAuth`, `RequirePermission`, the limiter |
| `ServeLogin`, `ServeList`, `ServeChange`, `RefuseChange`, `DatabaseFails` | the handlers, each in one step as `ScenarioLifecycle` promises |
| `Restart`, `Elsewhere`, `Tick` | the backend stops and is started again; somebody else moves a scenario; time passes |

Answers arrive in any order. A page that is left, or whose session is ended by a 401,
waits for nothing any more, but the stores still take what arrives (`Left`).

## Runs

| Run | Question | Instance |
|---|---|---|
| `rollover_lifecycle` | does one scenario go through its whole life as promised, with everything overlapping? | two workers, the seeded scenario and one created by an administrator (who may verify, but not this one), requests for every transition, eleven in all, by three users: the administrator, an operator and a reviewer; two creations may overlap; failures and crashes anywhere |
| `rollover_keys` | do keys and inputs stay unique and results sound under competition? | two workers, up to two scenarios beside the seeded one, created by requests that may overlap with one input, two free keys beside the seeded one and the missing one, reopening in between |
| `rollover_drafts` | *violated*: is "identical scenario" only said of identical ones? | three scenarios |
| `rollover_repeated_key` | *violated*: does a repeated key return the stored result? | as `rollover_keys` |
| `rollover_replay_audit` | *violated*: are audit snapshots those of the write? | as `rollover_lifecycle` |
| `dependency_graph` | which graph constraints survive the gap between check and write? | the three seeded services and room for a fourth, two workers, thirteen requests by three users, failing reads |
| `dependency_cycle` | *violated*: does the stored graph stay acyclic? | the same without failing reads |
| `trust_paths` | does a simulation end with one right finding for each active service and critical time? | every dependency graph of three services without loops (cyclic ones are refused), two of them active or not, one that trusts the old anchor only or both, the old chain valid or deprecated, and an input with a missing candidate |
| `trust_path_gap` | *violated*: does "remain reachable before, during, and after" hold between the critical times? | one service, an old chain that ends before the new one begins |
| `trust_catalogue` | do anchors, chains and frozen inputs stay true, from the start of two backends on, while time passes? | two backends; an empty database, one in use or one with more chains than fit on a page; three requests out of eleven kinds, services placed at any time, one crash, two times; bundles with an intermediate and with a stray certificate, and direct ones already stored; four keys of chains, pages of three chains |
| `console` | does a button do what its caption said, whatever is late, lost, expired or restarted, and do the pages come to rest? | one tab, two requests in flight, a draft and an executing scenario, an administrator (their creator) and a reviewer at one browser, three presses, two events from outside, tokens that expire, a limit of one per window |
| `cycle_search` | does the search answer, and rightly, on every small graph? | every graph on subsets of three nodes with edges to any of the three, both variants, every order of roots |

Bounds. Two workers are enough for every race in the code: a handler makes one
write, so a lost or stale check needs one other write in between, and a worker may
handle any number of requests one after the other. Tables are bounded by `Ids`:
`RoomForCreate` stops creates when no id is left (`DependencyGraph` keeps an id for every
create in flight; in `RolloverScenario` creates overlap while there is one, and a second
that finds none can only fail). In `rollover_keys` a third id is what lets a second
creation of one input go wrong: it would be stored there if the unique index did not refuse it. The request sets are chosen
so that every action and every refusal occurs. The audit log is represented by
the last entry of each row, enough for properties that compare an entry with
the step that wrote it. Three services give the two searches and the simulator chains,
cycles of every length up to three, and a dependency shared by two paths; what they
decide is proved for any number.

Two backends, three requests and one crash let a request overlap any other at every
step, race for the seed and repeat it after a death; three requests are two overlapping
imports, whose keys are drawn in one order and committed in the other, and the creation that
reads between the two commits. Two times take one anchor from valid to expiring and another
from expiring to expired. `RoomForImport` sends imports of chains only while there is a key
for each, and a page of three chains is shorter than the fullest table. In the console two requests in flight are enough for
answers out of order and for one simulation to release the button of another; with
three presses a person can sign out and in again, or press a button again, while a
request is under way. `budget` bounds presses, requests, crashes and events; none of it
is in the code.

Fairness. Safety and refinement need none. `EveryRequestAnswered` assumes weak
fairness of `Handle(w)` alone: a goroutine that can run is scheduled, and
no step of a handler waits for another request. Clients, failures and
crashes are never assumed to happen. `Terminates` of `CycleSearch` and of
`TrustPathSimulator` assumes that the function that was called runs; their
configurations do not check for deadlock, because the functions return. `BackendsServe`
assumes that a backend which is down is started again (`restart: unless-stopped`,
`src/docker-compose.yml:48`) and that what runs goes on; `ComesToRest` that every `fetch`
ends somehow, with an answer or without (the backend serves what it has, or the connection
is given up), and that the browser then runs what waits for it; nothing is assumed
of people. Both runs stop when nobody presses or sends anything any more and the clock has
reached its bound, so they do not check for deadlock.

## Proofs

Every invariant and every action property of the passing runs is proved, and so are three
refinements. "Property" names the definition a run checks on its instance.

| Theorem | Property | Along |
|---|---|---|
| `RolloverScenarioProofs!TypeCorrectness`, `ChecksRemainTrue`, `CreatorNeverVerifies`, `EvidenceStaysSound`, `AnswersKeepTheirResult`, `KeysAreNotShared` | the invariants of the rollover runs | `IndInv = TypeOK ∧ ChecksStillHold ∧ OneKeyOneScenario` |
| `AuditTrailHasNoGap` | `AuditTrailContinuous` | `IndInv` and one lemma per transaction |
| `ServiceImplementsLifecycle` | `ImplementsLifecycle` | initial states map, each transaction maps to a step, all else to a stutter |
| `ScenarioLifecycleProofs!LifecycleIsAccountable` | (`Accountable`) | one case per move of `ScenarioLifecycle` |
| `RolloverScenarioProofs!ServiceIsAccountable`, `ConsoleProofs!ConsoleIsAccountable` | (`Accountable`) | the refinements, and the theorem before this one under the mapping |
| `DependencyGraphProofs!TypeCorrectness`, `DependenciesResolve`, `ChecksRemainTrue` | the invariants of `dependency_graph` | `IndInv = TypeOK ∧ EdgesResolve ∧ ChecksStillHold` |
| `CheckedWritesStayAcyclic` | `CheckedGraphStaysAcyclic` | `RenamedNodeStaysAcyclic`: a node checked under the placeholder and stored under its id keeps the graph acyclic |
| `CyclesNeedTheGap`, `AloneDependenciesStayAcyclic` | (when `DependenciesAcyclic` does hold) | `OnlyWritesChangeGraph`; `SearchIsCurrent` for a single worker |
| `DeactivationIsFinal` | `DeactivatedForGood` | the guard of the deactivation, and the columns of an update |
| `CycleSearchProofs!TypeCorrectness`, `SearchStaysSound`, `SearchIsRight` | `TypeOK`, `SearchSound`, `VerdictRight` | `IndInv = TypeOK ∧ SearchSound` |
| `TrustPathSimulatorProofs!TypeCorrectness`, `FindingsAreRight`, `BrokenPathsAreExact`, `ValidatedNeverCyclic` | `TypeOK`, `FindingsRight`, `BrokenPathsExact`, `NoCycleMet` | `IndInv = TypeOK ∧ SearchSound ∧ FindingsSound` |
| `OverlapIsSafe` | `OverlapKeepsBothSides` | a path from either side of the overlap is a path in it (`PathKeptByOverlap`), so a set of well services stays one |
| `SimulationIsComplete` | `Complete` | `IndInv ∧ CountInv`: a service has no finding at a time while it is pending there, and exactly one from then on |
| `SilenceIsRightBetweenEnds` | (when `ReachableThroughout` does hold) | `EveryTimeIsLikeACritical`: the anchors and the valid chains of any moment are those of a critical time |
| `TrustCatalogueProofs!CatalogueTypeCorrectness`, `StoredStatesLag`, `WindowsAreValid`, `FrozenInputsStayPast`, `FrozenGapsAreExplained`, `DemoStaysWhole` | the invariants of `trust_catalogue` | `CatalogueInv`, and `Forward`: what no step undoes |
| `RevocationsAreFinal`, `ChainsLeaveTrail` | `RevocationIsFinal`, `ChainTrail` | `Forward` and `Trail`, relations of every step |
| `RateLimiterProofs!PassesStayBounded` | `PassesBounded` | `Earned`: what passed before the present window is explained by the time until its beginning |
| `ConsoleProofs!ConsoleTypeCorrectness`, `ChangesAreAsShown` | `TypeOK`, `AcceptedAsShown` | `ConsoleInv`: all copies of a scenario have its creator and are well formed |
| `ConsoleUsesLimiter`, `ConsolePassesBounded` | `PassesBounded` | `Console` implements `LimiterSpec`, because a reading of the clock is never older than the backend (`ReadingsFresh`) |
| `ConsoleImplementsLifecycle` | (`ScenarioLifecycle!Spec`) | `MoveRefines`: an accepted change of a scenario is one move |

They hold for every set of users, ids, workers, inputs, requests and graphs that
satisfies the named assumptions of the modules.

`RateLimiterProofs` is about `LimiterSpec`, in which a request may be counted with any reading
since the start of the backend. `PassesBounded` alone is not inductive: it does not say that a
window which opens now was preceded by one that is paid for. `Earned` counts what the
present window has granted apart, and shows the rest covered by the minutes before it; a window
that is over pays for its own requests (`WindowPaid`). Products of variables are confined to
the three lemmas of arithmetic at its beginning.

*Why the invariants need strengthening.* What a handler checked before its
transaction is only true in it if the columns it looked at cannot have changed:
`ChecksStillHold` says so for every worker in flight (the creator and the frozen
input of a scenario never change; a service that was found is still there), and
the properties about rows follow from it. `OneKeyOneScenario` is inductive with it:
the unique index is the only thing between two lookups that found nothing.
What `ChecksStillHold` of `DependencyGraph` leaves out is the point of that
module: that the whole graph is still the one that was searched is not invariant,
and `DependenciesAcyclic` fails. `SearchSound` says that finished nodes are closed
under edges and contain no cycle, and that the calls in progress form a path:
the first makes acceptance right, the second a reported cycle. `SearchSound` of
`TrustPathSimulator` says of the calls in progress that they are a path of services with a
path of their own, that every dependency they are done with is well, and that the
service being resolved is well only if all of them are: the second makes a good finding
right (`WellByDependencies`), the third a bad one (`FailureMeansUnwell`), and the first,
with the acyclic input, excludes a cycle (`NotVisiting`).

*Of the dependency graph*, `DependenciesAcyclic` fails (finding 4), and two theorems say why it
does. `CyclesNeedTheGap`: in every run in which each write still finds the graph that its search
has read, dependencies stay acyclic, whatever else overlaps.
`AloneDependenciesStayAcyclic`: that is so with one request at a time and no failing read. Neither
hypothesis can be dropped: two workers violate the property without failing reads
(`dependency_cycle`), and one worker does with them.

*The simulator returns one finding of each kind.* That `IndInv` makes findings right does
not say that there are enough of them, or only one: a service is resolved by the loop or as
a dependency of another, and is then found again when the loop comes to it. `CountInv` ties
the findings to what is still to be done: the service the loop is at is the bottom of the
stack and is no longer in `todo`, and a time whose services are being resolved is no longer
in `points`. With it `SilenceIsRightBetweenEnds` says when finding 5 cannot happen: when no
chain begins or ends, from before the overlap to after it, except at its start, middle or
end or at the first moment after it, a simulation that found nothing is right for every
moment in between. `end + Minute` is not among these times, although it is evaluated: a new
chain that begins only then leaves a gap.

*The trust catalogue.* `CatalogueInv` has these parts. `TablesSound`: stored states lag, a
chain verified under its anchor when it was imported and still verifies within its window
(`VerifiesAgain`). `SeededWhole` and `ServedAfterSeed`: the anchors are empty or
contain one backend's demonstration, and nobody serves before that. Then what frozen inputs
say, and `WorkerSound`: what a handler has read is the past of what is stored. None of the
properties about frozen inputs is inductive without the last: an input in the making has
anchors from one time, chains from a later one and services from a later one still.
`Forward` is what makes such a reading survive the steps of the others: rows keep what they
are, and states move along their tables. `FirstPageIs` says what the listing returns, all
chains there are or a full page, and `PageExplained` carries it to the reading of the
services: a chain that is stored then and was not there to list was committed in
between. That argument uses no order of keys. `KeysDrawn` says that a key which was drawn
is free until its transaction commits and belongs to nobody else. `SeedFindsNothing`: a transaction of the seed that
meets no row of its own codes meets no row at all, because all backends seed the same unique
codes and only a seeded database is written to.

The assumptions on the constants are the code's own. `RequestsAssumption`: the handlers
refuse other bodies before they read anything. `DemoAssumption`: every backend generates
keys of its own for rows of the same fixed codes, and what it generates verifies.
`DatabasesAssumption`: a database is empty or has been seeded, since the seed runs at every
start before the server listens and no code deletes a row or changes a certificate.
`SeededAssumption` of `Console`: rows past draft have been simulated, as `EvidenceSound`
says of the service; `KeyAssumption`: every caller has a bucket.

*The console.* What a button shows may be arbitrarily old, so no invariant says that it is
what is stored. `ConsoleInv` says what all copies of a scenario, in a list, in the
foreground, in a request or in an answer, share with the row: its creator, that it has a
result once it is past draft, and that only a verified one has a reviewer. A request carries
a move that was possible from the copy its tab showed. Every goal but `draft`, to which no
button leads, is reached from one state only, so a move the backend accepts is from the
state that was shown, and the other columns follow (`ChangeOfWhatWasShown`). The limiter is
proved about once, in `RateLimiterProofs`, and holds inside the console by refinement.

*What the runs leave to theorems.* The console run has one tab. Two tabs with the token of
one user and the page of another are covered by `ChangesAreAsShown` alone.

*Only model-checked* are the liveness properties, `EveryRequestAnswered`, `BackendsServe`,
`ComesToRest` and both `Terminates`, which these provers cannot reach, and the five
violations, which are counterexamples.

## Findings

1. `model/rollover_scenario.go:28`: drafts share the empty string in a unique
   column, so there can be one scenario that was never simulated; the second is
   refused as "identical" (`rollover_drafts`).
2. `service/rollover_scenario_service.go:136`: of two simultaneous simulations
   with the same key one is refused with 409, where `src/README.md:54` promises the
   stored result (`rollover_repeated_key`).
3. `service/rollover_scenario_service.go:256`: a replay audits the row it read,
   not the row it wrote (`rollover_replay_audit`).
4. `service/dependent_service_service.go:168`: two updates close a cycle neither
   check saw; from then on every other write to the graph is refused
   (`dependency_cycle`).
5. `algorithm/simulator.go:271`: nothing is evaluated between the six critical times,
   yet the explanation says that all paths remain reachable throughout
   (`trust_path_gap`).

## Not modelled

* Cryptography, parsing and encoding of certificates (`x509util/`): the decisions on them are
  in `Certificates`. Password hashes and the signatures of tokens: libraries.
* Formatting, redaction, logging, configuration, connecting and migrating; pagination but for
  the page an input is frozen from.
* The wording of explanations; `Get` and `List` as operations of their own, and `Compare` but
  for the overlap of two chains.
* The replay button and the forms of the console, its other pages and their stores (they load
  and replace their items as the store of the scenarios does), its rendering, and deployment files.
* Two tabs at once: `Console` has them (`Tabs`), the run has one.
* The grace period of a shutdown: a stop is a crash.
* That a second revocation overwrites the time of the first, that a restore may take a
  revoked anchor out of the archive, that chains of revoked anchors are imported, and that a
  late 401 ends the session opened since, and that a press under a fresh key is refused after
  the answer of the first was lost, are what the code does; no text of the repository
  says otherwise, so no property does.

## Plan

Done: the rollover scenarios with their abstract lifecycle, the dependency graph, the cycle
search, the simulator, the trust catalogue with start-up and frozen inputs, the rate limiter
and the console, each model-checked and with proofs of all its invariants and action
properties. Next, in this order:

1. The other findings for what they leave true, as `CyclesNeedTheGap` and
   `SilenceIsRightBetweenEnds` do: which repeated keys do return the stored result, and which
   audit snapshots are exact.
2. The other stores of the console, and a run with two tabs.
