-------------------------- MODULE RolloverScenario --------------------------
(***************************************************************************)
(* The rollover scenarios of CertRollover under concurrent HTTP requests   *)
(* (service/rollover_scenario_service.go and its repository).              *)
(*                                                                         *)
(* Every request runs on a worker (a goroutine of any backend instance).   *)
(* It reads and checks outside a transaction, computes, then in ONE        *)
(* transaction writes the scenario row and its audit entry, and finally    *)
(* reads the row back to answer.  The requests of other workers interleave *)
(* between those steps; the transaction itself is atomic: the guarded      *)
(* UPDATE holds the row's lock, and unique violations wait for the other   *)
(* transaction, so the outcome is that of some serial order.               *)
(*                                                                         *)
(* Data is abstracted to what the properties tell apart.  A frozen input   *)
(* (snapshot, hash, algorithm version, simulation time) is one member of   *)
(* Inputs, the four result columns are one member of Results, ResultOf is  *)
(* the deterministic algorithm.Simulate, and the audit trail of a scenario *)
(* is represented by its last entry.                                       *)
(***************************************************************************)
EXTENDS Naturals, FiniteSets, RolloverDomain

CONSTANTS
    Ids,          \* primary keys, assigned in increasing order
    Workers,      \* requests the service handles at the same time
    Users,
    RoleOf,       \* [Users -> Roles]
    Inputs,
    Results,
    ResultOf,     \* [Inputs -> Results]
    Keys,         \* non-empty Idempotency-Key values
    Requests,     \* the requests clients send
    SeedId, SeedUser, SeedInput, SeedKey,   \* the scenario of database.seedDomain
    NoUser, NoInput, NoResult, NoKey, NoId  \* NULL and "" columns, absent fields

Request == [ op    : {"none", "create", "simulate", "transition", "replay"},
             actor : Users \cup {NoUser},
             id    : Ids \cup {NoId},
             key   : Keys \cup {NoKey},
             to    : ScenarioStates \cup {"none"} ]

ASSUME IdsAssumption == Ids \subseteq Nat /\ SeedId \in Ids /\ NoId \notin Ids
ASSUME UsersAssumption ==
    /\ RoleOf \in [Users -> Roles]
    /\ SeedUser \in Users /\ NoUser \notin Users
ASSUME InputsAssumption ==
    /\ ResultOf \in [Inputs -> Results]
    /\ SeedInput \in Inputs /\ NoInput \notin Inputs /\ NoResult \notin Results
ASSUME KeysAssumption == SeedKey \in Keys /\ NoKey \notin Keys
ASSUME RequestsAssumption ==
    /\ Requests \subseteq Request
    /\ \A r \in Requests :
        /\ r.op # "none" /\ r.actor \in Users
        /\ r.op # "create" => r.id \in Ids
        /\ r.op = "transition" => r.to \in ScenarioStates \ {"simulated"}

VARIABLES
    scenarios,  \* table rollover_scenarios
    audit,      \* the last audit entry of each scenario
    pc,         \* the step each worker is about to take
    req,        \* the request it handles
    seen,       \* what it read of the row before its transaction
    reply       \* the last answer it gave

vars == <<scenarios, audit, pc, req, seen, reply>>

-----------------------------------------------------------------------------
(* Rows, entries, answers *)

RowStates == ScenarioStates \cup {"absent"}

Row == [ state    : RowStates,
         input    : Inputs \cup {NoInput},
         creator  : Users \cup {NoUser},
         verifier : Users \cup {NoUser},
         key      : Keys \cup {NoKey},
         result   : Results \cup {NoResult},
         replayed : BOOLEAN ]

AbsentRow == [ state |-> "absent", input |-> NoInput, creator |-> NoUser, verifier |-> NoUser,
               key |-> NoKey, result |-> NoResult, replayed |-> FALSE ]

DraftRow(input, creator) ==
    [ state |-> "draft", input |-> input, creator |-> creator, verifier |-> NoUser,
      key |-> NoKey, result |-> NoResult, replayed |-> FALSE ]

SeedRow == [ state |-> "simulated", input |-> SeedInput, creator |-> SeedUser, verifier |-> NoUser,
             key |-> SeedKey, result |-> ResultOf[SeedInput], replayed |-> FALSE ]

Entry == [ action : {"none", "create_frozen_draft", "simulate", "transition", "replay"},
           before : RowStates,
           after  : RowStates ]

NoEntry == [action |-> "none", before |-> "absent", after |-> "absent"]

Seen == [state : RowStates, input : Inputs \cup {NoInput}, result : Results \cup {NoResult}]

Unread == [state |-> "absent", input |-> NoInput, result |-> NoResult]

NoRequest == [op |-> "none", actor |-> NoUser, id |-> NoId, key |-> NoKey, to |-> "none"]

\* 4xx answers, by their cause.  All but "differs" come without an effect.
Refusals == {"badRequest", "forbidden", "notFound", "illegalState", "keyBoundElsewhere",
             "reviewerConflict", "changedConcurrently", "identicalExists", "differs"}

\* "duplicateKey" is the 500 of a unique violation inside CompleteSimulation.
Replies == {"none", "ok", "stored", "internal", "duplicateKey"} \cup Refusals

Steps == {"idle", "read", "find", "commit", "reply"}

TypeOK ==
    /\ scenarios \in [Ids -> Row]
    /\ audit \in [Ids -> Entry]
    /\ pc \in [Workers -> Steps]
    /\ req \in [Workers -> Request]
    /\ seen \in [Workers -> Seen]
    /\ reply \in [Workers -> Replies]

\* A database that has been seeded, and a backend with nothing to do.
Init ==
    /\ scenarios = [id \in Ids |-> IF id = SeedId THEN SeedRow ELSE AbsentRow]
    /\ audit = [id \in Ids |-> NoEntry]
    /\ pc = [w \in Workers |-> "idle"]
    /\ req = [w \in Workers |-> NoRequest]
    /\ seen = [w \in Workers |-> Unread]
    /\ reply = [w \in Workers |-> "none"]

-----------------------------------------------------------------------------
(* Helpers *)

Existing == {id \in Ids : scenarios[id].state # "absent"}

\* Bound: clients ask for another scenario while there is a free id.
RoomForCreate == Existing # Ids

\* Primary keys grow.
NextId(id) ==
    /\ scenarios[id].state = "absent"
    /\ \A other \in Ids : other < id => scenarios[other].state # "absent"

Can(user, permission) == HasPermission(RoleOf[user], permission)

\* The permission middleware of rollover_scenario_router.go.
Admitted(r) ==
    CASE r.op = "create"     -> Can(r.actor, "scenario.write")
      [] r.op = "simulate"   -> Can(r.actor, "scenario.run")
      [] r.op = "replay"     -> Can(r.actor, "scenario.run")
      [] r.op = "transition" -> Can(r.actor, "scenario.write") \/ Can(r.actor, "scenario.verify")
      [] OTHER               -> FALSE

\* requireScenarioOwnership
MayManage(user, row) == RoleOf[user] \in {"admin", "pki_operator"} \/ row.creator = user

\* Fault: the wrong column is compared.
ReviewerSeparatedFromVerifier(row, user) == row.verifier # user

\* RolloverScenario.ReviewerSeparated
ReviewerSeparated(row, user) == row.creator # user

\* Fault: the column has no unique index.
KeyNeverTaken(id, key) == FALSE

\* The unique index on idempotency_key; the row itself may keep its key.
KeyTaken(id, key) == \E other \in Ids \ {id} :
    scenarios[other].state # "absent" /\ scenarios[other].key = key

\* Fault: the columns have no unique index.
InputNeverTaken(input) == FALSE

\* The unique index idx_scenario_input.
InputTaken(input) == \E other \in Ids :
    scenarios[other].state # "absent" /\ scenarios[other].input = input

Answer(w, kind) ==
    /\ pc' = [pc EXCEPT ![w] = "idle"]
    /\ req' = [req EXCEPT ![w] = NoRequest]
    /\ seen' = [seen EXCEPT ![w] = Unread]
    /\ reply' = [reply EXCEPT ![w] = kind]

\* An answer that leaves the tables alone.
Finish(w, kind) == Answer(w, kind) /\ UNCHANGED <<scenarios, audit>>

\* On to the next step, the request and what was read unchanged.
Goto(w, step) ==
    /\ pc' = [pc EXCEPT ![w] = step]
    /\ UNCHANGED <<req, seen, reply>>

\* Fault: the two columns of the read are swapped.
ReadRowSwapped(w, step) ==
    /\ seen' = [seen EXCEPT ![w] = [ state  |-> scenarios[req[w].id].state,
                                     input  |-> scenarios[req[w].id].result,
                                     result |-> scenarios[req[w].id].input ]]
    /\ pc' = [pc EXCEPT ![w] = step]
    /\ UNCHANGED <<scenarios, audit, req, reply>>

\* A read outside the transaction: keep what the rest of the handler uses.
ReadRow(w, step) ==
    /\ seen' = [seen EXCEPT ![w] = [ state  |-> scenarios[req[w].id].state,
                                     input  |-> scenarios[req[w].id].input,
                                     result |-> scenarios[req[w].id].result ]]
    /\ pc' = [pc EXCEPT ![w] = step]
    /\ UNCHANGED <<scenarios, audit, req, reply>>

\* The transaction: the row and its audit entry, or neither.
WriteWithAudit(id, row, action, before, after) ==
    /\ scenarios' = [scenarios EXCEPT ![id] = row]
    /\ audit' = [audit EXCEPT ![id] = [action |-> action, before |-> before, after |-> after]]

At(w, step, op) == pc[w] = step /\ req[w].op = op

-----------------------------------------------------------------------------
(* Receiving a request *)

Receive(w) ==
    /\ pc[w] = "idle"
    /\ \E r \in Requests :
        /\ r.op = "create" => RoomForCreate
        /\ Admitted(r)
        /\ req' = [req EXCEPT ![w] = r]
    /\ pc' = [pc EXCEPT ![w] = "read"]
    /\ reply' = [reply EXCEPT ![w] = "none"]
    /\ UNCHANGED <<scenarios, audit, seen>>

\* RBAC middleware: the handler does not run.
Deny(w) ==
    /\ pc[w] = "idle"
    /\ \E r \in Requests : ~Admitted(r)
    /\ Finish(w, "forbidden")

-----------------------------------------------------------------------------
(* Create *)

\* Reads anchors, candidates, chains and services and freezes them.
FreezeInput(w) ==
    /\ At(w, "read", "create")
    /\ \/ /\ \E input \in Inputs : seen' = [seen EXCEPT ![w].input = input]
          /\ pc' = [pc EXCEPT ![w] = "commit"]
          /\ UNCHANGED <<scenarios, audit, req, reply>>
       \/ Finish(w, "badRequest")

\* Two unique indexes guard the insert, and every violation of either is
\* answered as a duplicate input. A draft is stored with the empty key.
\* (Of creates that overlap, one without an id left to take can only fail.)
CommitCreate(w) ==
    /\ At(w, "commit", "create")
    /\ IF InputTaken(seen[w].input) \/ KeyTaken(NoId, NoKey)
       THEN Finish(w, "identicalExists")
       ELSE \E id \in Ids :
              /\ NextId(id)
              /\ WriteWithAudit(id,
                   DraftRow(seen[w].input, req[w].actor), "create_frozen_draft", "absent", "draft")
              /\ req' = [req EXCEPT ![w].id = id]
              /\ pc' = [pc EXCEPT ![w] = "reply"]
              /\ UNCHANGED <<seen, reply>>

-----------------------------------------------------------------------------
(* Simulate *)

\* Fault: an empty Idempotency-Key is let through.
ReadForSimulateUnkeyed(w) ==
    /\ At(w, "read", "simulate")
    /\ LET row == scenarios[req[w].id] IN
       IF row.state = "absent" THEN Finish(w, "notFound")
       ELSE IF ~MayManage(req[w].actor, row) THEN Finish(w, "forbidden")
       ELSE ReadRow(w, "find")

ReadForSimulate(w) ==
    /\ At(w, "read", "simulate")
    /\ LET row == scenarios[req[w].id] IN
       IF req[w].key = NoKey THEN Finish(w, "badRequest")
       ELSE IF row.state = "absent" THEN Finish(w, "notFound")
       ELSE IF ~MayManage(req[w].actor, row) THEN Finish(w, "forbidden")
       ELSE ReadRow(w, "find")

\* FindByIdempotencyKey, then the state check on the row read before it.
FindKey(w) ==
    /\ At(w, "find", "simulate")
    /\ LET prior == {id \in Existing : scenarios[id].key = req[w].key} IN
       IF prior # {}
       THEN Finish(w, IF req[w].id \in prior THEN "stored" ELSE "keyBoundElsewhere")
       ELSE IF seen[w].state # "draft" THEN Finish(w, "illegalState")
       ELSE /\ Goto(w, "commit")
            /\ UNCHANGED <<scenarios, audit>>

\* Fault: the update map misses the idempotency key.
CommitSimulateKeyLost(w) ==
    /\ At(w, "commit", "simulate")
    /\ LET id == req[w].id
           row == scenarios[id]
       IN IF row.state # "draft" THEN Finish(w, "changedConcurrently")
          ELSE /\ WriteWithAudit(id,
                    [row EXCEPT !.state = "simulated", !.result = ResultOf[seen[w].input]],
                    "simulate", seen[w].state, "simulated")
               /\ Goto(w, "reply")

\* CompleteSimulation: UPDATE ... WHERE id = ? AND scenario_state = 'draft'.
CommitSimulate(w) ==
    /\ At(w, "commit", "simulate")
    /\ LET id == req[w].id
           row == scenarios[id]
       IN IF row.state # "draft" THEN Finish(w, "changedConcurrently")
          ELSE IF KeyTaken(id, req[w].key) THEN Finish(w, "duplicateKey")
          ELSE /\ WriteWithAudit(id,
                    [row EXCEPT !.state = "simulated", !.key = req[w].key,
                                !.result = ResultOf[seen[w].input]],
                    "simulate", seen[w].state, "simulated")
               /\ Goto(w, "reply")

-----------------------------------------------------------------------------
(* Transition *)

\* The handler's own permission check comes before the service's.
NeededFor(to) == IF to = "verified" THEN "scenario.verify" ELSE "scenario.write"

ReadForTransition(w) ==
    /\ At(w, "read", "transition")
    /\ LET row  == scenarios[req[w].id]
           to   == req[w].to
           user == req[w].actor
       IN IF ~Can(user, NeededFor(to))
          THEN Finish(w, IF to # "verified" THEN "forbidden"
                         ELSE IF row.state = "absent" THEN "notFound"
                         ELSE IF row.creator = user THEN "reviewerConflict" ELSE "forbidden")
          ELSE IF row.state = "absent" THEN Finish(w, "notFound")
          ELSE IF to # "verified" /\ ~MayManage(user, row) THEN Finish(w, "forbidden")
          ELSE IF ~CanTransitionScenario(row.state, to) THEN Finish(w, "illegalState")
          ELSE IF to = "verified" /\ ~ReviewerSeparated(row, user)
               THEN Finish(w, "reviewerConflict")
          ELSE ReadRow(w, "commit")

\* Fault: the update is not conditional on the state that was read.
CommitTransitionUnguarded(w) ==
    /\ At(w, "commit", "transition")
    /\ WriteWithAudit(req[w].id,
         [scenarios[req[w].id] EXCEPT
             !.state = req[w].to,
             !.verifier = IF req[w].to = "verified" THEN req[w].actor ELSE @],
         "transition", seen[w].state, req[w].to)
    /\ Goto(w, "reply")

\* Fault: the loser of a race waits for the state it read to come back.
CommitTransitionWaiting(w) ==
    /\ At(w, "commit", "transition")
    /\ scenarios[req[w].id].state = seen[w].state
    /\ CommitTransitionUnguarded(w)

\* Fault: reopening wipes the stored result.
CommitTransitionWiping(w) ==
    /\ At(w, "commit", "transition")
    /\ LET id  == req[w].id
           row == scenarios[id]
           to  == req[w].to
       IN IF row.state # seen[w].state THEN Finish(w, "changedConcurrently")
          ELSE /\ WriteWithAudit(id,
                    [row EXCEPT !.state = to,
                                !.result = IF to = "draft" THEN NoResult ELSE @,
                                !.verifier = IF to = "verified" THEN req[w].actor ELSE @],
                    "transition", seen[w].state, to)
               /\ Goto(w, "reply")

\* UPDATE ... WHERE id = ? AND scenario_state = <the state read before>.
CommitTransition(w) ==
    /\ At(w, "commit", "transition")
    /\ LET id  == req[w].id
           row == scenarios[id]
           to  == req[w].to
       IN IF row.state # seen[w].state THEN Finish(w, "changedConcurrently")
          ELSE /\ WriteWithAudit(id,
                    [row EXCEPT !.state = to,
                                !.verifier = IF to = "verified" THEN req[w].actor ELSE @],
                    "transition", seen[w].state, to)
               /\ Goto(w, "reply")

-----------------------------------------------------------------------------
(* Replay *)

ReadForReplay(w) ==
    /\ At(w, "read", "replay")
    /\ LET row == scenarios[req[w].id] IN
       IF row.state = "absent" THEN Finish(w, "notFound")
       ELSE IF ~MayManage(req[w].actor, row) THEN Finish(w, "forbidden")
       ELSE IF row.state = "draft" THEN Finish(w, "illegalState")
       ELSE ReadRow(w, "commit")

\* SetReplayVerified has no guard on the state, and the audit entry carries
\* the row as it was read; a failed replay is stored, then answered 409.
CommitReplay(w) ==
    /\ At(w, "commit", "replay")
    /\ LET id     == req[w].id
           passed == seen[w].result = ResultOf[seen[w].input]
       IN /\ WriteWithAudit(id, [scenarios[id] EXCEPT !.replayed = passed],
                "replay", seen[w].state, seen[w].state)
          /\ IF passed THEN Goto(w, "reply") ELSE Answer(w, "differs")

-----------------------------------------------------------------------------
(* Answers, failures, crashes *)

\* The row is read back after the commit.
Reply(w) ==
    /\ pc[w] = "reply"
    /\ Finish(w, "ok")

\* What a failed statement is answered with: the first read of the row counts
\* as a missing row, the first two reads of Create as an invalid input.
FailureReplies(w) ==
    IF pc[w] # "read" THEN {"internal"}
    ELSE IF req[w].op = "create" THEN {"badRequest", "internal"}
    ELSE IF req[w].op = "transition" THEN {"notFound", "internal"}
    ELSE {"notFound"}

\* A statement or the commit fails, the audit insert included: the
\* transaction rolls back.
DatabaseFails(w) ==
    /\ pc[w] # "idle"
    /\ \E kind \in FailureReplies(w) : Finish(w, kind)

\* A backend dies with the requests it handles; the database survives.
Crash ==
    /\ \E dead \in SUBSET Workers :
        /\ \E w \in dead : pc[w] # "idle"
        /\ pc' = [w \in Workers |-> IF w \in dead THEN "idle" ELSE pc[w]]
        /\ req' = [w \in Workers |-> IF w \in dead THEN NoRequest ELSE req[w]]
        /\ seen' = [w \in Workers |-> IF w \in dead THEN Unread ELSE seen[w]]
        /\ reply' = [w \in Workers |-> IF w \in dead THEN "none" ELSE reply[w]]
    /\ UNCHANGED <<scenarios, audit>>

Handle(w) ==
    \/ FreezeInput(w) \/ CommitCreate(w)
    \/ ReadForSimulate(w) \/ FindKey(w) \/ CommitSimulate(w)
    \/ ReadForTransition(w) \/ CommitTransition(w)
    \/ ReadForReplay(w) \/ CommitReplay(w)
    \/ Reply(w)

Next ==
    \/ \E w \in Workers : Receive(w) \/ Deny(w) \/ Handle(w) \/ DatabaseFails(w)
    \/ Crash

\* The Go scheduler and the database serve every request; nobody makes the
\* client send one, and no failure has to happen.
Fairness == \A w \in Workers : WF_vars(Handle(w))

Spec == Init /\ [][Next]_vars

FairSpec == Spec /\ Fairness

-----------------------------------------------------------------------------
(* Properties *)

\* Separation of duties, whatever interleaves: a scenario is verified exactly
\* when a verifier is recorded, and the verifier holds scenario.verify and is
\* not the creator.
ReviewerSeparation == \A id \in Ids :
    LET row == scenarios[id] IN
    /\ row.state = "verified" <=> row.verifier # NoUser
    /\ row.state = "verified" =>
         row.verifier # row.creator /\ Can(row.verifier, "scenario.verify")

\* Past draft a scenario stands on the simulation of its own frozen input, run
\* under a real idempotency key, and the replay flag never vouches for
\* anything else, not even after a reopening.
EvidenceSound == \A id \in Ids :
    LET row == scenarios[id] IN
    /\ row.state \notin {"absent", "draft"} =>
         row.key # NoKey /\ row.result = ResultOf[row.input]
    /\ row.replayed => row.result = ResultOf[row.input]

\* A simulation that committed is answered with its result, also when the
\* scenario is reopened or simulated again before the row is read back.
AnsweredResultKept == \A w \in Workers :
    At(w, "reply", "simulate") =>
        scenarios[req[w].id].result = ResultOf[scenarios[req[w].id].input]

\* No two scenarios hold the same idempotency key, although the check for it
\* and the write of it are separate steps.
OneKeyOneScenario == \A a, b \in Existing :
    scenarios[a].key = scenarios[b].key => a = b

\* The trail of state changes has no gap: every change of a scenario's state
\* is the subject of an entry written with it, and an entry of a state change
\* records the state it really replaced.
AuditTrailContinuous ==
    [][\A id \in Ids :
         \/ scenarios'[id].state # scenarios[id].state
         \/ audit'[id] # audit[id] /\ audit'[id].action # "replay"
         => /\ audit'[id].before = scenarios[id].state
            /\ audit'[id].after = scenarios'[id].state]_vars

\* Every request the service admits is answered, unless its backend dies.
EveryRequestAnswered == \A w \in Workers : pc[w] # "idle" ~> pc[w] = "idle"

\* The scenarios behave as ScenarioLifecycle promises.
Assessed(row) == [ state |-> row.state, input |-> row.input, creator |-> row.creator,
                   verifier |-> row.verifier, result |-> row.result ]

Lifecycle == INSTANCE ScenarioLifecycle WITH
    Verifiers  <- {user \in Users : Can(user, "scenario.verify")},
    Seeded     <- [id \in Ids |-> Assessed(IF id = SeedId THEN SeedRow ELSE AbsentRow)],
    assessment <- [id \in Ids |-> Assessed(scenarios[id])]

ImplementsLifecycle == Lifecycle!Spec

-----------------------------------------------------------------------------
(* The inductive invariant: what a row and what a worker in flight satisfy.  *)

RowSound(row) ==
    /\ row.state = "absent" => row = AbsentRow
    /\ row.state # "absent" => row.input \in Inputs /\ row.creator \in Users
    /\ row.state = "verified" <=> row.verifier # NoUser
    /\ row.state = "verified" =>
         row.verifier # row.creator /\ Can(row.verifier, "scenario.verify")
    /\ row.state \notin {"absent", "draft"} =>
         row.key # NoKey /\ row.result = ResultOf[row.input]
    /\ row.replayed => row.result = ResultOf[row.input]

\* What a worker checked before its transaction still holds when it writes,
\* because the columns it relies on never change again.
WorkerSound(w) ==
    LET row == scenarios[req[w].id] IN
    /\ pc[w] # "idle" =>
         /\ req[w].actor \in Users
         /\ req[w].op # "create" => req[w] \in Requests
    /\ At(w, "commit", "create") => seen[w].input \in Inputs
    /\ pc[w] \in {"find", "commit", "reply"} /\ req[w].op # "create" =>
         row.state # "absent" /\ seen[w].input = row.input
    /\ req[w].op = "simulate" /\ pc[w] \in {"find", "commit"} => req[w].key # NoKey
    /\ At(w, "commit", "simulate") => seen[w].state = "draft"
    /\ At(w, "commit", "transition") =>
         /\ CanTransitionScenario(seen[w].state, req[w].to)
         /\ req[w].to = "verified" =>
              row.creator # req[w].actor /\ Can(req[w].actor, "scenario.verify")
    /\ At(w, "commit", "replay") =>
         seen[w].result = ResultOf[seen[w].input] /\ row.result = ResultOf[row.input]
    /\ At(w, "reply", "simulate") => row.result = ResultOf[row.input]

\* Rows are sound, and every check made before a transaction is still true
\* when the transaction relies on it.
ChecksStillHold ==
    /\ \A id \in Ids : RowSound(scenarios[id])
    /\ \A w \in Workers : WorkerSound(w)

-----------------------------------------------------------------------------
(* What the code says of itself and does not keep *)

Answers(w, kind) == pc[w] # "idle" /\ pc'[w] = "idle" /\ reply'[w] = kind

\* Create refuses with "an identical frozen scenario already exists" only when
\* a scenario with that frozen input exists.
DuplicateMeansIdentical ==
    [][\A w \in Workers : Answers(w, "identicalExists") => InputTaken(seen[w].input)]_vars

\* A simulation that repeats the key its scenario was simulated with is not
\* refused as a conflict: it returns the stored result.
RepeatedKeyReturnsStored ==
    [][\A w \in Workers :
         Answers(w, "changedConcurrently") /\ req[w].op = "simulate"
         => scenarios[req[w].id].key # req[w].key]_vars

\* The before and after snapshots of an audit entry are the row before and
\* after the write it records.
AuditSnapshotsExact ==
    [][\A id \in Ids : audit'[id] # audit[id] =>
         /\ audit'[id].before = scenarios[id].state
         /\ audit'[id].after = scenarios'[id].state]_vars

=============================================================================
