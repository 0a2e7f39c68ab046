----------------------- MODULE RolloverScenarioProofs -----------------------
(***************************************************************************)
(* Proofs about RolloverScenario for any number of scenarios, workers,     *)
(* users, keys and inputs.                                                 *)
(***************************************************************************)
EXTENDS RolloverScenario, TLAPS

USE IdsAssumption, UsersAssumption, InputsAssumption, KeysAssumption, RequestsAssumption

-----------------------------------------------------------------------------
(* Types *)

LEMMA InitTypes == Init => TypeOK
  BY DEF Init, TypeOK, SeedRow, AbsentRow, NoEntry, NoRequest, Unread, Row, RowStates,
         ScenarioStates, Entry, Steps, Request, Seen, Replies

\* An answer leaves a typed state typed.
LEMMA AnswerTypes ==
    ASSUME TypeOK, NEW w \in Workers, NEW kind \in Replies, Answer(w, kind)
    PROVE  /\ pc' \in [Workers -> Steps]
           /\ req' \in [Workers -> Request]
           /\ seen' \in [Workers -> Seen]
           /\ reply' \in [Workers -> Replies]
  <1>1. NoRequest \in Request /\ Unread \in Seen /\ "idle" \in Steps
    BY DEF NoRequest, Request, Unread, Seen, RowStates, Steps
  <1> QED
    BY <1>1 DEF TypeOK, Answer

LEMMA FinishTypes ==
    ASSUME TypeOK, NEW w \in Workers, NEW kind \in Replies, Finish(w, kind)
    PROVE  TypeOK'
  BY AnswerTypes DEF Finish, TypeOK

LEMMA GotoTypes ==
    ASSUME TypeOK, NEW w \in Workers, NEW step \in Steps, Goto(w, step)
    PROVE  /\ pc' \in [Workers -> Steps]
           /\ req' \in [Workers -> Request]
           /\ seen' \in [Workers -> Seen]
           /\ reply' \in [Workers -> Replies]
  BY DEF TypeOK, Goto

LEMMA ReadRowTypes ==
    ASSUME TypeOK, NEW w \in Workers, NEW step \in Steps, req[w].id \in Ids, ReadRow(w, step)
    PROVE  TypeOK'
  <1>1. scenarios[req[w].id] \in Row
    BY DEF TypeOK
  <1>2. [ state |-> scenarios[req[w].id].state, input |-> scenarios[req[w].id].input,
          result |-> scenarios[req[w].id].result ] \in Seen
    BY <1>1 DEF Row, Seen
  <1> QED
    BY <1>2 DEF TypeOK, ReadRow

LEMMA WriteTypes ==
    ASSUME TypeOK, NEW id \in Ids, NEW row \in Row,
           NEW action \in {"create_frozen_draft", "simulate", "transition", "replay"},
           NEW before \in RowStates, NEW after \in RowStates,
           WriteWithAudit(id, row, action, before, after)
    PROVE  scenarios' \in [Ids -> Row] /\ audit' \in [Ids -> Entry]
  BY DEF TypeOK, WriteWithAudit, Entry

-----------------------------------------------------------------------------
(* The inductive invariant *)

IndInv == TypeOK /\ ChecksStillHold /\ OneKeyOneScenario

\* What every step keeps of a row that exists.
Kept == \A id \in Ids : scenarios[id].state # "absent" =>
    /\ scenarios'[id].state # "absent"
    /\ scenarios'[id].input = scenarios[id].input
    /\ scenarios'[id].creator = scenarios[id].creator
    /\ scenarios[id].result = ResultOf[scenarios[id].input]
         => scenarios'[id].result = ResultOf[scenarios[id].input]

\* A worker in flight has a request of a client; only create has no id yet.
LEMMA InFlight ==
    ASSUME TypeOK, NEW w \in Workers, WorkerSound(w), pc[w] # "idle", req[w].op # "create"
    PROVE  /\ req[w].id \in Ids
           /\ req[w].actor \in Users
           /\ req[w].op = "transition" => req[w].to \in ScenarioStates \ {"simulated"}
  BY DEF WorkerSound

\* A step of one worker leaves the checks of the others true.
LEMMA OthersSound ==
    ASSUME TypeOK, Kept, NEW v \in Workers, WorkerSound(v),
           pc'[v] = pc[v], req'[v] = req[v], seen'[v] = seen[v]
    PROVE  WorkerSound(v)'
  <1>1. CASE pc[v] = "idle"
    BY <1>1 DEF WorkerSound, At
  <1>2. CASE pc[v] # "idle" /\ req[v].op = "create"
    BY <1>2 DEF WorkerSound, At
  <1>3. CASE pc[v] # "idle" /\ req[v].op # "create"
    <2>1. req[v].id \in Ids
      BY <1>3, InFlight
    <2> QED
      BY <1>3, <2>1 DEF WorkerSound, At, Kept, Can, CanTransitionScenario
  <1> QED
    BY <1>1, <1>2, <1>3

LEMMA StepKeepsInv ==
    ASSUME IndInv, NEW w \in Workers, TypeOK', Kept,
           \A id \in Ids : RowSound(scenarios'[id]),
           OneKeyOneScenario', WorkerSound(w)',
           \A v \in Workers \ {w} : pc'[v] = pc[v] /\ req'[v] = req[v] /\ seen'[v] = seen[v]
    PROVE  IndInv'
  <1>1. ASSUME NEW v \in Workers PROVE WorkerSound(v)'
    BY <1>1, OthersSound DEF IndInv, ChecksStillHold
  <1>2. (\A id \in Ids : RowSound(scenarios[id]))'
    BY DEF RowSound, AbsentRow, Can
  <1> QED
    BY <1>1, <1>2 DEF IndInv, ChecksStillHold

\* A step that leaves the table alone needs to look only at its own worker.
LEMMA ReadOnlyKeepsInv ==
    ASSUME IndInv, NEW w \in Workers, TypeOK', scenarios' = scenarios, WorkerSound(w)',
           \A v \in Workers \ {w} : pc'[v] = pc[v] /\ req'[v] = req[v] /\ seen'[v] = seen[v]
    PROVE  IndInv'
  <1>1. Kept
    BY DEF Kept
  <1>2. \A id \in Ids : RowSound(scenarios'[id])
    BY DEF IndInv, ChecksStillHold
  <1>3. OneKeyOneScenario'
    BY DEF IndInv, OneKeyOneScenario, Existing
  <1> QED
    BY <1>1, <1>2, <1>3, StepKeepsInv

LEMMA FinishKeepsInv ==
    ASSUME IndInv, NEW w \in Workers, NEW kind \in Replies, Finish(w, kind)
    PROVE  IndInv'
  <1>1. TypeOK'
    BY FinishTypes DEF IndInv
  <1>2. WorkerSound(w)'
    BY DEF Finish, Answer, IndInv, TypeOK, WorkerSound, At, NoRequest
  <1>3. \A v \in Workers \ {w} : pc'[v] = pc[v] /\ req'[v] = req[v] /\ seen'[v] = seen[v]
    BY DEF Finish, Answer, IndInv, TypeOK
  <1> QED
    BY <1>1, <1>2, <1>3, ReadOnlyKeepsInv DEF Finish

-----------------------------------------------------------------------------
(* One lemma per action *)

LEMMA ReceiveKeepsInv ==
    ASSUME IndInv, NEW w \in Workers, Receive(w)
    PROVE  IndInv'
  <1>1. PICK r \in Requests : req' = [req EXCEPT ![w] = r]
    BY DEF Receive
  <1>2. r \in Request /\ r.op # "none" /\ r.actor \in Users
    OBVIOUS
  <1>3. pc' = [pc EXCEPT ![w] = "read"] /\ UNCHANGED <<scenarios, audit, seen>>
    BY DEF Receive
  <1>4. TypeOK'
    BY <1>1, <1>2, <1>3 DEF Receive, IndInv, TypeOK, Steps, Replies
  <1>5. pc'[w] = "read" /\ req'[w] = r
    BY <1>1, <1>2, <1>3 DEF IndInv, TypeOK
  <1>6. WorkerSound(w)'
    BY <1>2, <1>5 DEF WorkerSound, At
  <1>7. \A v \in Workers \ {w} : pc'[v] = pc[v] /\ req'[v] = req[v] /\ seen'[v] = seen[v]
    BY <1>1, <1>3 DEF IndInv, TypeOK
  <1> QED
    BY <1>3, <1>4, <1>6, <1>7, ReadOnlyKeepsInv

LEMMA DenyKeepsInv ==
    ASSUME IndInv, NEW w \in Workers, Deny(w)
    PROVE  IndInv'
  BY FinishKeepsInv DEF Deny, Replies, Refusals

LEMMA DatabaseFailsKeepsInv ==
    ASSUME IndInv, NEW w \in Workers, DatabaseFails(w)
    PROVE  IndInv'
  BY FinishKeepsInv DEF DatabaseFails, FailureReplies, Replies, Refusals

LEMMA FreezeInputKeepsInv ==
    ASSUME IndInv, NEW w \in Workers, FreezeInput(w)
    PROVE  IndInv'
  <1>1. CASE Finish(w, "badRequest")
    BY <1>1, FinishKeepsInv DEF Replies, Refusals
  <1>2. ASSUME NEW input \in Inputs, seen' = [seen EXCEPT ![w].input = input],
               pc' = [pc EXCEPT ![w] = "commit"], UNCHANGED <<scenarios, audit, req, reply>>
        PROVE  IndInv'
    <2>1. seen[w] \in Seen /\ [seen[w] EXCEPT !.input = input] \in Seen
      BY DEF IndInv, TypeOK, Seen
    <2>2. seen' = [seen EXCEPT ![w] = [seen[w] EXCEPT !.input = input]]
      BY <1>2 DEF IndInv, TypeOK
    <2>3. TypeOK'
      BY <1>2, <2>1, <2>2 DEF IndInv, TypeOK, Steps
    <2>4. pc'[w] = "commit" /\ req'[w] = req[w] /\ seen'[w].input = input
      BY <1>2, <2>1, <2>2 DEF IndInv, TypeOK, Seen
    <2>5. req[w].op = "create" /\ pc[w] = "read" /\ WorkerSound(w)
      BY DEF FreezeInput, At, IndInv, ChecksStillHold
    <2>6. WorkerSound(w)'
      BY <2>4, <2>5 DEF WorkerSound, At
    <2>7. \A v \in Workers \ {w} : pc'[v] = pc[v] /\ req'[v] = req[v] /\ seen'[v] = seen[v]
      BY <1>2, <2>2 DEF IndInv, TypeOK
    <2> QED
      BY <1>2, <2>3, <2>6, <2>7, ReadOnlyKeepsInv
  <1> QED
    BY <1>1, <1>2 DEF FreezeInput

\* A read keeps the row's state, its input and its result.
LEMMA ReadRowKeepsInv ==
    ASSUME IndInv, NEW w \in Workers, NEW step \in {"find", "commit"},
           pc[w] # "idle", req[w].op # "create", ReadRow(w, step),
           scenarios[req[w].id].state # "absent",
           req[w].op = "simulate" => req[w].key # NoKey /\ step = "find",
           req[w].op = "transition" =>
             /\ CanTransitionScenario(scenarios[req[w].id].state, req[w].to)
             /\ req[w].to = "verified" =>
                  /\ scenarios[req[w].id].creator # req[w].actor
                  /\ Can(req[w].actor, "scenario.verify"),
           req[w].op = "replay" => scenarios[req[w].id].state # "draft"
    PROVE  IndInv'
  <1>1. WorkerSound(w) /\ req[w].id \in Ids
    BY InFlight DEF IndInv, ChecksStillHold
  <1>2. TypeOK'
    BY <1>1, ReadRowTypes DEF IndInv, Steps
  <1>3. RowSound(scenarios[req[w].id])
    BY <1>1 DEF IndInv, ChecksStillHold
  <1>4. /\ pc'[w] = step /\ req' = req /\ scenarios' = scenarios
        /\ seen'[w].state = scenarios[req[w].id].state
        /\ seen'[w].input = scenarios[req[w].id].input
        /\ seen'[w].result = scenarios[req[w].id].result
    BY DEF ReadRow, IndInv, TypeOK
  <1>5. WorkerSound(w)'
    BY <1>1, <1>3, <1>4 DEF WorkerSound, At, RowSound, Can, CanTransitionScenario
  <1>6. \A v \in Workers \ {w} : pc'[v] = pc[v] /\ req'[v] = req[v] /\ seen'[v] = seen[v]
    BY DEF ReadRow, IndInv, TypeOK
  <1> QED
    BY <1>2, <1>4, <1>5, <1>6, ReadOnlyKeepsInv

LEMMA ReadsKeepInv ==
    ASSUME IndInv, NEW w \in Workers,
           ReadForSimulate(w) \/ ReadForTransition(w) \/ ReadForReplay(w)
    PROVE  IndInv'
  <1> DEFINE row == scenarios[req[w].id]
  <1> USE DEF Replies, Refusals
  <1>1. CASE ReadForSimulate(w)
    <2>1. CASE ReadRow(w, "find") /\ req[w].key # NoKey /\ row.state # "absent"
      BY <1>1, <2>1, ReadRowKeepsInv DEF ReadForSimulate, At
    <2> QED
      BY <1>1, <2>1, FinishKeepsInv DEF ReadForSimulate
  <1>2. CASE ReadForTransition(w)
    <2>1. CASE /\ ReadRow(w, "commit") /\ row.state # "absent"
               /\ Can(req[w].actor, NeededFor(req[w].to))
               /\ CanTransitionScenario(row.state, req[w].to)
               /\ req[w].to = "verified" => ReviewerSeparated(row, req[w].actor)
      BY <1>2, <2>1, ReadRowKeepsInv DEF ReadForTransition, At, NeededFor, ReviewerSeparated
    <2> QED
      BY <1>2, <2>1, FinishKeepsInv DEF ReadForTransition
  <1>3. CASE ReadForReplay(w)
    <2>1. CASE ReadRow(w, "commit") /\ row.state \notin {"absent", "draft"}
      BY <1>3, <2>1, ReadRowKeepsInv DEF ReadForReplay, At
    <2> QED
      BY <1>3, <2>1, FinishKeepsInv DEF ReadForReplay
  <1> QED
    BY <1>1, <1>2, <1>3

\* A step that only moves on to the next one.
LEMMA GotoKeepsOthers ==
    ASSUME TypeOK, NEW w \in Workers, NEW step \in Steps, Goto(w, step)
    PROVE  /\ pc'[w] = step /\ req' = req /\ seen' = seen
           /\ \A v \in Workers \ {w} : pc'[v] = pc[v] /\ req'[v] = req[v] /\ seen'[v] = seen[v]
  BY DEF Goto, TypeOK

LEMMA FindKeyKeepsInv ==
    ASSUME IndInv, NEW w \in Workers, FindKey(w)
    PROVE  IndInv'
  <1>1. CASE Goto(w, "commit") /\ UNCHANGED <<scenarios, audit>> /\ seen[w].state = "draft"
    <2>1. TypeOK'
      BY <1>1, GotoTypes DEF IndInv, Steps, TypeOK
    <2>2. WorkerSound(w) /\ req[w].op = "simulate" /\ pc[w] = "find"
      BY DEF FindKey, At, IndInv, ChecksStillHold
    <2>3. WorkerSound(w)'
      BY <1>1, <2>2, GotoKeepsOthers DEF WorkerSound, At, IndInv, Steps
    <2> QED
      BY <1>1, <2>1, <2>3, GotoKeepsOthers, ReadOnlyKeepsInv DEF IndInv, Steps
  <1> QED
    BY <1>1, FinishKeepsInv DEF FindKey, Replies, Refusals

\* A transaction that writes a sound row over what it keeps.
LEMMA WriteKeepsInv ==
    ASSUME IndInv, NEW w \in Workers, NEW id \in Ids, NEW row \in Row,
           scenarios' = [scenarios EXCEPT ![id] = row],
           TypeOK', RowSound(row), row.state # "absent",
           scenarios[id].state # "absent" =>
             /\ row.input = scenarios[id].input
             /\ row.creator = scenarios[id].creator
             /\ row.result = scenarios[id].result \/ row.result = ResultOf[row.input],
           \A other \in Ids \ {id} :
             scenarios[other].state # "absent" => scenarios[other].key # row.key,
           WorkerSound(w)',
           \A v \in Workers \ {w} : pc'[v] = pc[v] /\ req'[v] = req[v] /\ seen'[v] = seen[v]
    PROVE  IndInv'
  <1>1. /\ scenarios'[id] = row
        /\ \A other \in Ids \ {id} : scenarios'[other] = scenarios[other]
    BY DEF IndInv, TypeOK
  <1>2. Kept
    BY <1>1 DEF Kept
  <1>3. \A other \in Ids : RowSound(scenarios'[other])
    BY <1>1 DEF IndInv, ChecksStillHold
  <1>4. OneKeyOneScenario'
    BY <1>1 DEF IndInv, OneKeyOneScenario, Existing
  <1> QED
    BY <1>2, <1>3, <1>4, StepKeepsInv

LEMMA CommitCreateKeepsInv ==
    ASSUME IndInv, NEW w \in Workers, CommitCreate(w)
    PROVE  IndInv'
  <1>2. CASE Finish(w, "identicalExists")
    BY <1>2, FinishKeepsInv DEF Replies, Refusals
  <1>3. CASE ~Finish(w, "identicalExists")
    <2>0. PICK id \in Ids :
          /\ NextId(id) /\ ~KeyTaken(NoId, NoKey)
          /\ WriteWithAudit(id,
               DraftRow(seen[w].input, req[w].actor), "create_frozen_draft", "absent", "draft")
          /\ req' = [req EXCEPT ![w].id = id]
          /\ pc' = [pc EXCEPT ![w] = "reply"]
          /\ UNCHANGED <<seen, reply>>
      BY <1>3 DEF CommitCreate
    <2> DEFINE row == DraftRow(seen[w].input, req[w].actor)
    <2>1. /\ seen[w].input \in Inputs /\ req[w].actor \in Users /\ req[w] \in Request
          /\ req[w].op = "create"
      BY DEF CommitCreate, At, IndInv, ChecksStillHold, WorkerSound, TypeOK
    <2>2. row \in Row /\ RowSound(row) /\ row.state # "absent" /\ row.key = NoKey
      BY <2>1 DEF DraftRow, Row, RowStates, ScenarioStates, RowSound
    <2> HIDE DEF row
    <2>3. scenarios' \in [Ids -> Row] /\ audit' \in [Ids -> Entry]
      BY <2>0, <2>2, WriteTypes DEF IndInv, RowStates, ScenarioStates, row
    <2>4. /\ req' = [req EXCEPT ![w] = [req[w] EXCEPT !.id = id]]
          /\ [req[w] EXCEPT !.id = id] \in Request
          /\ [req[w] EXCEPT !.id = id].op = "create"
          /\ [req[w] EXCEPT !.id = id].actor = req[w].actor
      BY <2>0, <2>1 DEF IndInv, TypeOK, Request
    <2>5. TypeOK'
      BY <2>0, <2>3, <2>4 DEF IndInv, TypeOK, Steps
    <2>6. /\ pc'[w] = "reply" /\ req'[w].op = "create" /\ req'[w].actor \in Users
      BY <2>0, <2>1, <2>4 DEF IndInv, TypeOK
    <2>7. WorkerSound(w)'
      BY <2>6 DEF WorkerSound, At
    <2>8. \A v \in Workers \ {w} : pc'[v] = pc[v] /\ req'[v] = req[v] /\ seen'[v] = seen[v]
      BY <2>0 DEF IndInv, TypeOK
    <2>9. scenarios' = [scenarios EXCEPT ![id] = row] /\ scenarios[id].state = "absent"
      BY <2>0 DEF WriteWithAudit, NextId, row
    <2>10. \A other \in Ids \ {id} :
             scenarios[other].state # "absent" => scenarios[other].key # row.key
      BY <2>0, <2>2, IdsAssumption DEF KeyTaken
    <2> QED
      BY <2>2, <2>5, <2>7, <2>8, <2>9, <2>10, WriteKeepsInv
  <1> QED
    BY <1>2, <1>3

LEMMA CommitSimulateKeepsInv ==
    ASSUME IndInv, NEW w \in Workers, CommitSimulate(w)
    PROVE  IndInv'
  <1> DEFINE id == req[w].id
             old == scenarios[id]
             row == [old EXCEPT !.state = "simulated", !.key = req[w].key,
                                !.result = ResultOf[seen[w].input]]
  <1>1. CASE /\ old.state = "draft" /\ ~KeyTaken(id, req[w].key)
             /\ WriteWithAudit(id, row, "simulate", seen[w].state, "simulated")
             /\ Goto(w, "reply")
    <2>1. /\ WorkerSound(w) /\ req[w].op = "simulate" /\ pc[w] = "commit" /\ id \in Ids
          /\ RowSound(old) /\ old \in Row /\ req[w] \in Request /\ seen[w] \in Seen
      BY InFlight DEF CommitSimulate, At, IndInv, ChecksStillHold, TypeOK
    <2>2. /\ seen[w].input = old.input /\ old.input \in Inputs /\ old.creator \in Users
          /\ req[w].key # NoKey /\ req[w].key \in Keys \cup {NoKey}
          /\ seen[w].state \in RowStates /\ old.verifier = NoUser
      BY <1>1, <2>1 DEF WorkerSound, RowSound, At, Request, Seen, Row
    <2>3. /\ row \in Row /\ row.state = "simulated" /\ row.input = old.input
          /\ row.creator = old.creator /\ row.result = ResultOf[old.input]
          /\ row.key = req[w].key /\ row.verifier = NoUser
      BY <2>1, <2>2 DEF Row, RowStates, ScenarioStates
    <2> HIDE DEF row
    <2>4. RowSound(row)
      BY <2>2, <2>3 DEF RowSound
    <2>5. scenarios' \in [Ids -> Row] /\ audit' \in [Ids -> Entry]
      BY <1>1, <2>1, <2>2, <2>3, WriteTypes DEF IndInv, RowStates, ScenarioStates
    <2>6. TypeOK'
      BY <1>1, <2>5, GotoTypes DEF IndInv, TypeOK, Steps
    <2>7. scenarios' = [scenarios EXCEPT ![id] = row] /\ scenarios'[id] = row
      BY <1>1, <2>1 DEF WriteWithAudit, IndInv, TypeOK
    <2>8. WorkerSound(w)'
      BY <1>1, <2>1, <2>2, <2>3, <2>7, GotoKeepsOthers DEF WorkerSound, At, IndInv, Steps
    <2>9. \A other \in Ids \ {id} :
            scenarios[other].state # "absent" => scenarios[other].key # row.key
      BY <1>1, <2>3 DEF KeyTaken
    <2>10. \A v \in Workers \ {w} : pc'[v] = pc[v] /\ req'[v] = req[v] /\ seen'[v] = seen[v]
      BY <1>1, GotoKeepsOthers DEF IndInv, Steps
    <2>11. /\ row.state # "absent" /\ row.input = scenarios[id].input
           /\ row.creator = scenarios[id].creator /\ row.result = ResultOf[row.input]
      BY <2>3
    <2> HIDE DEF id
    <2> QED
      BY <2>1, <2>3, <2>4, <2>6, <2>7, <2>8, <2>9, <2>10, <2>11, WriteKeepsInv
  <1> QED
    BY <1>1, FinishKeepsInv DEF CommitSimulate, Replies, Refusals

LEMMA CommitTransitionKeepsInv ==
    ASSUME IndInv, NEW w \in Workers, CommitTransition(w)
    PROVE  IndInv'
  <1> DEFINE id == req[w].id
             to == req[w].to
             old == scenarios[id]
             row == [old EXCEPT !.state = to,
                                !.verifier = IF to = "verified" THEN req[w].actor ELSE @]
  <1>1. CASE /\ old.state = seen[w].state
             /\ WriteWithAudit(id, row, "transition", seen[w].state, to)
             /\ Goto(w, "reply")
    <2>1. /\ WorkerSound(w) /\ req[w].op = "transition" /\ pc[w] = "commit" /\ id \in Ids
          /\ RowSound(old) /\ old \in Row /\ req[w].actor \in Users
          /\ to \in ScenarioStates \ {"simulated"}
      BY InFlight DEF CommitTransition, At, IndInv, ChecksStillHold, TypeOK
    <2>2. /\ seen[w].input = old.input /\ old.state # "absent"
          /\ <<old.state, to>> \in ScenarioMoves
          /\ to = "verified" => old.creator # req[w].actor /\ Can(req[w].actor, "scenario.verify")
      BY <1>1, <2>1 DEF WorkerSound, At, CanTransitionScenario
    <2>3. old.state \in {"simulated", "ready", "executing"}
      BY <2>1, <2>2 DEF ScenarioMoves
    <2>4. /\ row \in Row /\ row.state = to /\ row.input = old.input /\ row.creator = old.creator
          /\ row.result = old.result /\ row.key = old.key /\ row.replayed = old.replayed
          /\ row.verifier = IF to = "verified" THEN req[w].actor ELSE old.verifier
      BY <2>1 DEF Row, RowStates
    <2> HIDE DEF row
    <2>5. RowSound(row) /\ row.state # "absent"
      BY <2>1, <2>2, <2>3, <2>4 DEF RowSound, ScenarioStates
    <2>6. scenarios' \in [Ids -> Row] /\ audit' \in [Ids -> Entry]
      BY <1>1, <2>1, <2>3, <2>4, WriteTypes DEF IndInv, RowStates, ScenarioStates
    <2>7. TypeOK'
      BY <1>1, <2>6, GotoTypes DEF IndInv, TypeOK, Steps
    <2>8. scenarios' = [scenarios EXCEPT ![id] = row] /\ scenarios'[id] = row
      BY <1>1, <2>1 DEF WriteWithAudit, IndInv, TypeOK
    <2>9. WorkerSound(w)'
      BY <1>1, <2>1, <2>2, <2>4, <2>5, <2>8, GotoKeepsOthers DEF WorkerSound, At, IndInv, Steps
    <2>10. \A other \in Ids \ {id} :
             scenarios[other].state # "absent" => scenarios[other].key # row.key
      BY <2>1, <2>2, <2>4 DEF IndInv, OneKeyOneScenario, Existing
    <2>11. \A v \in Workers \ {w} : pc'[v] = pc[v] /\ req'[v] = req[v] /\ seen'[v] = seen[v]
      BY <1>1, GotoKeepsOthers DEF IndInv, Steps
    <2>12. /\ row.input = scenarios[id].input /\ row.creator = scenarios[id].creator
           /\ row.result = scenarios[id].result
      BY <2>4
    <2> HIDE DEF id
    <2> QED
      BY <2>1, <2>4, <2>5, <2>7, <2>8, <2>9, <2>10, <2>11, <2>12, WriteKeepsInv
  <1> QED
    BY <1>1, FinishKeepsInv DEF CommitTransition, Replies, Refusals

\* The replay flag is written without looking at the row again, which is sound
\* because the frozen input never changes and results are never wiped.
LEMMA CommitReplayKeepsInv ==
    ASSUME IndInv, NEW w \in Workers, CommitReplay(w)
    PROVE  IndInv'
  <1> DEFINE id == req[w].id
             old == scenarios[id]
             row == [old EXCEPT !.replayed = (seen[w].result = ResultOf[seen[w].input])]
  <1>1. /\ WorkerSound(w) /\ req[w].op = "replay" /\ pc[w] = "commit" /\ id \in Ids
        /\ RowSound(old) /\ old \in Row /\ seen[w].state \in RowStates
    BY InFlight DEF CommitReplay, At, IndInv, ChecksStillHold, TypeOK, Seen
  <1>2. /\ seen[w].input = old.input /\ old.state # "absent"
        /\ seen[w].result = ResultOf[seen[w].input]
    BY <1>1 DEF WorkerSound, At
  <1>3. /\ WriteWithAudit(id, row, "replay", seen[w].state, seen[w].state)
        /\ Goto(w, "reply")
    BY <1>2 DEF CommitReplay
  <1>4. /\ row \in Row /\ row.state = old.state /\ row.input = old.input
        /\ row.creator = old.creator /\ row.result = old.result /\ row.key = old.key
        /\ row.verifier = old.verifier /\ old.result = ResultOf[old.input]
    BY <1>1 DEF Row, WorkerSound, At
  <1> HIDE DEF row
  <1>5. RowSound(row) /\ row.state # "absent"
    BY <1>1, <1>2, <1>4 DEF RowSound
  <1>6. scenarios' \in [Ids -> Row] /\ audit' \in [Ids -> Entry]
    BY <1>1, <1>3, <1>4, WriteTypes DEF IndInv
  <1>7. TypeOK'
    BY <1>3, <1>6, GotoTypes DEF IndInv, TypeOK, Steps
  <1>8. scenarios' = [scenarios EXCEPT ![id] = row] /\ scenarios'[id] = row
    BY <1>1, <1>3 DEF WriteWithAudit, IndInv, TypeOK
  <1>9. WorkerSound(w)'
    BY <1>1, <1>3, <1>4, <1>5, <1>8, GotoKeepsOthers DEF WorkerSound, At, IndInv, Steps
  <1>10. \A other \in Ids \ {id} :
           scenarios[other].state # "absent" => scenarios[other].key # row.key
    BY <1>1, <1>2, <1>4 DEF IndInv, OneKeyOneScenario, Existing
  <1>11. \A v \in Workers \ {w} : pc'[v] = pc[v] /\ req'[v] = req[v] /\ seen'[v] = seen[v]
    BY <1>3, GotoKeepsOthers DEF IndInv, Steps
  <1>12. /\ row.input = scenarios[id].input /\ row.creator = scenarios[id].creator
         /\ row.result = scenarios[id].result
    BY <1>4
  <1> HIDE DEF id
  <1> QED
    BY <1>1, <1>4, <1>5, <1>7, <1>8, <1>9, <1>10, <1>11, <1>12, WriteKeepsInv

LEMMA CrashKeepsInv ==
    ASSUME IndInv, Crash
    PROVE  IndInv'
  <1>1. PICK dead \in SUBSET Workers :
          /\ pc' = [w \in Workers |-> IF w \in dead THEN "idle" ELSE pc[w]]
          /\ req' = [w \in Workers |-> IF w \in dead THEN NoRequest ELSE req[w]]
          /\ seen' = [w \in Workers |-> IF w \in dead THEN Unread ELSE seen[w]]
          /\ reply' = [w \in Workers |-> IF w \in dead THEN "none" ELSE reply[w]]
    BY DEF Crash
  <1>2. UNCHANGED <<scenarios, audit>>
    BY DEF Crash
  <1>3. NoRequest \in Request /\ Unread \in Seen
    BY DEF NoRequest, Request, Unread, Seen, RowStates
  <1>4. TypeOK'
    BY <1>1, <1>2, <1>3 DEF IndInv, TypeOK, Steps, Replies
  <1>5. ASSUME NEW v \in Workers PROVE WorkerSound(v)'
    <2>1. CASE v \in dead
      BY <1>1, <2>1 DEF WorkerSound, At, NoRequest
    <2>2. CASE v \notin dead
      BY <1>1, <1>2, <2>2, OthersSound DEF IndInv, ChecksStillHold, Kept
    <2> QED
      BY <2>1, <2>2
  <1>6. OneKeyOneScenario'
    BY <1>2 DEF IndInv, OneKeyOneScenario, Existing
  <1>7. (\A id \in Ids : RowSound(scenarios[id]))'
    BY <1>2 DEF IndInv, ChecksStillHold, RowSound, AbsentRow, Can
  <1> QED
    BY <1>4, <1>5, <1>6, <1>7 DEF IndInv, ChecksStillHold

-----------------------------------------------------------------------------
(* The theorems *)

LEMMA InitInv == Init => IndInv
  <1> SUFFICES ASSUME Init PROVE IndInv
    OBVIOUS
  <1>1. \A id \in Ids : RowSound(scenarios[id])
    BY DEF Init, RowSound, SeedRow, AbsentRow
  <1>2. \A w \in Workers : WorkerSound(w)
    BY DEF Init, WorkerSound, At, NoRequest
  <1>3. OneKeyOneScenario
    BY DEF Init, OneKeyOneScenario, Existing, AbsentRow
  <1> QED
    BY <1>1, <1>2, <1>3, InitTypes DEF IndInv, ChecksStillHold

LEMMA NextKeepsInv == IndInv /\ [Next]_vars => IndInv'
  <1> SUFFICES ASSUME IndInv, [Next]_vars PROVE IndInv'
    OBVIOUS
  <1>1. ASSUME NEW w \in Workers, Receive(w) PROVE IndInv'
    BY <1>1, ReceiveKeepsInv
  <1>2. ASSUME NEW w \in Workers, Deny(w) PROVE IndInv'
    BY <1>2, DenyKeepsInv
  <1>3. ASSUME NEW w \in Workers, DatabaseFails(w) PROVE IndInv'
    BY <1>3, DatabaseFailsKeepsInv
  <1>4. ASSUME NEW w \in Workers, FreezeInput(w) PROVE IndInv'
    BY <1>4, FreezeInputKeepsInv
  <1>5. ASSUME NEW w \in Workers, CommitCreate(w) PROVE IndInv'
    BY <1>5, CommitCreateKeepsInv
  <1>6. ASSUME NEW w \in Workers,
               ReadForSimulate(w) \/ ReadForTransition(w) \/ ReadForReplay(w)
        PROVE  IndInv'
    BY <1>6, ReadsKeepInv
  <1>7. ASSUME NEW w \in Workers, FindKey(w) PROVE IndInv'
    BY <1>7, FindKeyKeepsInv
  <1>8. ASSUME NEW w \in Workers, CommitSimulate(w) PROVE IndInv'
    BY <1>8, CommitSimulateKeepsInv
  <1>9. ASSUME NEW w \in Workers, CommitTransition(w) PROVE IndInv'
    BY <1>9, CommitTransitionKeepsInv
  <1>10. ASSUME NEW w \in Workers, CommitReplay(w) PROVE IndInv'
    BY <1>10, CommitReplayKeepsInv
  <1>11. ASSUME NEW w \in Workers, Reply(w) PROVE IndInv'
    BY <1>11, FinishKeepsInv DEF Reply, Replies
  <1>12. ASSUME Crash PROVE IndInv'
    BY <1>12, CrashKeepsInv
  <1>13. ASSUME UNCHANGED vars PROVE IndInv'
    BY <1>13 DEF vars, IndInv, TypeOK, ChecksStillHold, OneKeyOneScenario, Existing, RowSound,
                 WorkerSound, At, AbsentRow, Can, CanTransitionScenario
  <1> QED
    BY <1>1, <1>2, <1>3, <1>4, <1>5, <1>6, <1>7, <1>8, <1>9, <1>10, <1>11, <1>12, <1>13
       DEF Next, Handle

LEMMA Invariance == Spec => []IndInv
  BY InitInv, NextKeepsInv, PTL DEF Spec

\* The service keeps its tables and its requests in flight typed.
THEOREM TypeCorrectness == Spec => []TypeOK
  <1>1. IndInv => TypeOK
    BY DEF IndInv
  <1> QED
    BY <1>1, Invariance, PTL

\* What a request checked outside the transaction is still true inside it.
THEOREM ChecksRemainTrue == Spec => []ChecksStillHold
  <1>1. IndInv => ChecksStillHold
    BY DEF IndInv
  <1> QED
    BY <1>1, Invariance, PTL

\* Nobody verifies a scenario of their own, however requests interleave.
THEOREM CreatorNeverVerifies == Spec => []ReviewerSeparation
  <1>1. IndInv => ReviewerSeparation
    BY DEF IndInv, ChecksStillHold, RowSound, ReviewerSeparation
  <1> QED
    BY <1>1, Invariance, PTL

\* A scenario past draft stands on the simulation of its frozen input.
THEOREM EvidenceStaysSound == Spec => []EvidenceSound
  <1>1. IndInv => EvidenceSound
    BY DEF IndInv, ChecksStillHold, RowSound, EvidenceSound
  <1> QED
    BY <1>1, Invariance, PTL

\* A committed simulation is answered with its result.
THEOREM AnswersKeepTheirResult == Spec => []AnsweredResultKept
  <1>1. IndInv => AnsweredResultKept
    BY DEF IndInv, ChecksStillHold, WorkerSound, AnsweredResultKept, At
  <1> QED
    BY <1>1, Invariance, PTL

\* An idempotency key belongs to one scenario at a time.
THEOREM KeysAreNotShared == Spec => []OneKeyOneScenario
  <1>1. IndInv => OneKeyOneScenario
    BY DEF IndInv
  <1> QED
    BY <1>1, Invariance, PTL

-----------------------------------------------------------------------------
(* Steps that write, and the two properties of steps *)

\* Whatever else a step does, the tables change only in these four ways.
Writes(w) ==
    \/ CommitCreate(w) \/ CommitSimulate(w) \/ CommitTransition(w) \/ CommitReplay(w)

LEMMA OnlyCommitsWrite ==
    ASSUME [Next]_vars
    PROVE  UNCHANGED <<scenarios, audit>> \/ \E w \in Workers : Writes(w)
  BY DEF Next, vars, Handle, Writes, Receive, Deny, FreezeInput, ReadForSimulate, FindKey,
         ReadForTransition, ReadForReplay, Reply, DatabaseFails, Crash, Finish, ReadRow

Audited(id) ==
    \/ scenarios'[id].state # scenarios[id].state
    \/ audit'[id] # audit[id] /\ audit'[id].action # "replay"
    => audit'[id].before = scenarios[id].state /\ audit'[id].after = scenarios'[id].state

\* Every write of one row with the entry that names what it replaced.
LEMMA WriteAudited ==
    ASSUME TypeOK, NEW id \in Ids, NEW row, NEW action, NEW before, NEW after,
           WriteWithAudit(id, row, action, before, after),
           \/ before = scenarios[id].state /\ after = row.state
           \/ action = "replay" /\ row.state = scenarios[id].state
    PROVE  \A other \in Ids : Audited(other)
  BY DEF TypeOK, WriteWithAudit, Audited

LEMMA StepAudited ==
    ASSUME IndInv, [Next]_vars, NEW other \in Ids
    PROVE  Audited(other)
  <1>1. CASE UNCHANGED <<scenarios, audit>>
    BY <1>1 DEF Audited
  <1>2. ASSUME NEW w \in Workers, CommitCreate(w), ~UNCHANGED <<scenarios, audit>>
        PROVE  Audited(other)
    <2>1. PICK id \in Ids :
            /\ NextId(id)
            /\ WriteWithAudit(id, DraftRow(seen[w].input, req[w].actor),
                              "create_frozen_draft", "absent", "draft")
      BY <1>2 DEF CommitCreate, Finish
    <2> QED
      BY <2>1, WriteAudited DEF IndInv, NextId, DraftRow
  <1>3. ASSUME NEW w \in Workers, pc[w] # "idle", req[w].op # "create"
        PROVE  req[w].id \in Ids /\ WorkerSound(w) /\ scenarios[req[w].id] \in Row
    BY <1>3, InFlight DEF IndInv, ChecksStillHold, TypeOK
  <1>4. ASSUME NEW w \in Workers, CommitSimulate(w), ~UNCHANGED <<scenarios, audit>>
        PROVE  Audited(other)
    <2>1. /\ req[w].id \in Ids /\ seen[w].state = "draft" /\ scenarios[req[w].id] \in Row
      BY <1>3, <1>4 DEF CommitSimulate, At, WorkerSound
    <2>2. /\ scenarios[req[w].id].state = "draft"
          /\ WriteWithAudit(req[w].id,
               [scenarios[req[w].id] EXCEPT !.state = "simulated", !.key = req[w].key,
                                            !.result = ResultOf[seen[w].input]],
               "simulate", seen[w].state, "simulated")
      BY <1>4 DEF CommitSimulate, Finish
    <2> QED
      BY <2>1, <2>2, WriteAudited DEF IndInv, Row
  <1>5. ASSUME NEW w \in Workers, CommitTransition(w), ~UNCHANGED <<scenarios, audit>>
        PROVE  Audited(other)
    <2>1. req[w].id \in Ids /\ scenarios[req[w].id] \in Row
      BY <1>3, <1>5 DEF CommitTransition, At
    <2>2. /\ scenarios[req[w].id].state = seen[w].state
          /\ WriteWithAudit(req[w].id,
               [scenarios[req[w].id] EXCEPT
                  !.state = req[w].to,
                  !.verifier = IF req[w].to = "verified" THEN req[w].actor ELSE @],
               "transition", seen[w].state, req[w].to)
      BY <1>5 DEF CommitTransition, Finish
    <2> QED
      BY <2>1, <2>2, WriteAudited DEF IndInv, Row
  <1>6. ASSUME NEW w \in Workers, CommitReplay(w)
        PROVE  Audited(other)
    <2>1. req[w].id \in Ids /\ scenarios[req[w].id] \in Row
      BY <1>3, <1>6 DEF CommitReplay, At
    <2>2. WriteWithAudit(req[w].id,
            [scenarios[req[w].id] EXCEPT
               !.replayed = (seen[w].result = ResultOf[seen[w].input])],
            "replay", seen[w].state, seen[w].state)
      BY <1>6 DEF CommitReplay
    <2> QED
      BY <2>1, <2>2, WriteAudited DEF IndInv, Row
  <1> QED
    BY <1>1, <1>2, <1>4, <1>5, <1>6, OnlyCommitsWrite DEF Writes

\* The audit trail of state changes has no gap.
THEOREM AuditTrailHasNoGap == Spec => AuditTrailContinuous
  <1>1. IndInv /\ [Next]_vars => [\A id \in Ids : Audited(id)]_vars
    BY StepAudited
  <1>2. (\A id \in Ids : Audited(id)) <=>
        \A id \in Ids :
          \/ scenarios'[id].state # scenarios[id].state
          \/ audit'[id] # audit[id] /\ audit'[id].action # "replay"
          => /\ audit'[id].before = scenarios[id].state
             /\ audit'[id].after = scenarios'[id].state
    BY DEF Audited
  <1> QED
    BY <1>1, <1>2, Invariance, PTL DEF Spec, AuditTrailContinuous

-----------------------------------------------------------------------------
(* Refinement of ScenarioLifecycle *)

Mapped == [id \in Ids |-> Assessed(scenarios[id])]

\* A write of one row is a write of one assessment.
LEMMA MappedWrite ==
    ASSUME TypeOK, NEW id \in Ids, NEW row,
           scenarios' = [scenarios EXCEPT ![id] = row]
    PROVE  Mapped' = [Mapped EXCEPT ![id] = Assessed(row)]
  BY DEF TypeOK, Mapped, Assessed

LEMMA CreateRefines ==
    ASSUME IndInv, NEW w \in Workers, CommitCreate(w), ~UNCHANGED <<scenarios, audit>>
    PROVE  \E id \in Ids : Lifecycle!Draft(id)
  <1> DEFINE row == DraftRow(seen[w].input, req[w].actor)
  <1>1. PICK id \in Ids :
          /\ NextId(id) /\ ~InputTaken(seen[w].input)
          /\ WriteWithAudit(id, row, "create_frozen_draft", "absent", "draft")
    BY DEF CommitCreate, Finish
  <1>2. seen[w].input \in Inputs /\ req[w].actor \in Users
    BY DEF CommitCreate, At, IndInv, ChecksStillHold, WorkerSound
  <1>3. \A other \in Ids : Mapped[other].input # seen[w].input
    <2> SUFFICES ASSUME NEW other \in Ids PROVE scenarios[other].input # seen[w].input
      BY DEF Mapped, Assessed
    <2> QED
      BY <1>1, <1>2 DEF InputTaken, IndInv, ChecksStillHold, RowSound, AbsentRow
  <1>4. Mapped' = [Mapped EXCEPT ![id] = Assessed(row)] /\ Mapped[id].state = "absent"
    BY <1>1, MappedWrite DEF IndInv, WriteWithAudit, NextId, Mapped, Assessed
  <1>5. Assessed(row) = [ state |-> "draft", input |-> seen[w].input, creator |-> req[w].actor,
                          verifier |-> NoUser, result |-> NoResult ]
    BY DEF Assessed, DraftRow
  <1>6. \E user \in Users, input \in Inputs :
          /\ \A other \in Ids : Mapped[other].input # input
          /\ Mapped' = [Mapped EXCEPT ![id] =
               [ state |-> "draft", input |-> input, creator |-> user,
                 verifier |-> NoUser, result |-> NoResult ]]
    BY <1>2, <1>3, <1>4, <1>5
  <1>7. Lifecycle!Draft(id)
    BY <1>4, <1>6 DEF Lifecycle!Draft, Mapped
  <1> QED
    BY <1>7

LEMMA SimulateRefines ==
    ASSUME IndInv, NEW w \in Workers, CommitSimulate(w), ~UNCHANGED <<scenarios, audit>>
    PROVE  \E id \in Ids : Lifecycle!Assess(id)
  <1> DEFINE id  == req[w].id
             old == scenarios[id]
             row == [old EXCEPT !.state = "simulated", !.key = req[w].key,
                                !.result = ResultOf[seen[w].input]]
  <1>1. /\ id \in Ids /\ old \in Row /\ seen[w].input = old.input
    BY InFlight DEF CommitSimulate, At, IndInv, ChecksStillHold, TypeOK, WorkerSound
  <1>2. old.state = "draft" /\ scenarios' = [scenarios EXCEPT ![id] = row]
    BY DEF CommitSimulate, Finish, WriteWithAudit
  <1>3. Assessed(row) = [ state |-> "simulated", input |-> old.input, creator |-> old.creator,
                          verifier |-> old.verifier, result |-> ResultOf[old.input] ]
    BY <1>1 DEF Assessed, Row
  <1>4. Mapped' = [Mapped EXCEPT ![id] = Assessed(row)] /\ Mapped[id] = Assessed(old)
    BY <1>1, <1>2, MappedWrite DEF IndInv, Mapped
  <1>5. Mapped' = [Mapped EXCEPT ![id] =
          [ state |-> "simulated", input |-> @.input, creator |-> @.creator,
            verifier |-> @.verifier, result |-> ResultOf[@.input] ]]
    <2>1. /\ Mapped[id].input = old.input /\ Mapped[id].creator = old.creator
          /\ Mapped[id].verifier = old.verifier
      BY <1>4 DEF Assessed
    <2> QED
      BY <1>3, <1>4, <2>1
  <1>6. Mapped[id].state = "draft"
    BY <1>2, <1>4 DEF Assessed
  <1> QED
    BY <1>1, <1>5, <1>6 DEF Lifecycle!Assess, Mapped

LEMMA TransitionRefines ==
    ASSUME IndInv, NEW w \in Workers, CommitTransition(w), ~UNCHANGED <<scenarios, audit>>
    PROVE  \E id \in Ids :
             \/ Lifecycle!MarkReady(id) \/ Lifecycle!Execute(id) \/ Lifecycle!Reopen(id)
             \/ Lifecycle!Verify(id) \/ Lifecycle!RollBack(id)
  <1> DEFINE id  == req[w].id
             to  == req[w].to
             old == scenarios[id]
             row == [old EXCEPT !.state = to,
                                !.verifier = IF to = "verified" THEN req[w].actor ELSE @]
  <1>1. /\ id \in Ids /\ old \in Row /\ to \in ScenarioStates \ {"simulated"}
        /\ req[w].actor \in Users /\ WorkerSound(w)
    BY InFlight DEF CommitTransition, At, IndInv, ChecksStillHold, TypeOK
  <1>2. old.state = seen[w].state /\ scenarios' = [scenarios EXCEPT ![id] = row]
    BY DEF CommitTransition, Finish, WriteWithAudit
  <1>3. /\ <<old.state, to>> \in ScenarioMoves
        /\ to = "verified" => old.creator # req[w].actor /\ Can(req[w].actor, "scenario.verify")
    BY <1>1, <1>2 DEF CommitTransition, At, WorkerSound, CanTransitionScenario
  <1>4. Mapped' = [Mapped EXCEPT ![id] = Assessed(row)] /\ Mapped[id] = Assessed(old)
    BY <1>1, <1>2, MappedWrite DEF IndInv, Mapped
  <1>5. CASE to = "verified"
    <2>1. Assessed(row) = [ state |-> "verified", input |-> old.input, creator |-> old.creator,
                            verifier |-> req[w].actor, result |-> old.result ]
      BY <1>1, <1>5 DEF Assessed, Row
    <2>2. Mapped' = [Mapped EXCEPT ![id] =
            [ state |-> "verified", input |-> @.input, creator |-> @.creator,
              verifier |-> req[w].actor, result |-> @.result ]]
      <3>1. /\ Mapped[id].input = old.input /\ Mapped[id].creator = old.creator
            /\ Mapped[id].result = old.result
        BY <1>4 DEF Assessed
      <3> QED
        BY <1>4, <2>1, <3>1
    <2>3. /\ Mapped[id].state = "executing"
          /\ req[w].actor \in {user \in Users : Can(user, "scenario.verify")} \ {Mapped[id].creator}
      BY <1>1, <1>3, <1>4, <1>5 DEF Assessed, ScenarioMoves
    <2> QED
      BY <1>1, <2>2, <2>3 DEF Lifecycle!Verify, Mapped
  <1>6. CASE to # "verified"
    <2>1. Assessed(row) = [Assessed(old) EXCEPT !.state = to]
      BY <1>1, <1>6 DEF Assessed, Row
    <2>2. Mapped' = [Mapped EXCEPT ![id].state = to]
      BY <1>1, <1>4, <2>1 DEF Mapped
    <2>3. \/ Mapped[id].state = "simulated" /\ to = "ready"
          \/ Mapped[id].state = "ready" /\ to = "executing"
          \/ Mapped[id].state \in {"simulated", "ready"} /\ to = "draft"
          \/ Mapped[id].state = "executing" /\ to = "rollback"
      BY <1>1, <1>3, <1>4, <1>6 DEF Assessed, ScenarioMoves
    <2> QED
      BY <1>1, <2>2, <2>3
         DEF Lifecycle!MarkReady, Lifecycle!Execute, Lifecycle!Reopen, Lifecycle!RollBack, Mapped
  <1> QED
    BY <1>5, <1>6

LEMMA ReplayRefines ==
    ASSUME IndInv, NEW w \in Workers, CommitReplay(w)
    PROVE  Mapped' = Mapped
  <1> DEFINE id  == req[w].id
             row == [scenarios[id] EXCEPT
                       !.replayed = (seen[w].result = ResultOf[seen[w].input])]
  <1>1. id \in Ids /\ scenarios[id] \in Row
    BY InFlight DEF CommitReplay, At, IndInv, ChecksStillHold, TypeOK
  <1>2. scenarios' = [scenarios EXCEPT ![id] = row]
    BY DEF CommitReplay, WriteWithAudit
  <1>3. Assessed(row) = Assessed(scenarios[id])
    BY <1>1 DEF Assessed, Row
  <1> QED
    BY <1>1, <1>2, <1>3, MappedWrite DEF IndInv, Mapped

\* Every step of the service is a step of the lifecycle or leaves it alone.
LEMMA StepRefines ==
    ASSUME IndInv, [Next]_vars
    PROVE  [Lifecycle!Next]_Mapped
  <1>1. CASE UNCHANGED <<scenarios, audit>>
    BY <1>1 DEF Mapped, Assessed
  <1>2. ASSUME NEW w \in Workers, CommitCreate(w), ~UNCHANGED <<scenarios, audit>>
        PROVE  Lifecycle!Next
    BY <1>2, CreateRefines DEF Lifecycle!Next
  <1>3. ASSUME NEW w \in Workers, CommitSimulate(w), ~UNCHANGED <<scenarios, audit>>
        PROVE  Lifecycle!Next
    BY <1>3, SimulateRefines DEF Lifecycle!Next
  <1>4. ASSUME NEW w \in Workers, CommitTransition(w), ~UNCHANGED <<scenarios, audit>>
        PROVE  Lifecycle!Next
    BY <1>4, TransitionRefines DEF Lifecycle!Next
  <1> QED
    BY <1>1, <1>2, <1>3, <1>4, ReplayRefines, OnlyCommitsWrite DEF Writes

\* Concurrent requests, failures and crashes included, the service implements
\* the lifecycle of ScenarioLifecycle.
THEOREM ServiceImplementsLifecycle == Spec => ImplementsLifecycle
  <1>1. Init => Lifecycle!Init
    BY DEF Init, Lifecycle!Init, Assessed
  <1>2. IndInv /\ [Next]_vars => [Lifecycle!Next]_Mapped
    BY StepRefines
  <1> QED
    BY <1>1, <1>2, Invariance, PTL DEF Spec, ImplementsLifecycle, Lifecycle!Spec, Mapped

Facts == INSTANCE ScenarioLifecycleProofs WITH
    Verifiers  <- {user \in Users : Can(user, "scenario.verify")},
    Seeded     <- [id \in Ids |-> Assessed(IF id = SeedId THEN SeedRow ELSE AbsentRow)],
    assessment <- Mapped

\* So with any number of requests under way, retries and crashes included: a scenario that
\* was verified or rolled back stays as it is, with the result and the reviewer that speak
\* for it, none is executed or settled out of order, and whoever signs one off may do so
\* and did not create it.
THEOREM ServiceIsAccountable == Spec => Facts!Accountable
  <1> DEFINE seeded == [id \in Ids |-> Assessed(IF id = SeedId THEN SeedRow ELSE AbsentRow)]
  <1>1. Facts!StartsTyped
    <2>1. ASSUME NEW id \in Ids
          PROVE  /\ seeded[id] \in Facts!Assessment
                 /\ seeded[id].state # "absent" => seeded[id].input \in Inputs
      BY <2>1 DEF Assessed, SeedRow, AbsentRow, Facts!Assessment
    <2>2. /\ seeded \in [Ids -> Facts!Assessment]
          /\ \A id \in Ids : seeded[id].state # "absent" => seeded[id].input \in Inputs
      BY <2>1
    <2> HIDE DEF seeded
    <2> QED
      BY <2>2 DEF Facts!StartsTyped, seeded
  <1>2. Init => Facts!Init
    BY DEF Init, Facts!Init, Mapped, Assessed
  <1>3. [Lifecycle!Next]_Mapped => [Facts!Next]_Mapped
    BY DEF Mapped, Lifecycle!Next, Facts!Next, Lifecycle!Draft, Facts!Draft, Lifecycle!Assess,
           Facts!Assess, Lifecycle!MarkReady, Facts!MarkReady, Lifecycle!Execute, Facts!Execute,
           Lifecycle!Reopen, Facts!Reopen, Lifecycle!Verify, Facts!Verify,
           Lifecycle!RollBack, Facts!RollBack
  <1>4. IndInv /\ [Next]_vars => [Facts!Next]_Mapped
    BY <1>3, StepRefines
  <1>5. Spec => Facts!Spec
    BY <1>2, <1>4, Invariance, PTL DEF Spec, Facts!Spec
  <1> QED
    BY <1>1, <1>5, Facts!LifecycleIsAccountable

=============================================================================
