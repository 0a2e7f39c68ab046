----------------------------- MODULE ConsoleProofs -----------------------------
(***************************************************************************)
(* Proofs about Console for any number of tabs, requests in flight,        *)
(* scenarios and users.                                                    *)
(***************************************************************************)
EXTENDS Console, RateLimiterProofs

-----------------------------------------------------------------------------
(* The inductive invariant *)

Changes == {"simulate", "transition"}

\* A copy of a scenario, from whatever time.
Copy(id, row) ==
    row \in Row /\ row.creator = Seeded[id].creator /\ WellFormed(row)

CopyOrNone(id, row) == row = NoRow \/ Copy(id, row)

PageSound(p) ==
    /\ \A id \in Ids : CopyOrNone(id, p.items[id])
    /\ p.active # NoId => Copy(p.active, p.row)

\* A request in flight carries what the page showed and a button that was offered for
\* it, and once past the token check a token.
CallSound(c) == c.stage # "free" =>
    /\ c.tab \in Tabs /\ c.op # "none"
    /\ c.op = "login" => c.user \in Users
    /\ c.op \in Changes =>
         /\ c.id \in Ids /\ Copy(c.id, c.row)
         /\ CanTransitionScenario(c.row.state, c.to) /\ c.to # "draft"
         /\ c.op = "simulate" <=> c.to = "simulated"
    /\ \A id \in Ids : CopyOrNone(id, c.rows[id])
    /\ c.stage = "timed" => c.op \in {"login", "simulate"}
    /\ c.stage \in {"timed", "admitted"} /\ c.op # "login" => c.token # NoToken
    /\ c.stage # "answered" => c.status = "failed"
    /\ c.stage = "answered" =>
         c.for # "nobody" /\ (c.status = "ok" /\ c.op \in Changes => c.rows[c.id] # NoRow)

\* The backend has not been started again since a request read the clock.
ReadingsFresh == \A s \in Slots : call[s].stage = "timed" => call[s].at \in born..now

ConsoleInv ==
    /\ TypeOK
    /\ \A id \in Ids : Copy(id, rows[id])
    /\ \A t \in Tabs : PageSound(page[t])
    /\ \A s \in Slots : CallSound(call[s])
    /\ ReadingsFresh

\* What is in the variables beside the limiter.
ConsoleTypes ==
    /\ rows \in [Ids -> Row]
    /\ token \in Token \cup {NoToken}
    /\ page \in [Tabs -> Page]
    /\ call \in [Slots -> Call]
    /\ budget \in [presses : 0..MaxPresses, events : 0..MaxEvents]

\* The parts of a step's successor, put together.
LEMMA PartsMakeInv ==
    ASSUME LimiterTypeOK', ConsoleTypes',
           \A id \in Ids : Copy(id, rows'[id]),
           \A t \in Tabs : PageSound(page'[t]),
           \A s \in Slots : CallSound(call'[s]),
           \A s \in Slots : call'[s].stage = "timed" => call'[s].at \in born'..now'
    PROVE  ConsoleInv'
  BY DEF ConsoleInv, TypeOK, ConsoleTypes, ReadingsFresh

LEMMA InvParts ==
    ASSUME ConsoleInv
    PROVE  /\ LimiterTypeOK /\ ConsoleTypes
           /\ \A id \in Ids : Copy(id, rows[id])
           /\ \A t \in Tabs : PageSound(page[t])
           /\ \A s \in Slots : CallSound(call[s])
           /\ \A s \in Slots : call[s].stage = "timed" => call[s].at \in born..now
  BY DEF ConsoleInv, TypeOK, ConsoleTypes, ReadingsFresh

-----------------------------------------------------------------------------
(* The limiter inside the console *)

\* The readings that are counted are those of requests in flight.
LEMMA StepUsesLimiter == ConsoleInv /\ [Next]_vars => [LimiterNext]_limiterVars
  <1> SUFFICES ASSUME ConsoleInv, [Next]_vars PROVE [LimiterNext]_limiterVars
    OBVIOUS
  <1>1. ASSUME NEW t \in Tabs,
               Login(t) \/ Logout(t) \/ Fetch(t) \/ Leave(t) \/ Select(t) \/ Simulate(t) \/ Transition(t)
        PROVE  UNCHANGED limiterVars
    BY <1>1 DEF Login, Logout, Fetch, Leave, Select, Simulate, Transition, limiterVars
  <1>2. ASSUME NEW s \in Slots, Deliver(s) \/ Lose(s) PROVE UNCHANGED limiterVars
    BY <1>2 DEF Deliver, Lose, limiterVars
  <1>3. ASSUME NEW s \in Slots,
               Admit(s) \/ ServeLogin(s) \/ ServeList(s) \/ ServeChange(s) \/ RefuseChange(s) \/ DatabaseFails(s)
        PROVE  UNCHANGED limiterVars
    BY <1>3 DEF Admit, ServeLogin, ServeList, ServeChange, RefuseChange, DatabaseFails, limiterVars
  <1>4. ASSUME NEW s \in Slots, LimitRate(s) PROVE LimiterNext
    <2> DEFINE caller == IF call[s].op = "login" THEN NoUser ELSE call[s].token.user
               key == Key[call[s].op, caller]
    <2>1. /\ Count(key, call[s].at) /\ UNCHANGED now
          /\ call[s].stage = "timed"
      BY <1>4 DEF LimitRate
    <2>2. /\ call[s].op \in {"login", "simulate"} /\ call[s].at \in born..now
          /\ call[s].op # "login" => call[s].token # NoToken
      BY <2>1, InvParts DEF CallSound
    <2>3. call[s].token # NoToken => call[s].token.user \in Users
      BY InvParts DEF ConsoleTypes, Call, Token
    <2>4. caller \in Users \cup {NoUser}
      BY <2>2, <2>3
    <2> HIDE DEF caller
    <2>5. key \in BucketKeys
      BY <2>2, <2>4, KeyAssumption
    <2> HIDE DEF key
    <2> QED
      BY <2>1, <2>2, <2>5 DEF LimiterNext
  <1>5. CASE Restart
    BY <1>5 DEF Restart, LimiterNext
  <1>6. CASE Elsewhere
    BY <1>6 DEF Elsewhere, limiterVars
  <1>7. CASE Tick
    BY <1>7 DEF Tick, LimiterNext
  <1>8. CASE UNCHANGED vars
    BY <1>8 DEF vars, limiterVars
  <1> QED
    BY <1>1, <1>2, <1>3, <1>4, <1>5, <1>6, <1>7, <1>8 DEF Next, Serve

-----------------------------------------------------------------------------
(* Rows, pages and requests *)

\* A move of a scenario makes a copy that what people know of it still holds of.
LEMMA MovedCopy ==
    ASSUME NEW id \in Ids, NEW row, Copy(id, row), NEW to \in ScenarioStates, NEW user \in Users,
           CanTransitionScenario(row.state, to)
    PROVE  Copy(id, Moved(row, to, user))
  <1>1. /\ row \in Row /\ row.state \in ScenarioStates /\ row.creator \in Users
        /\ row.verifier \in Users \cup {NoUser} /\ row.result \in BOOLEAN
    BY DEF Copy, Row
  <1>2. Moved(row, to, user) \in Row
    BY <1>1 DEF Moved, Row
  <1>3. /\ Moved(row, to, user).state = to /\ Moved(row, to, user).creator = row.creator
        /\ Moved(row, to, user).result = (row.result \/ to = "simulated")
        /\ Moved(row, to, user).verifier = IF to = "verified" THEN user ELSE row.verifier
    BY <1>1 DEF Moved, Row
  <1>4. row.state # "verified" /\ (to # "simulated" => row.state # "draft")
    BY DEF CanTransitionScenario, ScenarioMoves
  <1> QED
    BY <1>2, <1>3, <1>4 DEF Copy, WellFormed

LEMMA FreeIsSound == Free \in Call /\ CallSound(Free) /\ Free.stage = "free"
  BY DEF Free, Call, NoRows, ScenarioStates, CallSound

LEMMA SentRequest ==
    ASSUME ConsoleInv, NEW t \in Tabs, NEW request \in Call
    PROVE  LET sent == [request EXCEPT !.tab = t, !.token = token, !.stage = "sent"] IN
           /\ sent \in Call /\ sent.tab = t /\ sent.stage = "sent"
           /\ sent.for = request.for /\ sent.op = request.op /\ sent.user = request.user
           /\ sent.id = request.id /\ sent.to = request.to /\ sent.row = request.row
           /\ sent.rows = request.rows /\ sent.status = request.status
  <1> DEFINE a == [request EXCEPT !.tab = t]
             b == [a EXCEPT !.token = token]
             c == [b EXCEPT !.stage = "sent"]
  <1>1. /\ a \in Call /\ a.tab = t
        /\ a.for = request.for /\ a.op = request.op /\ a.user = request.user
        /\ a.id = request.id /\ a.to = request.to /\ a.row = request.row /\ a.rows = request.rows
        /\ a.status = request.status
    BY DEF Call
  <1>2. [request EXCEPT !.tab = t, !.token = token, !.stage = "sent"] = c
    OBVIOUS
  <1>3. token \in Token \cup {NoToken}
    BY InvParts DEF ConsoleTypes
  <1> HIDE DEF a
  <1>4. /\ b \in Call /\ b.tab = a.tab
        /\ b.for = a.for /\ b.op = a.op /\ b.user = a.user
        /\ b.id = a.id /\ b.to = a.to /\ b.row = a.row /\ b.rows = a.rows
        /\ b.status = a.status
    BY <1>1, <1>3 DEF Call
  <1> HIDE DEF b
  <1>5. /\ c \in Call /\ c.tab = b.tab /\ c.stage = "sent"
        /\ c.for = b.for /\ c.op = b.op /\ c.user = b.user
        /\ c.id = b.id /\ c.to = b.to /\ c.row = b.row /\ c.rows = b.rows
        /\ c.status = b.status
    BY <1>4 DEF Call
  <1> HIDE DEF c
  <1> QED
    BY <1>1, <1>2, <1>4, <1>5

\* A request sent with the token of the moment.
LEMMA SendKeeps ==
    ASSUME ConsoleInv, NEW t \in Tabs, NEW request \in Call, Send(t, request),
           CallSound([request EXCEPT !.tab = t, !.token = token, !.stage = "sent"])
    PROVE  /\ call' \in [Slots -> Call]
           /\ \A s \in Slots : CallSound(call'[s])
           /\ \A s \in Slots : call'[s].stage = "timed" => call'[s] = call[s]
  <1> DEFINE slot == CHOOSE s \in Slots : call[s] = Free
             sent == [request EXCEPT !.tab = t, !.token = token, !.stage = "sent"]
  <1>1. slot \in Slots
    BY DEF Send
  <1>2. sent \in Call /\ sent.stage = "sent"
    BY SentRequest
  <1>3. call' = [call EXCEPT ![slot] = sent]
    BY DEF Send
  <1> HIDE DEF slot, sent
  <1>4. call \in [Slots -> Call]
    BY InvParts DEF ConsoleTypes
  <1>5. \A s \in Slots : call'[s] = IF s = slot THEN sent ELSE call[s]
    BY <1>3, <1>4
  <1>6. CallSound(sent)
    BY DEF sent
  <1> QED
    BY <1>1, <1>2, <1>3, <1>4, <1>5, <1>6, InvParts

\* Leaving a page changes only who waits for its requests.
LEMMA LeftKeeps ==
    ASSUME NEW calls \in [Slots -> Call], \A s \in Slots : CallSound(calls[s]), NEW t \in Tabs
    PROVE  /\ Left(calls, t) \in [Slots -> Call]
           /\ \A s \in Slots : CallSound(Left(calls, t)[s])
           /\ \A s \in Slots : Left(calls, t)[s].stage = calls[s].stage /\ Left(calls, t)[s].at = calls[s].at
  <1>1. ASSUME NEW s \in Slots
        PROVE  /\ Left(calls, t)[s] \in Call
               /\ CallSound(Left(calls, t)[s])
               /\ Left(calls, t)[s].stage = calls[s].stage /\ Left(calls, t)[s].at = calls[s].at
    <2>1. CASE calls[s].tab = t /\ calls[s].for = "page"
      <3>1. Left(calls, t)[s] = [calls[s] EXCEPT !.for = "store"]
        BY <2>1 DEF Left
      <3> DEFINE c == calls[s]
                 d == [c EXCEPT !.for = "store"]
      <3>2. c \in Call /\ CallSound(c)
        OBVIOUS
      <3> HIDE DEF c
      <3>3. /\ d \in Call /\ d.stage = c.stage /\ d.at = c.at /\ d.tab = c.tab /\ d.op = c.op
            /\ d.user = c.user /\ d.id = c.id /\ d.to = c.to /\ d.row = c.row /\ d.token = c.token
            /\ d.status = c.status /\ d.rows = c.rows /\ d.for = "store"
        BY <3>2 DEF Call
      <3> HIDE DEF d
      <3>4. CallSound(d)
        BY <3>2, <3>3 DEF CallSound
      <3> QED
        BY <3>1, <3>3, <3>4 DEF c, d
    <2>2. CASE ~(calls[s].tab = t /\ calls[s].for = "page")
      BY <2>2 DEF Left
    <2> QED
      BY <2>1, <2>2
  <1>2. Left(calls, t) = [s \in Slots |-> Left(calls, t)[s]]
    BY DEF Left
  <1> QED
    BY <1>1, <1>2

LEMMA ClosedKeeps ==
    ASSUME NEW p \in Page, PageSound(p), NEW user \in Users \cup {NoUser}
    PROVE  /\ Closed(p) \in Page /\ PageSound(Closed(p))
           /\ [Closed(p) EXCEPT !.user = user] \in Page
           /\ PageSound([Closed(p) EXCEPT !.user = user])
  <1> DEFINE q == Closed(p)
             r == [q EXCEPT !.user = user]
  <1>1. q \in Page /\ q.items = p.items /\ q.active = p.active /\ q.row = p.row
    BY DEF Closed, Page
  <1> HIDE DEF q
  <1>2. r \in Page /\ r.items = p.items /\ r.active = p.active /\ r.row = p.row
    BY <1>1 DEF Page
  <1> HIDE DEF r
  <1>3. PageSound(q) /\ PageSound(r)
    BY <1>1, <1>2 DEF PageSound
  <1> QED
    BY <1>1, <1>2, <1>3 DEF q, r

\* An answer, or a request nobody waits for that ends.
LEMMA AnswerKeeps ==
    ASSUME ConsoleInv, NEW s \in Slots, call[s].stage # "free",
           NEW status \in {"ok", "unauthorized", "failed"}, NEW record \in Call,
           Answer(s, status, record),
           record.tab = call[s].tab, record.for = call[s].for, record.op = call[s].op,
           record.user = call[s].user, record.id = call[s].id, record.to = call[s].to,
           record.row = call[s].row,
           \A id \in Ids : CopyOrNone(id, record.rows[id]),
           status = "ok" /\ record.op \in Changes => record.rows[record.id] # NoRow
    PROVE  /\ call' \in [Slots -> Call]
           /\ \A v \in Slots : CallSound(call'[v])
           /\ \A v \in Slots : call'[v].stage = "timed" => call'[v] = call[v]
  <1> DEFINE answer == [record EXCEPT !.stage = "answered", !.status = status]
             next == IF call[s].for = "nobody" THEN Free ELSE answer
  <1> DEFINE a == [record EXCEPT !.stage = "answered"]
             b == [a EXCEPT !.status = status]
  <1>1. /\ answer \in Call /\ answer.stage = "answered" /\ answer.status = status
        /\ answer.tab = record.tab /\ answer.for = record.for /\ answer.op = record.op
        /\ answer.user = record.user /\ answer.id = record.id /\ answer.to = record.to
        /\ answer.row = record.row /\ answer.rows = record.rows
    <2>1. /\ a \in Call /\ a.stage = "answered" /\ a.tab = record.tab /\ a.for = record.for
          /\ a.op = record.op /\ a.user = record.user /\ a.id = record.id /\ a.to = record.to
          /\ a.row = record.row /\ a.rows = record.rows
      BY DEF Call
    <2>2. answer = b
      OBVIOUS
    <2> HIDE DEF a, answer
    <2>3. /\ b \in Call /\ b.stage = a.stage /\ b.status = status /\ b.tab = a.tab /\ b.for = a.for
          /\ b.op = a.op /\ b.user = a.user /\ b.id = a.id /\ b.to = a.to
          /\ b.row = a.row /\ b.rows = a.rows
      BY <2>1 DEF Call
    <2> QED
      BY <2>1, <2>2, <2>3
  <1>2. call \in [Slots -> Call] /\ CallSound(call[s])
    BY InvParts DEF ConsoleTypes
  <1>3. call' = [call EXCEPT ![s] = next]
    BY DEF Answer
  <1> HIDE DEF answer
  <1>4. call[s].for # "nobody" => CallSound(answer)
    BY <1>1, <1>2 DEF CallSound
  <1>5. next \in Call /\ CallSound(next) /\ next.stage # "timed"
    BY <1>1, <1>4, FreeIsSound
  <1> HIDE DEF next
  <1>6. \A v \in Slots : call'[v] = IF v = s THEN next ELSE call[v]
    BY <1>2, <1>3
  <1> QED
    BY <1>2, <1>3, <1>5, <1>6, InvParts

LEMMA RefuseKeeps ==
    ASSUME ConsoleInv, NEW s \in Slots, call[s].stage # "free",
           NEW status \in {"unauthorized", "failed"}, Refuse(s, status)
    PROVE  /\ call' \in [Slots -> Call]
           /\ \A v \in Slots : CallSound(call'[v])
           /\ \A v \in Slots : call'[v].stage = "timed" => call'[v] = call[v]
  <1> DEFINE record == [call[s] EXCEPT !.at = 0]
  <1>1. call[s] \in Call /\ CallSound(call[s])
    BY InvParts DEF ConsoleTypes
  <1>2. /\ record \in Call /\ record.tab = call[s].tab /\ record.for = call[s].for
        /\ record.op = call[s].op /\ record.user = call[s].user /\ record.id = call[s].id
        /\ record.to = call[s].to /\ record.row = call[s].row /\ record.rows = call[s].rows
    BY <1>1 DEF Call
  <1>3. Answer(s, status, record)
    BY DEF Refuse
  <1>4. \A id \in Ids : CopyOrNone(id, record.rows[id])
    BY <1>1, <1>2 DEF CallSound
  <1> HIDE DEF record
  <1> QED
    BY <1>2, <1>3, <1>4, AnswerKeeps

-----------------------------------------------------------------------------
(* The console's actions *)

LEMMA PageStep ==
    ASSUME ConsoleInv, NEW t \in Tabs, NEW p \in Page, PageSound(p), page' = [page EXCEPT ![t] = p]
    PROVE  page' \in [Tabs -> Page] /\ \A u \in Tabs : PageSound(page'[u])
  <1>1. page \in [Tabs -> Page]
    BY InvParts DEF ConsoleTypes
  <1>2. \A u \in Tabs : page'[u] = IF u = t THEN p ELSE page[u]
    BY <1>1
  <1> QED
    BY <1>1, <1>2, InvParts

LEMMA PressTypes ==
    ASSUME ConsoleInv, Press \/ Event
    PROVE  budget' \in [presses : 0..MaxPresses, events : 0..MaxEvents]
  BY InvParts, BoundsAssumption DEF ConsoleTypes, Press, Event

\* An action that leaves the limiter and the clock alone.
LEMMA QuietStep ==
    ASSUME ConsoleInv, UNCHANGED <<now, limiter>>, rows' \in [Ids -> Row], token' \in Token \cup {NoToken},
           page' \in [Tabs -> Page], call' \in [Slots -> Call],
           budget' \in [presses : 0..MaxPresses, events : 0..MaxEvents],
           \A id \in Ids : Copy(id, rows'[id]),
           \A t \in Tabs : PageSound(page'[t]),
           \A s \in Slots : CallSound(call'[s]),
           \A s \in Slots : call'[s].stage = "timed" => call[s].stage = "timed" /\ call'[s].at = call[s].at
    PROVE  ConsoleInv'
  <1>1. LimiterTypeOK'
    BY InvParts DEF limiter, LimiterTypeOK
  <1>2. ConsoleTypes'
    BY DEF ConsoleTypes
  <1>3. born' = born /\ now' = now
    BY DEF limiter
  <1>4. \A s \in Slots : call'[s].stage = "timed" => call'[s].at \in born'..now'
    BY <1>3, InvParts
  <1> QED
    BY <1>1, <1>2, <1>4, PartsMakeInv

LEMMA LoginKeepsInv ==
    ASSUME ConsoleInv, NEW t \in Tabs, Login(t)
    PROVE  ConsoleInv'
  <1>1. PICK u \in Users : Send(t, [Free EXCEPT !.for = "store", !.op = "login", !.user = u])
    BY DEF Login
  <1> DEFINE request == [Free EXCEPT !.for = "store", !.op = "login", !.user = u]
             sent == [request EXCEPT !.tab = t, !.token = token, !.stage = "sent"]
             p == [page[t] EXCEPT !.loading = TRUE]
  <1>2. /\ request \in Call /\ request.op = "login" /\ request.user = u /\ request.rows = NoRows
        /\ request.status = "failed"
    BY DEF Free, Call, NoRows, ScenarioStates
  <1> HIDE DEF request
  <1>3. CallSound(sent)
    <2>1. /\ sent.tab = t /\ sent.stage = "sent" /\ sent.op = request.op
          /\ sent.user = request.user /\ sent.rows = request.rows /\ sent.status = "failed"
      BY <1>2, SentRequest
    <2> HIDE DEF sent
    <2> QED
      BY <1>2, <2>1 DEF CallSound, NoRows, CopyOrNone, Changes
  <1> HIDE DEF sent
  <1>4. /\ call' \in [Slots -> Call] /\ \A s \in Slots : CallSound(call'[s])
        /\ \A s \in Slots : call'[s].stage = "timed" => call'[s] = call[s]
    BY <1>1, <1>2, <1>3, SendKeeps DEF request, sent
  <1>5. p \in Page /\ p.items = page[t].items /\ p.active = page[t].active /\ p.row = page[t].row
    BY InvParts DEF ConsoleTypes, Page
  <1>6. page' = [page EXCEPT ![t] = p]
    BY DEF Login
  <1>7. PageSound(p)
    BY <1>5, InvParts DEF PageSound
  <1> HIDE DEF p
  <1>8. page' \in [Tabs -> Page] /\ \A u1 \in Tabs : PageSound(page'[u1])
    BY <1>5, <1>6, <1>7, PageStep
  <1>9. /\ UNCHANGED <<now, limiter>> /\ rows' \in [Ids -> Row] /\ token' \in Token \cup {NoToken}
        /\ \A id \in Ids : Copy(id, rows'[id])
    BY InvParts DEF Login, ConsoleTypes
  <1>10. budget' \in [presses : 0..MaxPresses, events : 0..MaxEvents]
    BY PressTypes DEF Login
  <1> QED
    BY <1>4, <1>8, <1>9, <1>10, QuietStep

\* Logout and Leave.
LEMMA GoingKeepsInv ==
    ASSUME ConsoleInv, NEW t \in Tabs, NEW p \in Page, PageSound(p), Press,
           page' = [page EXCEPT ![t] = p], call' = Left(call, t), token' \in {token, NoToken},
           UNCHANGED <<now, limiter, rows>>
    PROVE  ConsoleInv'
  <1>1. page' \in [Tabs -> Page] /\ \A u \in Tabs : PageSound(page'[u])
    BY PageStep
  <1>2. call \in [Slots -> Call] /\ \A s \in Slots : CallSound(call[s])
    BY InvParts DEF ConsoleTypes
  <1>3. /\ call' \in [Slots -> Call] /\ \A s \in Slots : CallSound(call'[s])
        /\ \A s \in Slots : call'[s].stage = call[s].stage /\ call'[s].at = call[s].at
    BY <1>2, LeftKeeps
  <1>4. /\ rows' \in [Ids -> Row] /\ token' \in Token \cup {NoToken}
        /\ \A id \in Ids : Copy(id, rows'[id])
    BY InvParts DEF ConsoleTypes
  <1>5. budget' \in [presses : 0..MaxPresses, events : 0..MaxEvents]
    BY PressTypes
  <1> QED
    BY <1>1, <1>3, <1>4, <1>5, QuietStep

LEMMA LogoutKeepsInv ==
    ASSUME ConsoleInv, NEW t \in Tabs, Logout(t) \/ Leave(t)
    PROVE  ConsoleInv'
  <1>1. page[t] \in Page /\ PageSound(page[t])
    BY InvParts DEF ConsoleTypes
  <1>2. CASE Logout(t)
    BY <1>1, <1>2, ClosedKeeps, GoingKeepsInv DEF Logout
  <1>3. CASE Leave(t)
    BY <1>1, <1>3, ClosedKeeps, GoingKeepsInv DEF Leave
  <1> QED
    BY <1>2, <1>3

LEMMA FetchKeepsInv ==
    ASSUME ConsoleInv, NEW t \in Tabs, Fetch(t)
    PROVE  ConsoleInv'
  <1> DEFINE request == [Free EXCEPT !.for = "store", !.op = "list"]
             sent == [request EXCEPT !.tab = t, !.token = token, !.stage = "sent"]
             q == [page[t] EXCEPT !.shown = TRUE]
             p == [q EXCEPT !.status = "loading"]
  <1>1. Send(t, request)
    BY DEF Fetch
  <1>2. /\ request \in Call /\ request.op = "list" /\ request.rows = NoRows
        /\ request.status = "failed"
    BY DEF Free, Call, NoRows, ScenarioStates
  <1> HIDE DEF request
  <1>3. CallSound(sent)
    <2>1. /\ sent.tab = t /\ sent.stage = "sent" /\ sent.op = request.op
          /\ sent.user = request.user /\ sent.rows = request.rows /\ sent.status = "failed"
      BY <1>2, SentRequest
    <2> HIDE DEF sent
    <2> QED
      BY <1>2, <2>1 DEF CallSound, NoRows, CopyOrNone, Changes
  <1> HIDE DEF sent
  <1>4. /\ call' \in [Slots -> Call] /\ \A s \in Slots : CallSound(call'[s])
        /\ \A s \in Slots : call'[s].stage = "timed" => call'[s] = call[s]
    BY <1>1, <1>2, <1>3, SendKeeps DEF sent
  <1>5. page' = [page EXCEPT ![t] = p]
    BY InvParts DEF Fetch, ConsoleTypes
  <1>6. q \in Page /\ q.items = page[t].items /\ q.active = page[t].active /\ q.row = page[t].row
    BY InvParts DEF ConsoleTypes, Page
  <1> HIDE DEF q
  <1>7. p \in Page /\ p.items = q.items /\ p.active = q.active /\ p.row = q.row
    BY <1>6 DEF Page
  <1> HIDE DEF p
  <1>8. PageSound(p)
    BY <1>6, <1>7, InvParts DEF PageSound
  <1>9. page' \in [Tabs -> Page] /\ \A u \in Tabs : PageSound(page'[u])
    BY <1>5, <1>7, <1>8, PageStep
  <1>10. /\ UNCHANGED <<now, limiter>> /\ rows' \in [Ids -> Row] /\ token' \in Token \cup {NoToken}
         /\ \A id \in Ids : Copy(id, rows'[id])
    BY InvParts DEF Fetch, ConsoleTypes
  <1>11. budget' \in [presses : 0..MaxPresses, events : 0..MaxEvents]
    BY PressTypes DEF Fetch
  <1> QED
    BY <1>4, <1>9, <1>10, <1>11, QuietStep

LEMMA SelectKeepsInv ==
    ASSUME ConsoleInv, NEW t \in Tabs, Select(t)
    PROVE  ConsoleInv'
  <1>1. PICK id \in Ids :
          /\ page[t].items[id] # NoRow
          /\ page' = [page EXCEPT ![t].active = id, ![t].row = page[t].items[id]]
    BY DEF Select
  <1> DEFINE q == [page[t] EXCEPT !.active = id]
             p == [q EXCEPT !.row = page[t].items[id]]
  <1>2. page[t] \in Page /\ PageSound(page[t]) /\ page \in [Tabs -> Page]
    BY InvParts DEF ConsoleTypes
  <1>3. Copy(id, page[t].items[id]) /\ page[t].items[id] \in Row
    BY <1>1, <1>2 DEF PageSound, CopyOrNone, Copy
  <1>4. page' = [page EXCEPT ![t] = p]
    BY <1>1, <1>2
  <1>5. q \in Page /\ q.items = page[t].items /\ q.active = id
    BY <1>2 DEF Page
  <1> HIDE DEF q
  <1>6. p \in Page /\ p.items = q.items /\ p.active = q.active /\ p.row = page[t].items[id]
    BY <1>3, <1>5 DEF Page
  <1> HIDE DEF p
  <1>7. PageSound(p)
    BY <1>2, <1>3, <1>5, <1>6 DEF PageSound
  <1>8. page' \in [Tabs -> Page] /\ \A u \in Tabs : PageSound(page'[u])
    BY <1>4, <1>6, <1>7, PageStep
  <1> QED
    BY <1>8, InvParts, QuietStep DEF Select, ConsoleTypes

\* The buttons: what is sent is what is shown, and the move its caption says.
LEMMA ButtonKeepsInv ==
    ASSUME ConsoleInv, NEW t \in Tabs, page[t].active # NoId, Press,
           NEW op \in Changes, NEW to \in ScenarioStates,
           Send(t, [Free EXCEPT !.for = "page", !.op = op, !.id = page[t].active,
                                !.to = to, !.row = page[t].row]),
           CanTransitionScenario(page[t].row.state, to), to # "draft", op = "simulate" <=> to = "simulated",
           NEW p \in Page, p.items = page[t].items, p.active = page[t].active, p.row = page[t].row,
           page' = [page EXCEPT ![t] = p], UNCHANGED <<now, limiter, rows, token>>
    PROVE  ConsoleInv'
  <1> DEFINE a == [Free EXCEPT !.for = "page"]
             b == [a EXCEPT !.op = op]
             c == [b EXCEPT !.id = page[t].active]
             d == [c EXCEPT !.to = to]
             request == [d EXCEPT !.row = page[t].row]
             sent == [request EXCEPT !.tab = t, !.token = token, !.stage = "sent"]
  <1>1. page[t] \in Page /\ PageSound(page[t])
    BY InvParts DEF ConsoleTypes
  <1>2. page[t].active \in Ids /\ Copy(page[t].active, page[t].row) /\ page[t].row \in Row
    BY <1>1 DEF Page, PageSound, Copy
  <1>3. Send(t, request)
    OBVIOUS
  <1>4. request \in Call /\ request.op = op /\ request.id = page[t].active /\ request.to = to
        /\ request.row = page[t].row /\ request.rows = NoRows /\ request.status = "failed"
    <2>1. a \in Call /\ a.rows = NoRows /\ a.status = "failed"
      BY FreeIsSound DEF Free, Call
    <2> HIDE DEF a
    <2>2. b \in Call /\ b.rows = NoRows /\ b.status = "failed" /\ b.op = op
      BY <2>1 DEF Call, Changes
    <2> HIDE DEF b
    <2>3. c \in Call /\ c.rows = NoRows /\ c.status = "failed" /\ c.op = op /\ c.id = page[t].active
      BY <2>2, <1>2 DEF Call
    <2> HIDE DEF c
    <2>4. d \in Call /\ d.rows = NoRows /\ d.status = "failed" /\ d.op = op /\ d.id = page[t].active /\ d.to = to
      BY <2>3 DEF Call
    <2> HIDE DEF d
    <2> QED
      BY <2>4, <1>2 DEF Call
  <1> HIDE DEF request
  <1>5. CallSound(sent)
    <2>1. /\ sent.tab = t /\ sent.stage = "sent" /\ sent.op = op /\ sent.id = page[t].active
          /\ sent.to = to /\ sent.row = page[t].row /\ sent.rows = NoRows /\ sent.status = "failed"
      BY <1>4, SentRequest
    <2> HIDE DEF sent
    <2> QED
      BY <1>2, <2>1 DEF CallSound, NoRows, CopyOrNone, Changes
  <1> HIDE DEF sent
  <1>6. /\ call' \in [Slots -> Call] /\ \A s \in Slots : CallSound(call'[s])
        /\ \A s \in Slots : call'[s].stage = "timed" => call'[s] = call[s]
    BY <1>3, <1>4, <1>5, SendKeeps DEF sent
  <1>7. PageSound(p)
    BY <1>1 DEF PageSound
  <1>8. page' \in [Tabs -> Page] /\ \A u \in Tabs : PageSound(page'[u])
    BY <1>7, PageStep
  <1>9. /\ UNCHANGED <<now, limiter>> /\ rows' \in [Ids -> Row] /\ token' \in Token \cup {NoToken}
        /\ \A id \in Ids : Copy(id, rows'[id])
    BY InvParts DEF ConsoleTypes
  <1>10. budget' \in [presses : 0..MaxPresses, events : 0..MaxEvents]
    BY PressTypes
  <1> QED
    BY <1>6, <1>8, <1>9, <1>10, QuietStep

LEMMA SimulateKeepsInv ==
    ASSUME ConsoleInv, NEW t \in Tabs, Simulate(t)
    PROVE  ConsoleInv'
  <1> DEFINE p == [page[t] EXCEPT !.running = page[t].active]
  <1>1. /\ page[t].active # NoId /\ Press /\ page[t].row.state = "draft"
        /\ Send(t, [Free EXCEPT !.for = "page", !.op = "simulate", !.id = page[t].active,
                                !.to = "simulated", !.row = page[t].row])
        /\ UNCHANGED <<now, limiter, rows, token>>
    BY DEF Simulate
  <1>2. page' = [page EXCEPT ![t] = p]
    BY DEF Simulate
  <1>3. p \in Page /\ p.items = page[t].items /\ p.active = page[t].active /\ p.row = page[t].row
    BY InvParts DEF ConsoleTypes, Page
  <1>4. CanTransitionScenario(page[t].row.state, "simulated") /\ "simulated" \in ScenarioStates
    BY <1>1 DEF CanTransitionScenario, ScenarioMoves, ScenarioStates
  <1> HIDE DEF p
  <1> QED
    BY <1>1, <1>2, <1>3, <1>4, ButtonKeepsInv DEF Changes

LEMMA TransitionKeepsInv ==
    ASSUME ConsoleInv, NEW t \in Tabs, Transition(t)
    PROVE  ConsoleInv'
  <1> DEFINE p == [page[t] EXCEPT !.busy = TRUE]
  <1>1. /\ page[t].active # NoId /\ Press /\ UNCHANGED <<now, limiter, rows, token>>
        /\ page' = [page EXCEPT ![t] = p]
    BY DEF Transition
  <1>2. PICK to \in Offered(t) :
          Send(t, [Free EXCEPT !.for = "page", !.op = "transition", !.id = page[t].active,
                               !.to = to, !.row = page[t].row])
    BY DEF Transition
  <1>3. p \in Page /\ p.items = page[t].items /\ p.active = page[t].active /\ p.row = page[t].row
    BY InvParts DEF ConsoleTypes, Page
  <1>4. /\ CanTransitionScenario(page[t].row.state, to) /\ to \in ScenarioStates
        /\ to # "draft" /\ to # "simulated"
    BY DEF Offered, CanTransitionScenario, ScenarioMoves, ScenarioStates
  <1> HIDE DEF p
  <1> QED
    BY <1>1, <1>2, <1>3, <1>4, ButtonKeepsInv DEF Changes

-----------------------------------------------------------------------------
(* Answers *)

LEMMA MergedKeeps ==
    ASSUME NEW p \in Page, PageSound(p), NEW id \in Ids, NEW row, Copy(id, row)
    PROVE  Merged(p, id, row) \in Page /\ PageSound(Merged(p, id, row))
  <1> DEFINE item == IF p.items[id] = NoRow THEN NoRow ELSE row
             items == [p.items EXCEPT ![id] = item]
             a == [p EXCEPT !.active = id]
             b == [a EXCEPT !.row = row]
             c == [b EXCEPT !.items = items]
  <1>1. row \in Row /\ p.items \in [Ids -> Row \cup {NoRow}]
    BY DEF Copy, Page
  <1>2. items \in [Ids -> Row \cup {NoRow}] /\ \A i \in Ids : CopyOrNone(i, items[i])
    BY <1>1 DEF PageSound, CopyOrNone
  <1>3. a \in Page /\ a.active = id /\ a.items = p.items
    BY DEF Page
  <1> HIDE DEF a
  <1>4. b \in Page /\ b.active = id /\ b.row = row /\ b.items = p.items
    BY <1>1, <1>3 DEF Page
  <1>5. Merged(p, id, row) = [b EXCEPT !.items[id] = item]
    BY DEF Merged, a
  <1>6. [b EXCEPT !.items[id] = item] = c
    BY <1>4
  <1> HIDE DEF b, items
  <1>7. c \in Page /\ c.active = id /\ c.row = row /\ c.items = items
    BY <1>2, <1>4 DEF Page
  <1> HIDE DEF c
  <1> QED
    BY <1>2, <1>5, <1>6, <1>7 DEF PageSound

LEMMA TakenKeeps ==
    ASSUME NEW p \in Page, PageSound(p), NEW c \in Call, CallSound(c), c.stage # "free",
           NEW status \in {"ok", "unauthorized", "failed"},
           status = "ok" => c.stage = "answered" /\ c.status = "ok"
    PROVE  Taken(p, c, status) \in Page /\ PageSound(Taken(p, c, status))
  <1>1. CASE c.op = "login"
    <2> DEFINE user == IF status = "ok" THEN c.user ELSE p.user
               a == [p EXCEPT !.loading = FALSE]
               b == [a EXCEPT !.user = user]
    <2>1. user \in Users \cup {NoUser}
      BY DEF Call, Page
    <2>2. Taken(p, c, status) = b
      BY <1>1 DEF Taken
    <2> HIDE DEF user
    <2>3. a \in Page /\ a.items = p.items /\ a.active = p.active /\ a.row = p.row
      BY DEF Page
    <2> HIDE DEF a
    <2>4. b \in Page /\ b.items = p.items /\ b.active = p.active /\ b.row = p.row
      BY <2>1, <2>3 DEF Page
    <2> HIDE DEF b
    <2> QED
      BY <2>2, <2>4 DEF PageSound
  <1>2. CASE c.op = "list" /\ status = "ok"
    <2> DEFINE a == [p EXCEPT !.status = "ready"]
               b == [a EXCEPT !.items = c.rows]
    <2>1. c.rows \in [Ids -> Row \cup {NoRow}]
      BY DEF Call
    <2>2. Taken(p, c, status) = b
      BY <1>2 DEF Taken
    <2>3. a \in Page /\ a.active = p.active /\ a.row = p.row
      BY DEF Page
    <2> HIDE DEF a
    <2>4. b \in Page /\ b.items = c.rows /\ b.active = p.active /\ b.row = p.row
      BY <2>1, <2>3 DEF Page
    <2> HIDE DEF b
    <2> QED
      BY <2>2, <2>4 DEF PageSound, CallSound
  <1>3. CASE c.op = "list" /\ status # "ok"
    <2> DEFINE a == [p EXCEPT !.status = "error"]
    <2>1. Taken(p, c, status) = a
      BY <1>3 DEF Taken
    <2>2. a \in Page /\ a.items = p.items /\ a.active = p.active /\ a.row = p.row
      BY DEF Page
    <2> HIDE DEF a
    <2> QED
      BY <2>1, <2>2 DEF PageSound
  <1>4. CASE c.op \notin {"login", "list"}
    <2>1. c.op \in Changes
      BY <1>4 DEF Call, CallSound, Changes
    <2>2. Taken(p, c, status) = IF status = "ok" THEN Merged(p, c.id, c.rows[c.id]) ELSE p
      BY <1>4 DEF Taken
    <2>3. status = "ok" => c.id \in Ids /\ Copy(c.id, c.rows[c.id])
      BY <2>1 DEF CallSound, CopyOrNone
    <2> QED
      BY <2>2, <2>3, MergedKeeps
  <1> QED
    BY <1>1, <1>2, <1>3, <1>4

LEMMA ReleasedKeeps ==
    ASSUME NEW p \in Page, PageSound(p), NEW c, NEW status
    PROVE  Released(p, c, status) \in Page /\ PageSound(Released(p, c, status))
  <1> DEFINE a == [p EXCEPT !.running = NoId]
             b == [p EXCEPT !.busy = FALSE]
  <1>1. /\ a \in Page /\ a.items = p.items /\ a.active = p.active /\ a.row = p.row
        /\ b \in Page /\ b.items = p.items /\ b.active = p.active /\ b.row = p.row
    BY DEF Page
  <1>2. Released(p, c, status) \in {p, a, b}
    BY DEF Released
  <1> HIDE DEF a, b
  <1>3. PageSound(a) /\ PageSound(b)
    BY <1>1 DEF PageSound
  <1> QED
    BY <1>1, <1>2, <1>3

LEMMA SettleKeepsInv ==
    ASSUME ConsoleInv, NEW s \in Slots, call[s].stage # "free",
           NEW status \in {"ok", "unauthorized", "failed"},
           status = "ok" => call[s].stage = "answered" /\ call[s].status = "ok",
           NEW remains \in Call, CallSound(remains),
           remains.stage = "timed" => call[s].stage = "timed" /\ remains.at = call[s].at,
           Settle(s, status, remains), UNCHANGED <<now, limiter, rows, budget>>
    PROVE  ConsoleInv'
  <1> DEFINE c == call[s]
             p == Released(Taken(page[c.tab], c, status), c, status)
             calls == [call EXCEPT ![s] = remains]
  <1>1. c \in Call /\ CallSound(c) /\ call \in [Slots -> Call] /\ c.tab \in Tabs
    BY InvParts DEF ConsoleTypes, CallSound
  <1>2. page[c.tab] \in Page /\ PageSound(page[c.tab])
    BY <1>1, InvParts DEF ConsoleTypes
  <1>3. p \in Page /\ PageSound(p)
    BY <1>1, <1>2, TakenKeeps, ReleasedKeeps
  <1>4. \A v \in Slots : calls[v] = IF v = s THEN remains ELSE call[v]
    BY <1>1
  <1>5. /\ calls \in [Slots -> Call] /\ \A v \in Slots : CallSound(calls[v])
        /\ \A v \in Slots : calls[v].stage = "timed" => call[v].stage = "timed" /\ calls[v].at = call[v].at
    BY <1>1, <1>4, InvParts
  <1>6. c.token \in Token \cup {NoToken} /\ token \in Token \cup {NoToken}
    BY <1>1, InvParts DEF Call, ConsoleTypes
  <1>7. /\ rows' \in [Ids -> Row] /\ \A id \in Ids : Copy(id, rows'[id])
        /\ budget' \in [presses : 0..MaxPresses, events : 0..MaxEvents]
    BY InvParts DEF ConsoleTypes
  <1>8. CASE status = "unauthorized"
    <2> DEFINE q == [Closed(p) EXCEPT !.user = NoUser]
    <2>1. token' = NoToken /\ page' = [page EXCEPT ![c.tab] = q] /\ call' = Left(calls, c.tab)
      BY <1>8 DEF Settle
    <2> HIDE DEF p
    <2>2. q \in Page /\ PageSound(q)
      BY <1>3, ClosedKeeps
    <2> HIDE DEF q, calls
    <2>3. page' \in [Tabs -> Page] /\ \A t \in Tabs : PageSound(page'[t])
      BY <1>1, <2>1, <2>2, PageStep
    <2>4. /\ call' \in [Slots -> Call] /\ \A v \in Slots : CallSound(call'[v])
          /\ \A v \in Slots : call'[v].stage = calls[v].stage /\ call'[v].at = calls[v].at
      BY <1>1, <1>5, <2>1, LeftKeeps
    <2> HIDE DEF c
    <2>5. \A v \in Slots : call'[v].stage = "timed" => call[v].stage = "timed" /\ call'[v].at = call[v].at
      BY <1>5, <2>4
    <2> QED
      BY <1>6, <1>7, <2>1, <2>3, <2>4, <2>5, QuietStep
  <1>9. CASE status # "unauthorized"
    <2>1. /\ token' = IF c.op = "login" /\ status = "ok" THEN c.token ELSE token
          /\ page' = [page EXCEPT ![c.tab] = p] /\ call' = calls
      BY <1>9 DEF Settle
    <2> HIDE DEF p, calls
    <2>2. page' \in [Tabs -> Page] /\ \A t \in Tabs : PageSound(page'[t])
      BY <1>1, <1>3, <2>1, PageStep
    <2>3. token' \in Token \cup {NoToken}
      BY <1>6, <2>1
    <2> HIDE DEF c
    <2> QED
      BY <1>5, <1>7, <2>1, <2>2, <2>3, QuietStep
  <1> QED
    BY <1>8, <1>9

LEMMA DeliverKeepsInv ==
    ASSUME ConsoleInv, NEW s \in Slots, Deliver(s)
    PROVE  ConsoleInv'
  <1>1. call[s].status \in {"ok", "unauthorized", "failed"}
    BY InvParts DEF ConsoleTypes, Call
  <1> QED
    BY <1>1, FreeIsSound, SettleKeepsInv DEF Deliver

LEMMA LoseKeepsInv ==
    ASSUME ConsoleInv, NEW s \in Slots, Lose(s)
    PROVE  ConsoleInv'
  <1> DEFINE c == call[s]
             d == [c EXCEPT !.for = "nobody"]
  <1>1. PICK remains \in {Free} \cup {d} :
          /\ c.stage = "answered" => remains = Free
          /\ Settle(s, "failed", remains)
    BY DEF Lose
  <1>2. c.stage # "free" /\ UNCHANGED <<now, limiter, rows, budget>>
    BY DEF Lose
  <1>3. c \in Call /\ CallSound(c)
    BY InvParts DEF ConsoleTypes
  <1>4. /\ d \in Call /\ d.stage = c.stage /\ d.at = c.at /\ d.tab = c.tab /\ d.op = c.op
        /\ d.user = c.user /\ d.id = c.id /\ d.to = c.to /\ d.row = c.row /\ d.token = c.token
        /\ d.status = c.status /\ d.rows = c.rows
    BY <1>3 DEF Call
  <1> HIDE DEF d
  <1>5. c.stage # "answered" => CallSound(d)
    BY <1>3, <1>4 DEF CallSound
  <1>6. /\ remains \in Call /\ CallSound(remains)
        /\ remains.stage = "timed" => c.stage = "timed" /\ remains.at = c.at
    BY <1>1, <1>4, <1>5, FreeIsSound
  <1> QED
    BY <1>1, <1>2, <1>6, SettleKeepsInv

-----------------------------------------------------------------------------
(* The backend *)

\* A step of the backend that only moves a request on.
LEMMA CallStep ==
    ASSUME ConsoleInv, UNCHANGED <<now, limiter, rows, token, page, budget>>,
           call' \in [Slots -> Call], \A s \in Slots : CallSound(call'[s]),
           \A s \in Slots : call'[s].stage = "timed" => call[s].stage = "timed" /\ call'[s].at = call[s].at
    PROVE  ConsoleInv'
  <1>1. /\ rows' \in [Ids -> Row] /\ token' \in Token \cup {NoToken} /\ page' \in [Tabs -> Page]
        /\ budget' \in [presses : 0..MaxPresses, events : 0..MaxEvents]
        /\ \A id \in Ids : Copy(id, rows'[id])
        /\ \A t \in Tabs : PageSound(page'[t])
    BY InvParts DEF ConsoleTypes
  <1> QED
    BY <1>1, QuietStep

LEMMA RefusalKeepsInv ==
    ASSUME ConsoleInv, NEW s \in Slots, call[s].stage # "free",
           NEW status \in {"unauthorized", "failed"}, Refuse(s, status),
           UNCHANGED <<now, limiter, rows, token, page, budget>>
    PROVE  ConsoleInv'
  BY RefuseKeeps, CallStep

\* The request that passed a check, at its next stage.
LEMMA NextStage ==
    ASSUME ConsoleInv, NEW s \in Slots, call[s].stage \in {"sent", "timed"},
           NEW stage \in {"timed", "admitted"}, NEW at \in Nat,
           stage = "timed" => call[s].op \in {"login", "simulate"},
           call[s].op # "login" => call[s].token # NoToken,
           call' = [call EXCEPT ![s] = [call[s] EXCEPT !.stage = stage, !.at = at]]
    PROVE  /\ call' \in [Slots -> Call]
           /\ \A v \in Slots : CallSound(call'[v])
           /\ call'[s].stage = stage /\ call'[s].at = at
           /\ \A v \in Slots \ {s} : call'[v] = call[v]
  <1> DEFINE c == call[s]
             a == [c EXCEPT !.stage = stage]
             d == [a EXCEPT !.at = at]
  <1>1. c \in Call /\ CallSound(c) /\ call \in [Slots -> Call]
    BY InvParts DEF ConsoleTypes
  <1>2. call' = [call EXCEPT ![s] = d]
    OBVIOUS
  <1>3. c.stage \in {"sent", "timed"} /\ (stage = "timed" => c.op \in {"login", "simulate"})
        /\ (c.op # "login" => c.token # NoToken)
    OBVIOUS
  <1> HIDE DEF c
  <1>4. /\ a \in Call /\ a.stage = stage /\ a.tab = c.tab /\ a.for = c.for /\ a.op = c.op /\ a.user = c.user
        /\ a.id = c.id /\ a.to = c.to /\ a.row = c.row /\ a.token = c.token /\ a.rows = c.rows /\ a.status = c.status
    BY <1>1 DEF Call
  <1> HIDE DEF a
  <1>5. /\ d \in Call /\ d.stage = stage /\ d.at = at /\ d.tab = c.tab /\ d.for = c.for /\ d.op = c.op
        /\ d.user = c.user /\ d.id = c.id /\ d.to = c.to /\ d.row = c.row /\ d.token = c.token /\ d.rows = c.rows /\ d.status = c.status
    BY <1>4 DEF Call
  <1> HIDE DEF d
  <1>6. CallSound(d)
    BY <1>1, <1>3, <1>5 DEF CallSound
  <1>7. \A v \in Slots : call'[v] = IF v = s THEN d ELSE call[v]
    BY <1>1, <1>2
  <1> QED
    BY <1>1, <1>2, <1>5, <1>6, <1>7, InvParts

LEMMA AdmitKeepsInv ==
    ASSUME ConsoleInv, NEW s \in Slots, Admit(s)
    PROVE  ConsoleInv'
  <1> DEFINE c == call[s]
  <1>1. c.stage = "sent" /\ UNCHANGED <<now, limiter, rows, token, page, budget>> /\ c \in Call
    BY InvParts DEF Admit, ConsoleTypes
  <1>2. CASE Refuse(s, "unauthorized") \/ Refuse(s, "failed")
    BY <1>1, <1>2, RefusalKeepsInv
  <1>3. CASE ~(Refuse(s, "unauthorized") \/ Refuse(s, "failed"))
    <2>1. c.op # "login" => c.token # NoToken
      BY <1>3 DEF Admit, Valid
    <2>2. now \in Nat /\ born \in 0..now
      BY InvParts DEF LimiterTypeOK
    <2>3. CASE c.op \in {"login", "simulate"}
      <3>1. call' = [call EXCEPT ![s] = [call[s] EXCEPT !.stage = "timed", !.at = now]]
        BY <1>3, <2>3 DEF Admit
      <3>2. /\ call' \in [Slots -> Call] /\ \A v \in Slots : CallSound(call'[v])
            /\ call'[s].at = now /\ \A v \in Slots \ {s} : call'[v] = call[v]
        BY <1>1, <2>1, <2>2, <2>3, <3>1, NextStage
      <3>3. born' = born /\ now' = now
        BY <1>1 DEF limiter
      <3>4. \A v \in Slots : call'[v].stage = "timed" => call'[v].at \in born'..now'
        BY <2>2, <3>2, <3>3, InvParts
      <3>5. LimiterTypeOK' /\ ConsoleTypes' /\ (\A id \in Ids : Copy(id, rows'[id]))
            /\ \A t \in Tabs : PageSound(page'[t])
        BY <1>1, <3>2, InvParts DEF ConsoleTypes, LimiterTypeOK, limiter
      <3> QED
        BY <3>2, <3>4, <3>5, PartsMakeInv
    <2>4. CASE c.op \notin {"login", "simulate"}
      <3>1. call' = [call EXCEPT ![s] = [c EXCEPT !.stage = "admitted"]]
        BY <1>3, <2>4 DEF Admit
      <3>2. [c EXCEPT !.stage = "admitted"] = [c EXCEPT !.stage = "admitted", !.at = c.at] /\ c.at \in Nat
        BY <1>1 DEF Call
      <3>3. call' = [call EXCEPT ![s] = [call[s] EXCEPT !.stage = "admitted", !.at = c.at]]
        BY <3>1, <3>2
      <3> HIDE DEF c
      <3>4. /\ call' \in [Slots -> Call] /\ \A v \in Slots : CallSound(call'[v])
            /\ call'[s].stage = "admitted" /\ \A v \in Slots \ {s} : call'[v] = call[v]
        BY <1>1, <2>1, <3>2, <3>3, NextStage DEF c
      <3> QED
        BY <1>1, <3>4, CallStep
    <2> QED
      BY <2>3, <2>4
  <1> QED
    BY <1>2, <1>3

LEMMA LimitRateKeepsInv ==
    ASSUME ConsoleInv, NEW s \in Slots, LimitRate(s), LimiterTypeOK'
    PROVE  ConsoleInv'
  <1>1. /\ call[s].stage = "timed" /\ UNCHANGED <<now, rows, token, page, budget>>
        /\ UNCHANGED born
        /\ \/ Refuse(s, "failed")
           \/ call' = [call EXCEPT ![s].stage = "admitted", ![s].at = 0]
    BY DEF LimitRate, Count
  <1>2. /\ call' \in [Slots -> Call] /\ \A v \in Slots : CallSound(call'[v])
        /\ \A v \in Slots : call'[v].stage = "timed" => call'[v] = call[v]
    <2>1. CASE Refuse(s, "failed")
      BY <1>1, <2>1, RefuseKeeps
    <2>2. CASE call' = [call EXCEPT ![s].stage = "admitted", ![s].at = 0]
      <3>1. call \in [Slots -> Call] /\ CallSound(call[s])
        BY InvParts DEF ConsoleTypes
      <3>2. call' = [call EXCEPT ![s] = [call[s] EXCEPT !.stage = "admitted", !.at = 0]]
        BY <2>2, <3>1
      <3>3. call[s].op # "login" => call[s].token # NoToken
        BY <1>1, <3>1 DEF CallSound
      <3> QED
        BY <1>1, <3>2, <3>3, NextStage
    <2> QED
      BY <1>1, <2>1, <2>2
  <1>3. \A v \in Slots : call'[v].stage = "timed" => call'[v].at \in born'..now'
    BY <1>1, <1>2, InvParts
  <1>4. ConsoleTypes' /\ (\A id \in Ids : Copy(id, rows'[id])) /\ \A t \in Tabs : PageSound(page'[t])
    BY <1>1, <1>2, InvParts DEF ConsoleTypes
  <1> QED
    BY <1>2, <1>3, <1>4, PartsMakeInv

LEMMA ServeLoginKeepsInv ==
    ASSUME ConsoleInv, NEW s \in Slots, ServeLogin(s)
    PROVE  ConsoleInv'
  <1> DEFINE c == call[s]
             fresh == [user |-> c.user, expires |-> now + Lifetime]
             record == [c EXCEPT !.token = fresh]
  <1>1. c.stage = "admitted" /\ c.op = "login" /\ UNCHANGED <<now, limiter, rows, token, page, budget>>
    BY DEF ServeLogin
  <1>2. CASE Refuse(s, "unauthorized")
    BY <1>1, <1>2, RefusalKeepsInv
  <1>3. CASE Answer(s, "ok", record)
    <2>1. c \in Call /\ CallSound(c) /\ now \in Nat
      BY InvParts DEF ConsoleTypes, LimiterTypeOK
    <2>2. fresh \in Token
      BY <1>1, <2>1, SessionAssumption DEF CallSound, Token
    <2> HIDE DEF fresh
    <2>3. /\ record \in Call /\ record.tab = c.tab /\ record.for = c.for /\ record.op = c.op
          /\ record.user = c.user /\ record.id = c.id /\ record.to = c.to /\ record.row = c.row
          /\ record.rows = c.rows
      BY <2>1, <2>2 DEF Call
    <2>4. \A id \in Ids : CopyOrNone(id, record.rows[id])
      BY <1>1, <2>1, <2>3 DEF CallSound
    <2>5. record.op \notin Changes
      BY <1>1, <2>3 DEF Changes
    <2> HIDE DEF record
    <2>6. /\ call' \in [Slots -> Call] /\ \A v \in Slots : CallSound(call'[v])
          /\ \A v \in Slots : call'[v].stage = "timed" => call'[v] = call[v]
      BY <1>1, <1>3, <2>3, <2>4, <2>5, AnswerKeeps
    <2> QED
      BY <1>1, <2>6, CallStep
  <1> QED
    BY <1>2, <1>3 DEF ServeLogin

LEMMA ServeListKeepsInv ==
    ASSUME ConsoleInv, NEW s \in Slots, ServeList(s)
    PROVE  ConsoleInv'
  <1> DEFINE c == call[s]
             record == [c EXCEPT !.rows = rows]
  <1>1. /\ c.stage = "admitted" /\ c.op = "list" /\ UNCHANGED <<now, limiter, rows, token, page, budget>>
        /\ Answer(s, "ok", record)
    BY DEF ServeList
  <1>2. c \in Call /\ rows \in [Ids -> Row] /\ \A id \in Ids : Copy(id, rows[id])
    BY InvParts DEF ConsoleTypes
  <1>3. /\ record \in Call /\ record.tab = c.tab /\ record.for = c.for /\ record.op = c.op
        /\ record.user = c.user /\ record.id = c.id /\ record.to = c.to /\ record.row = c.row
        /\ record.rows = rows
    BY <1>2 DEF Call
  <1>4. (\A id \in Ids : CopyOrNone(id, record.rows[id])) /\ record.op \notin Changes
    BY <1>1, <1>2, <1>3 DEF CopyOrNone, Changes
  <1> HIDE DEF record
  <1>5. /\ call' \in [Slots -> Call] /\ \A v \in Slots : CallSound(call'[v])
        /\ \A v \in Slots : call'[v].stage = "timed" => call'[v] = call[v]
    BY <1>1, <1>3, <1>4, AnswerKeeps
  <1> QED
    BY <1>1, <1>5, CallStep

\* Who asks for a change, of what, and to which state.
LEMMA ChangeAsked ==
    ASSUME ConsoleInv, NEW s \in Slots, call[s].stage = "admitted", call[s].op \in Changes
    PROVE  /\ call[s] \in Call /\ CallSound(call[s])
           /\ call[s].id \in Ids /\ call[s].to \in ScenarioStates /\ call[s].token.user \in Users
           /\ Copy(call[s].id, rows[call[s].id]) /\ Copy(call[s].id, call[s].row)
           /\ CanTransitionScenario(call[s].row.state, call[s].to) /\ call[s].to # "draft"
           /\ call[s].op = "simulate" <=> call[s].to = "simulated"
  <1>1. call[s] \in Call /\ CallSound(call[s])
    BY InvParts DEF ConsoleTypes
  <1>2. call[s].id \in Ids /\ call[s].token # NoToken
    BY <1>1 DEF CallSound, Changes
  <1>3. call[s].token.user \in Users
    BY <1>1, <1>2 DEF Call, Token
  <1> QED
    BY <1>1, <1>2, <1>3, InvParts DEF Call, CallSound

LEMMA ServeChangeKeepsInv ==
    ASSUME ConsoleInv, NEW s \in Slots, ServeChange(s)
    PROVE  ConsoleInv'
  <1> DEFINE c == call[s]
             row == Moved(rows[c.id], c.to, c.token.user)
             answered == [c.rows EXCEPT ![c.id] = row]
             record == [c EXCEPT !.rows = answered]
  <1>1. /\ c.stage = "admitted" /\ c.op \in Changes /\ Accepted(s)
        /\ rows' = [rows EXCEPT ![c.id] = row] /\ Answer(s, "ok", [c EXCEPT !.rows[c.id] = row])
        /\ UNCHANGED <<now, limiter, token, page, budget>>
    BY DEF ServeChange, Changes
  <1>2. /\ c \in Call /\ CallSound(c) /\ c.id \in Ids /\ c.to \in ScenarioStates /\ c.token.user \in Users
        /\ Copy(c.id, rows[c.id])
    BY <1>1, ChangeAsked
  <1>3. CanTransitionScenario(rows[c.id].state, c.to)
    BY <1>1 DEF Accepted, Accepts
  <1>4. Copy(c.id, row) /\ row \in Row /\ row # NoRow
    BY <1>2, <1>3, MovedCopy, NoneAssumption DEF Copy
  <1> HIDE DEF row
  <1>5. c.rows \in [Ids -> Row \cup {NoRow}] /\ \A id \in Ids : CopyOrNone(id, c.rows[id])
    BY <1>1, <1>2 DEF Call, CallSound
  <1>6. /\ answered \in [Ids -> Row \cup {NoRow}] /\ answered[c.id] = row
        /\ \A id \in Ids : CopyOrNone(id, answered[id])
    BY <1>2, <1>4, <1>5 DEF CopyOrNone
  <1>7. Answer(s, "ok", record)
    BY <1>1
  <1> HIDE DEF answered
  <1>8. /\ record \in Call /\ record.tab = c.tab /\ record.for = c.for /\ record.op = c.op
        /\ record.user = c.user /\ record.id = c.id /\ record.to = c.to /\ record.row = c.row
        /\ record.rows = answered
    BY <1>2, <1>6 DEF Call
  <1> HIDE DEF record
  <1>9. record.rows[record.id] # NoRow /\ \A id \in Ids : CopyOrNone(id, record.rows[id])
    BY <1>4, <1>6, <1>8
  <1>10. /\ call' \in [Slots -> Call] /\ \A v \in Slots : CallSound(call'[v])
         /\ \A v \in Slots : call'[v].stage = "timed" => call'[v] = call[v]
    BY <1>1, <1>7, <1>8, <1>9, AnswerKeeps
  <1>11. rows' \in [Ids -> Row] /\ \A id \in Ids : Copy(id, rows'[id])
    BY <1>1, <1>2, <1>4, InvParts DEF ConsoleTypes
  <1>12. /\ token' \in Token \cup {NoToken} /\ page' \in [Tabs -> Page]
         /\ budget' \in [presses : 0..MaxPresses, events : 0..MaxEvents]
         /\ \A t \in Tabs : PageSound(page'[t])
    BY <1>1, InvParts DEF ConsoleTypes
  <1> QED
    BY <1>1, <1>10, <1>11, <1>12, QuietStep

LEMMA RestartKeepsInv ==
    ASSUME ConsoleInv, Restart, LimiterTypeOK'
    PROVE  ConsoleInv'
  <1>1. /\ Event /\ UNCHANGED <<now, rows, token, page>>
        /\ call' = [s \in Slots |->
             IF call[s].stage \in {"free", "answered"} THEN call[s]
             ELSE IF call[s].for = "nobody" THEN Free
             ELSE [call[s] EXCEPT !.stage = "answered", !.at = 0]]
    BY DEF Restart
  <1>2. ASSUME NEW s \in Slots
        PROVE  call'[s] \in Call /\ CallSound(call'[s]) /\ call'[s].stage # "timed"
    <2> DEFINE c == call[s]
               a == [c EXCEPT !.stage = "answered"]
               d == [a EXCEPT !.at = 0]
    <2>1. c \in Call /\ CallSound(c)
      BY InvParts DEF ConsoleTypes
    <2>2. call'[s] = IF c.stage \in {"free", "answered"} THEN c ELSE IF c.for = "nobody" THEN Free ELSE d
      BY <1>1
    <2> HIDE DEF c
    <2>3. /\ a \in Call /\ a.stage = "answered" /\ a.tab = c.tab /\ a.for = c.for /\ a.op = c.op
          /\ a.user = c.user /\ a.id = c.id /\ a.to = c.to /\ a.row = c.row /\ a.rows = c.rows
          /\ a.status = c.status
      BY <2>1 DEF Call
    <2> HIDE DEF a
    <2>4. /\ d \in Call /\ d.stage = "answered" /\ d.tab = c.tab /\ d.for = c.for /\ d.op = c.op
          /\ d.user = c.user /\ d.id = c.id /\ d.to = c.to /\ d.row = c.row /\ d.rows = c.rows
          /\ d.status = c.status
      BY <2>3 DEF Call
    <2> HIDE DEF d
    <2>5. c.stage \notin {"free", "answered"} /\ c.for # "nobody" => CallSound(d)
      BY <2>1, <2>4 DEF CallSound
    <2> QED
      BY <2>1, <2>2, <2>4, <2>5, FreeIsSound
  <1>3. call' \in [Slots -> Call]
    BY <1>1, <1>2
  <1>4. /\ ConsoleTypes' /\ \A id \in Ids : Copy(id, rows'[id])
        /\ \A t \in Tabs : PageSound(page'[t])
    BY <1>1, <1>3, PressTypes, InvParts DEF ConsoleTypes
  <1> QED
    BY <1>2, <1>4, PartsMakeInv

LEMMA ElsewhereKeepsInv ==
    ASSUME ConsoleInv, Elsewhere
    PROVE  ConsoleInv'
  <1>1. PICK id \in Ids, to \in ScenarioStates, u \in Users :
          Accepts(rows[id], to, u) /\ rows' = [rows EXCEPT ![id] = Moved(rows[id], to, u)]
    BY DEF Elsewhere
  <1>2. Event /\ UNCHANGED <<now, limiter, token, page, call>>
    BY DEF Elsewhere
  <1>3. rows \in [Ids -> Row] /\ Copy(id, rows[id])
    BY InvParts DEF ConsoleTypes
  <1>4. Copy(id, Moved(rows[id], to, u)) /\ Moved(rows[id], to, u) \in Row
    BY <1>1, <1>3, MovedCopy DEF Accepts, Copy
  <1>5. rows' \in [Ids -> Row] /\ \A i \in Ids : Copy(i, rows'[i])
    BY <1>1, <1>3, <1>4, InvParts
  <1>6. /\ token' \in Token \cup {NoToken} /\ page' \in [Tabs -> Page] /\ call' \in [Slots -> Call]
        /\ \A t \in Tabs : PageSound(page'[t])
        /\ \A s \in Slots : CallSound(call'[s])
        /\ \A s \in Slots : call'[s] = call[s]
    BY <1>2, InvParts DEF ConsoleTypes
  <1>7. budget' \in [presses : 0..MaxPresses, events : 0..MaxEvents]
    BY <1>2, PressTypes
  <1> QED
    BY <1>2, <1>5, <1>6, <1>7, QuietStep

LEMMA IdleKeepsInv ==
    ASSUME ConsoleInv, LimiterTypeOK', born' = born, now' = now \/ now' = now + 1,
           UNCHANGED <<rows, token, page, call, budget>>
    PROVE  ConsoleInv'
  <1>1. /\ ConsoleTypes' /\ \A id \in Ids : Copy(id, rows'[id])
        /\ \A t \in Tabs : PageSound(page'[t])
        /\ \A s \in Slots : CallSound(call'[s])
    BY InvParts DEF ConsoleTypes
  <1>2. \A s \in Slots : call'[s].stage = "timed" => call'[s].at \in born'..now'
    BY InvParts DEF LimiterTypeOK
  <1> QED
    BY <1>1, <1>2, PartsMakeInv

-----------------------------------------------------------------------------
(* The invariant, and what follows from it *)

LEMMA InitMakesInv == Init => ConsoleInv
  <1> SUFFICES ASSUME Init PROVE ConsoleInv
    OBVIOUS
  <1>1. LimiterTypeOK
    BY InitTypes DEF Init
  <1>2. token \in Token \cup {NoToken} /\ (token # NoToken => token.user \in Users)
    BY SessionAssumption DEF Init, Token
  <1>3. \A t \in Tabs : page[t] \in Page /\ PageSound(page[t])
    <2> SUFFICES ASSUME NEW t \in Tabs PROVE page[t] \in Page /\ PageSound(page[t])
      OBVIOUS
    <2>1. page[t] =
           [ user |-> IF token = NoToken THEN NoUser ELSE token.user, loading |-> FALSE,
             shown |-> FALSE, status |-> "idle", items |-> NoRows, active |-> NoId, row |-> NoRow,
             busy |-> FALSE, running |-> NoId ]
      BY DEF Init
    <2> QED
      BY <1>2, <2>1 DEF Page, PageSound, NoRows, CopyOrNone
  <1>4. page \in [Tabs -> Page]
    BY <1>3 DEF Init
  <1>5. call \in [Slots -> Call] /\ \A s \in Slots : CallSound(call[s]) /\ call[s].stage = "free"
    BY FreeIsSound DEF Init
  <1>6. rows \in [Ids -> Row] /\ \A id \in Ids : Copy(id, rows[id])
    BY SeededAssumption DEF Init, Copy
  <1>7. budget \in [presses : 0..MaxPresses, events : 0..MaxEvents]
    BY BoundsAssumption DEF Init
  <1> QED
    BY <1>1, <1>2, <1>3, <1>4, <1>5, <1>6, <1>7 DEF ConsoleInv, TypeOK, ReadingsFresh

LEMMA StepKeepsInv == ConsoleInv /\ [Next]_vars => ConsoleInv'
  <1> SUFFICES ASSUME ConsoleInv, [Next]_vars PROVE ConsoleInv'
    OBVIOUS
  <1>1. LimiterTypeOK'
    BY InvParts, StepUsesLimiter, StepTypes
  <1>2. ASSUME NEW t \in Tabs,
               Login(t) \/ Logout(t) \/ Fetch(t) \/ Leave(t) \/ Select(t) \/ Simulate(t) \/ Transition(t)
        PROVE  ConsoleInv'
    BY <1>2, LoginKeepsInv, LogoutKeepsInv, FetchKeepsInv, SelectKeepsInv, SimulateKeepsInv,
       TransitionKeepsInv
  <1>3. ASSUME NEW s \in Slots, Deliver(s) \/ Lose(s)
        PROVE  ConsoleInv'
    BY <1>3, DeliverKeepsInv, LoseKeepsInv
  <1>4. ASSUME NEW s \in Slots, Serve(s)
        PROVE  ConsoleInv'
    <2>1. CASE RefuseChange(s) \/ DatabaseFails(s)
      BY <2>1, RefusalKeepsInv DEF RefuseChange, DatabaseFails
    <2> QED
      BY <1>1, <1>4, <2>1, AdmitKeepsInv, LimitRateKeepsInv, ServeLoginKeepsInv, ServeListKeepsInv,
         ServeChangeKeepsInv DEF Serve
  <1>5. CASE Restart
    BY <1>1, <1>5, RestartKeepsInv
  <1>6. CASE Elsewhere
    BY <1>6, ElsewhereKeepsInv
  <1>7. CASE Tick
    BY <1>1, <1>7, IdleKeepsInv DEF Tick, limiter
  <1>8. CASE UNCHANGED vars
    BY <1>1, <1>8, IdleKeepsInv DEF vars, limiter
  <1> QED
    BY <1>2, <1>3, <1>4, <1>5, <1>6, <1>7, <1>8 DEF Next

\* Between the button and the handler a scenario may have been anything, but the move
\* is only accepted from the state the button was offered in, and whatever has come
\* back to that state is the same scenario again.
LEMMA ChangeOfWhatWasShown ==
    ASSUME ConsoleInv, NEW s \in Slots, ServeChange(s)
    PROVE  LET c == call[s] IN
           IF c.op = "simulate" THEN rows[c.id].state = c.row.state ELSE rows[c.id] = c.row
  <1> DEFINE c == call[s]
             now_ == rows[c.id]
             then == c.row
  <1>1. c.stage = "admitted" /\ c.op \in Changes /\ CanTransitionScenario(now_.state, c.to)
    BY DEF ServeChange, Changes, Accepted, Accepts
  <1>2. /\ Copy(c.id, now_) /\ Copy(c.id, then) /\ CanTransitionScenario(then.state, c.to)
        /\ c.to # "draft" /\ (c.op = "simulate" <=> c.to = "simulated")
    BY <1>1, ChangeAsked
  <1> HIDE DEF c, now_, then
  <1>3. now_.state = then.state
    BY <1>1, <1>2 DEF CanTransitionScenario, ScenarioMoves
  <1>4. c.op # "simulate" => now_.state \notin {"draft", "verified"}
    BY <1>1, <1>2 DEF CanTransitionScenario, ScenarioMoves
  <1>5. c.op # "simulate" => now_ = then
    BY <1>2, <1>3, <1>4 DEF Copy, WellFormed, Row
  <1> QED
    BY <1>3, <1>5 DEF c, now_, then

-----------------------------------------------------------------------------
(* Theorems *)

LEMMA InvHolds == Spec => []ConsoleInv
  BY InitMakesInv, StepKeepsInv, PTL DEF Spec

\* The stores of the tabs, what is in flight and the scenarios keep their types.
THEOREM ConsoleTypeCorrectness == Spec => []TypeOK
  <1>1. ConsoleInv => TypeOK
    BY DEF ConsoleInv
  <1> QED
    BY InvHolds, <1>1, PTL

\* The console's requests use the limiters as RateLimiter says, although the reading of
\* the clock and the counting are two steps between which the backend may be started
\* again: a reading from before that is never counted.
THEOREM ConsoleUsesLimiter == Spec => LimiterSpec
  <1>1. Init => LimiterInit
    BY DEF Init
  <1> QED
    BY <1>1, InvHolds, StepUsesLimiter, PTL DEF Spec, LimiterSpec

\* So no caller is let pass more often than the limit allows by the clock.
THEOREM ConsolePassesBounded == Spec => []PassesBounded
  BY ConsoleUsesLimiter, PassesStayBounded, PTL

\* A change is carried out on the scenario the button showed.
THEOREM ChangesAreAsShown == Spec => AcceptedAsShown
  <1>1. ConsoleInv /\ [Next]_vars =>
          [\A s \in Slots : ServeChange(s) =>
             LET c == call[s] IN
             IF c.op = "simulate" THEN rows[c.id].state = c.row.state ELSE rows[c.id] = c.row]_vars
    BY ChangeOfWhatWasShown
  <1> QED
    BY <1>1, InvHolds, PTL DEF Spec, AcceptedAsShown

-----------------------------------------------------------------------------
(* The scenarios go through their lifecycle *)

\* A scenario assesses an input of its own; what a simulation finds is not told apart.
Assessed(id, row) ==
    [ state |-> row.state, input |-> id, creator |-> row.creator, verifier |-> row.verifier,
      result |-> IF row.result THEN "simulated" ELSE "none" ]

Verifiers == {u \in Users : HasPermission(RoleOf[u], "scenario.verify")}

Mapped == [id \in Ids |-> Assessed(id, rows[id])]

Lifecycle == INSTANCE ScenarioLifecycleProofs WITH
    Inputs     <- Ids,
    Results    <- {"simulated"},
    ResultOf   <- [id \in Ids |-> "simulated"],
    Seeded     <- [id \in Ids |-> Assessed(id, Seeded[id])],
    NoInput    <- NoId,
    NoResult   <- "none",
    assessment <- Mapped

\* One accepted change of one scenario is one move of its assessment.
LEMMA MoveRefines ==
    ASSUME NEW id \in Ids, NEW to \in ScenarioStates, NEW user \in Users,
           rows \in [Ids -> Row], Accepts(rows[id], to, user),
           rows' = [rows EXCEPT ![id] = Moved(rows[id], to, user)]
    PROVE  Lifecycle!Next
  <1> DEFINE old == rows[id]
             row == Moved(old, to, user)
  <1>1. old \in Row /\ <<old.state, to>> \in ScenarioMoves
    BY DEF Accepts, CanTransitionScenario
  <1>2. /\ row.state = to /\ row.creator = old.creator
        /\ row.result = (old.result \/ to = "simulated")
        /\ row.verifier = IF to = "verified" THEN user ELSE old.verifier
    BY <1>1 DEF Moved, Row
  <1>3. to = "verified" => user \in Verifiers \ {old.creator}
    BY DEF Accepts, Permission, Verifiers
  <1>4. Mapped' = [Mapped EXCEPT ![id] = Assessed(id, row)] /\ Mapped[id] = Assessed(id, old)
    BY DEF Mapped
  <1> HIDE DEF row, old
  <1>5. /\ Mapped[id].state = old.state /\ Mapped[id].input = id
        /\ Mapped[id].creator = old.creator /\ Mapped[id].verifier = old.verifier
        /\ Mapped[id].result = IF old.result THEN "simulated" ELSE "none"
    BY <1>4 DEF Assessed
  <1>6. old.result \in BOOLEAN
    BY <1>1 DEF Row
  <1>7. CASE to = "simulated"
    <2>1. Assessed(id, row) =
            [ state |-> "simulated", input |-> Mapped[id].input, creator |-> Mapped[id].creator,
              verifier |-> Mapped[id].verifier, result |-> [i \in Ids |-> "simulated"][Mapped[id].input] ]
      BY <1>2, <1>5, <1>7 DEF Assessed
    <2>2. old.state = "draft"
      BY <1>1, <1>7 DEF ScenarioMoves
    <2> QED
      BY <1>4, <1>5, <2>1, <2>2 DEF Lifecycle!Assess, Lifecycle!Next
  <1>8. CASE to = "verified"
    <2>1. Assessed(id, row) =
            [ state |-> "verified", input |-> Mapped[id].input, creator |-> Mapped[id].creator,
              verifier |-> user, result |-> Mapped[id].result ]
      BY <1>2, <1>5, <1>6, <1>8 DEF Assessed
    <2>2. old.state = "executing"
      BY <1>1, <1>8 DEF ScenarioMoves
    <2> QED
      BY <1>3, <1>4, <1>5, <1>8, <2>1, <2>2 DEF Lifecycle!Verify, Lifecycle!Next
  <1>9. CASE to \notin {"simulated", "verified"}
    <2>1. Assessed(id, row) = [Assessed(id, old) EXCEPT !.state = to]
      BY <1>2, <1>6, <1>9 DEF Assessed
    <2>2. Mapped' = [Mapped EXCEPT ![id].state = to]
      BY <1>4, <2>1
    <2>3. \/ old.state = "simulated" /\ to = "ready"
          \/ old.state = "ready" /\ to = "executing"
          \/ old.state \in {"simulated", "ready"} /\ to = "draft"
          \/ old.state = "executing" /\ to = "rollback"
      BY <1>1, <1>9 DEF ScenarioMoves
    <2> QED
      BY <1>5, <2>2, <2>3 DEF Lifecycle!MarkReady, Lifecycle!Execute, Lifecycle!Reopen,
                              Lifecycle!RollBack, Lifecycle!Next
  <1> QED
    BY <1>7, <1>8, <1>9

\* Only a request that is served, and what happens elsewhere, change a scenario.
LEMMA StepRefinesLifecycle == ConsoleInv /\ [Next]_vars => [Lifecycle!Next]_Mapped
  <1> SUFFICES ASSUME ConsoleInv, [Next]_vars PROVE [Lifecycle!Next]_Mapped
    OBVIOUS
  <1>1. rows \in [Ids -> Row] /\ call \in [Slots -> Call] /\ \A s \in Slots : CallSound(call[s])
    BY InvParts DEF ConsoleTypes
  <1>2. ASSUME NEW s \in Slots, ServeChange(s) PROVE Lifecycle!Next
    <2> DEFINE c == call[s]
    <2>1. /\ c.stage = "admitted" /\ c.op \in Changes
          /\ Accepts(rows[c.id], c.to, c.token.user)
          /\ rows' = [rows EXCEPT ![c.id] = Moved(rows[c.id], c.to, c.token.user)]
      BY <1>2 DEF ServeChange, Accepted, Changes
    <2>2. c.id \in Ids /\ c.token # NoToken
      BY <1>1, <2>1 DEF CallSound, Changes
    <2>3. c.to \in ScenarioStates /\ c.token.user \in Users
      BY <1>1, <2>2 DEF Call, Token
    <2> HIDE DEF c
    <2> QED
      BY <1>1, <2>1, <2>2, <2>3, MoveRefines
  <1>3. CASE Elsewhere
    BY <1>1, <1>3, MoveRefines DEF Elsewhere
  <1>4. CASE UNCHANGED rows
    BY <1>4 DEF Mapped
  <1>5. ASSUME NEW t \in Tabs,
               Login(t) \/ Logout(t) \/ Fetch(t) \/ Leave(t) \/ Select(t) \/ Simulate(t) \/ Transition(t)
        PROVE  UNCHANGED rows
    BY <1>5 DEF Login, Logout, Fetch, Leave, Select, Simulate, Transition
  <1>6. ASSUME NEW s \in Slots,
               \/ Deliver(s) \/ Lose(s) \/ Admit(s) \/ LimitRate(s) \/ ServeLogin(s) \/ ServeList(s)
               \/ RefuseChange(s) \/ DatabaseFails(s)
        PROVE  UNCHANGED rows
    BY <1>6 DEF Deliver, Lose, Admit, LimitRate, ServeLogin, ServeList, RefuseChange, DatabaseFails
  <1>7. ASSUME Restart \/ Tick \/ UNCHANGED vars PROVE UNCHANGED rows
    BY <1>7 DEF Restart, Tick, vars
  <1> QED
    BY <1>2, <1>3, <1>4, <1>5, <1>6, <1>7 DEF Next, Serve

\* What RolloverScenario proves of the service with its statements, the console with its
\* tabs, stale lists, lost answers and restarts keeps: every scenario goes through the
\* lifecycle of ScenarioLifecycle, so that a button pressed late never moves one twice,
\* against its order, or past the second person.
THEOREM ConsoleImplementsLifecycle == Spec => Lifecycle!Spec
  <1>1. Init => Lifecycle!Init
    BY DEF Init, Lifecycle!Init, Mapped
  <1> QED
    BY <1>1, InvHolds, StepRefinesLifecycle, PTL DEF Spec, Lifecycle!Spec

\* So whatever is pressed, late or twice, and whatever is lost: a scenario that was verified
\* or rolled back stays as it is, none is executed or settled out of order, and whoever
\* signs one off may do so and did not create it.
THEOREM ConsoleIsAccountable == Spec => Lifecycle!Accountable
  <1> DEFINE mapped == [id \in Ids |-> Assessed(id, Seeded[id])]
  <1>1. Lifecycle!StartsTyped
    <2>1. ASSUME NEW id \in Ids
          PROVE  mapped[id] \in Lifecycle!Assessment /\ mapped[id].input \in Ids
      <3>1. Seeded[id] \in Row
        BY <2>1, SeededAssumption
      <3> QED
        BY <2>1, <3>1 DEF Assessed, Row, ScenarioStates, Lifecycle!Assessment
    <2>2. mapped \in [Ids -> Lifecycle!Assessment] /\ \A id \in Ids : mapped[id].input \in Ids
      BY <2>1
    <2> HIDE DEF mapped
    <2>3. Verifiers \subseteq Users
      BY DEF Verifiers
    <2> QED
      BY <2>2, <2>3 DEF Lifecycle!StartsTyped, mapped
  <1> QED
    BY <1>1, ConsoleImplementsLifecycle, Lifecycle!LifecycleIsAccountable

=============================================================================
