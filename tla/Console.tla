------------------------------- MODULE Console -------------------------------
(***************************************************************************)
(* The browser console on the scenarios: what its tabs show and remember   *)
(* (frontend/src/stores, hooks, pages/RolloversPage.tsx, api/client.ts),   *)
(* the requests they have in flight, and the way of a request through the  *)
(* backend's middleware: token, permission, rate limit, handler.           *)
(*                                                                         *)
(* A handler is one step here, as ScenarioLifecycle promises of the        *)
(* scenarios; RolloverScenario has its statements.  The tabs of a browser  *)
(* share the access token in localStorage; what else they keep is their    *)
(* own.  Answers may be lost on the way, and a request whose caller has    *)
(* gone is still served.                                                   *)
(***************************************************************************)
EXTENDS RolloverDomain, RateLimiter

CONSTANTS
    Tabs, Slots,      \* the tabs of a browser, and requests it has in flight at most
    Ids,              \* scenarios
    Users, RoleOf,
    Remembered,       \* whose session localStorage may have kept
    Seeded,           \* the scenarios the console finds
    Key,              \* the limiter's key of an operation and its caller
    Lifetime,         \* of an access token
    MaxTime, MaxPresses, MaxEvents,  \* bounds on the runs that are looked at
    NoUser, NoId, NoTab, NoRow, NoToken

VARIABLES
    rows,       \* the scenarios in the database
    token,      \* localStorage: the access token
    page,       \* the stores and the page of each tab
    call,       \* the requests in flight
    budget      \* what people still press, and what else still happens

vars == <<now, limiter, rows, token, page, call, budget>>

Row == [ state : ScenarioStates, creator : Users, verifier : Users \cup {NoUser}, result : BOOLEAN ]

Token == [user : Users, expires : Nat]

Page == [ user    : Users \cup {NoUser},            \* NoUser: the login page
          loading : BOOLEAN,                        \* the sign-in is under way
          shown   : BOOLEAN,                        \* the scenarios' page is
          status  : {"idle", "loading", "ready", "error"},
          items   : [Ids -> Row \cup {NoRow}],
          active  : Ids \cup {NoId}, row : Row \cup {NoRow},   \* the scenario in the foreground
          busy    : BOOLEAN,                        \* a transition is under way
          running : Ids \cup {NoId} ]               \* a simulation is under way

Call == [ tab   : Tabs \cup {NoTab},
          for   : {"page", "store", "nobody"},      \* who still waits for the answer
          op    : {"none", "login", "list", "simulate", "transition"},
          user  : Users \cup {NoUser},              \* who signs in
          id    : Ids \cup {NoId}, to : ScenarioStates,
          row   : Row \cup {NoRow},                 \* what the tab showed
          token : Token \cup {NoToken},
          stage : {"free", "sent", "timed", "admitted", "answered"},
          at    : Nat,                              \* the limiter's reading of the clock
          status : {"ok", "unauthorized", "failed"},   \* 2xx, 401, and all others or none
          rows  : [Ids -> Row \cup {NoRow}] ]

NoRows == [id \in Ids |-> NoRow]

Free == [ tab |-> NoTab, for |-> "nobody", op |-> "none", user |-> NoUser, id |-> NoId,
          to |-> "draft", row |-> NoRow, token |-> NoToken, stage |-> "free", at |-> 0,
          status |-> "failed", rows |-> NoRows ]

\* A scenario past its draft has been simulated, and only sign-off has a verifier.
WellFormed(row) ==
    /\ row.state # "draft" => row.result
    /\ row.state # "verified" => row.verifier = NoUser

ASSUME SeededAssumption == Seeded \in [Ids -> Row] /\ \A id \in Ids : WellFormed(Seeded[id])

ASSUME SessionAssumption == Remembered \subseteq Users /\ Lifetime \in Nat

ASSUME KeyAssumption == Key \in [{"login", "simulate"} \X (Users \cup {NoUser}) -> BucketKeys]

ASSUME NoneAssumption ==
    NoUser \notin Users /\ NoId \notin Ids /\ NoTab \notin Tabs /\ NoRow \notin Row /\ NoToken \notin Token

ASSUME BoundsAssumption == MaxTime \in Nat /\ MaxPresses \in Nat /\ MaxEvents \in Nat

TypeOK ==
    /\ LimiterTypeOK
    /\ rows \in [Ids -> Row]
    /\ token \in Token \cup {NoToken}
    /\ page \in [Tabs -> Page]
    /\ call \in [Slots -> Call]
    /\ budget \in [presses : 0..MaxPresses, events : 0..MaxEvents]

\* The tabs are opened, with the session localStorage has kept.
Init ==
    /\ LimiterInit
    /\ rows = Seeded
    /\ token \in {NoToken} \cup {[user |-> u, expires |-> Lifetime] : u \in Remembered}
    /\ page = [t \in Tabs |->
         [ user |-> IF token = NoToken THEN NoUser ELSE token.user, loading |-> FALSE,
           shown |-> FALSE, status |-> "idle", items |-> NoRows, active |-> NoId, row |-> NoRow,
           busy |-> FALSE, running |-> NoId ]]
    /\ call = [s \in Slots |-> Free]
    /\ budget = [presses |-> MaxPresses, events |-> MaxEvents]

-----------------------------------------------------------------------------
(* Scenarios *)

Permission(to) ==
    CASE to = "simulated" -> "scenario.run"
      [] to = "verified"  -> "scenario.verify"
      [] OTHER            -> "scenario.write"

\* requireScenarioOwnership
MayManage(row, user) == RoleOf[user] \in {"admin", "pki_operator"} \/ row.creator = user

\* Fault: the state a scenario is in does not matter.
AcceptsUnordered(row, to, user) ==
    /\ HasPermission(RoleOf[user], Permission(to))
    /\ IF to = "verified" THEN row.creator # user ELSE MayManage(row, user)

Accepts(row, to, user) ==
    /\ HasPermission(RoleOf[user], Permission(to))
    /\ CanTransitionScenario(row.state, to)
    /\ IF to = "verified" THEN row.creator # user ELSE MayManage(row, user)

Moved(row, to, user) ==
    [ row EXCEPT !.state = to,
                 !.result = row.result \/ to = "simulated",
                 !.verifier = IF to = "verified" THEN user ELSE row.verifier ]

-----------------------------------------------------------------------------
(* The console *)

Press == budget.presses > 0 /\ budget' = [budget EXCEPT !.presses = budget.presses - 1]

Event == budget.events > 0 /\ budget' = [budget EXCEPT !.events = budget.events - 1]

\* apiRequest: with the token that localStorage holds now.
Send(t, request) ==
    /\ \E s \in Slots : call[s] = Free
    /\ call' = [call EXCEPT ![CHOOSE s \in Slots : call[s] = Free] =
         [request EXCEPT !.tab = t, !.token = token, !.stage = "sent"]]

\* The page is left: what it waited for only reaches the stores.
Left(calls, t) ==
    [s \in Slots |-> IF calls[s].tab = t /\ calls[s].for = "page"
                     THEN [calls[s] EXCEPT !.for = "store"] ELSE calls[s]]

Closed(p) == [p EXCEPT !.shown = FALSE, !.busy = FALSE, !.running = NoId]

Login(t) ==
    /\ page[t].user = NoUser /\ ~page[t].loading /\ Press
    /\ \E u \in Users : Send(t, [Free EXCEPT !.for = "store", !.op = "login", !.user = u])
    /\ page' = [page EXCEPT ![t].loading = TRUE]
    /\ UNCHANGED <<now, limiter, rows, token>>

Logout(t) ==
    /\ page[t].user # NoUser /\ Press
    /\ token' = NoToken
    /\ page' = [page EXCEPT ![t] = [Closed(page[t]) EXCEPT !.user = NoUser]]
    /\ call' = Left(call, t)
    /\ UNCHANGED <<now, limiter, rows>>

\* fetchScenarios: when the page opens, and when the list is refreshed.
Fetch(t) ==
    /\ page[t].user # NoUser /\ Press
    /\ Send(t, [Free EXCEPT !.for = "store", !.op = "list"])
    /\ page' = [page EXCEPT ![t].shown = TRUE, ![t].status = "loading"]
    /\ UNCHANGED <<now, limiter, rows, token>>

\* To another page of the console.
Leave(t) ==
    /\ page[t].shown /\ Press
    /\ page' = [page EXCEPT ![t] = Closed(page[t])]
    /\ call' = Left(call, t)
    /\ UNCHANGED <<now, limiter, rows, token>>

\* One of the listed scenarios comes to the foreground, first the first one.
Select(t) ==
    /\ page[t].shown
    /\ \E id \in Ids \ {page[t].active} :
         /\ page[t].items[id] # NoRow
         /\ page' = [page EXCEPT ![t].active = id, ![t].row = page[t].items[id]]
    /\ UNCHANGED <<now, limiter, rows, token, call, budget>>

Can(t, permission) == HasPermission(RoleOf[page[t].user], permission)

Simulate(t) ==
    /\ page[t].shown /\ page[t].active # NoId /\ Press
    /\ page[t].row.state = "draft" /\ page[t].running # page[t].active /\ Can(t, "scenario.run")
    /\ Send(t, [Free EXCEPT !.for = "page", !.op = "simulate", !.id = page[t].active,
                            !.to = "simulated", !.row = page[t].row])
    /\ page' = [page EXCEPT ![t].running = page[t].active]
    /\ UNCHANGED <<now, limiter, rows, token>>

\* The buttons under the scenario; a roll-back does not wait for another transition.
Offered(t) ==
    LET row == page[t].row IN
    {to \in {"ready", "executing", "verified", "rollback"} :
        /\ CASE to = "ready" -> row.state = "simulated" [] to = "executing" -> row.state = "ready"
             [] OTHER -> row.state = "executing"
        /\ Can(t, Permission(to))
        /\ to # "rollback" => ~page[t].busy
        /\ to = "verified" => row.creator # page[t].user}

Transition(t) ==
    /\ page[t].shown /\ page[t].active # NoId /\ Press
    /\ \E to \in Offered(t) :
         Send(t, [Free EXCEPT !.for = "page", !.op = "transition", !.id = page[t].active,
                              !.to = to, !.row = page[t].row])
    /\ page' = [page EXCEPT ![t].busy = TRUE]
    /\ UNCHANGED <<now, limiter, rows, token>>

\* Fault: the buttons are only released by a good answer.
ReleasedOnSuccess(p, c, status) ==
    IF c.for # "page" \/ status # "ok" THEN p
    ELSE IF c.op = "simulate" THEN [p EXCEPT !.running = NoId] ELSE [p EXCEPT !.busy = FALSE]

\* The finally clauses: any simulation that ends releases the one marked as running.
Released(p, c, status) ==
    IF c.for # "page" THEN p
    ELSE IF c.op = "simulate" THEN [p EXCEPT !.running = NoId] ELSE [p EXCEPT !.busy = FALSE]

\* merge: the answer comes to the foreground, whatever was there.
Merged(p, id, row) ==
    [ p EXCEPT !.active = id, !.row = row,
               !.items[id] = IF p.items[id] = NoRow THEN NoRow ELSE row ]

\* Fault: the list shows the status of the answer as its own.
TakenWithStatus(p, c, status) ==
    CASE c.op = "login" -> [p EXCEPT !.loading = FALSE, !.user = IF status = "ok" THEN c.user ELSE p.user]
      [] c.op = "list"  -> [p EXCEPT !.status = status, !.items = IF status = "ok" THEN c.rows ELSE p.items]
      [] OTHER          -> IF status = "ok" THEN Merged(p, c.id, c.rows[c.id]) ELSE p

Taken(p, c, status) ==
    CASE c.op = "login" -> [p EXCEPT !.loading = FALSE, !.user = IF status = "ok" THEN c.user ELSE p.user]
      [] c.op = "list"  -> IF status = "ok" THEN [p EXCEPT !.status = "ready", !.items = c.rows]
                           ELSE [p EXCEPT !.status = "error"]
      [] OTHER          -> IF status = "ok" THEN Merged(p, c.id, c.rows[c.id]) ELSE p

\* What an answer does to the tab that waits for it.
\* Every 401 ends the session, be it that of a newer token or of another tab.
Settle(s, status, remains) ==
    LET c == call[s]
        p == Released(Taken(page[c.tab], c, status), c, status)
        calls == [call EXCEPT ![s] = remains]
    IN IF status = "unauthorized"
       THEN /\ token' = NoToken
            /\ page' = [page EXCEPT ![c.tab] = [Closed(p) EXCEPT !.user = NoUser]]
            /\ call' = Left(calls, c.tab)
       ELSE /\ token' = IF c.op = "login" /\ status = "ok" THEN c.token ELSE token
            /\ page' = [page EXCEPT ![c.tab] = p]
            /\ call' = calls

Deliver(s) ==
    /\ call[s].stage = "answered"
    /\ Settle(s, call[s].status, Free)
    /\ UNCHANGED <<now, limiter, rows, budget>>

\* fetch rejects: the request or its answer is lost, or the backend still has it.
Lose(s) ==
    /\ call[s].stage # "free" /\ call[s].for # "nobody"
    /\ \E remains \in {Free} \cup {[call[s] EXCEPT !.for = "nobody"]} :
         /\ call[s].stage = "answered" => remains = Free
         /\ Settle(s, "failed", remains)
    /\ UNCHANGED <<now, limiter, rows, budget>>

-----------------------------------------------------------------------------
(* The backend *)

Answer(s, status, record) ==
    call' = [call EXCEPT ![s] =
      IF call[s].for = "nobody" THEN Free ELSE [record EXCEPT !.stage = "answered", !.status = status]]

Refuse(s, status) == Answer(s, status, [call[s] EXCEPT !.at = 0])

Valid(t) == t # NoToken /\ now < t.expires

Permitted(c) ==
    \E permission \in CASE c.op = "list" -> {"read"} [] c.op = "simulate" -> {"scenario.run"}
                        [] OTHER -> {"scenario.write", "scenario.verify"} :
      HasPermission(RoleOf[c.token.user], permission)

\* RequireAuth, RequirePermission; the limiters of sign-ins and simulations read the clock.
Admit(s) ==
    /\ call[s].stage = "sent"
    /\ LET c == call[s] IN
       IF c.op # "login" /\ ~Valid(c.token) THEN Refuse(s, "unauthorized")
       ELSE IF c.op # "login" /\ ~Permitted(c) THEN Refuse(s, "failed")
       ELSE call' = [call EXCEPT ![s] =
              IF c.op \in {"login", "simulate"} THEN [c EXCEPT !.stage = "timed", !.at = now]
              ELSE [c EXCEPT !.stage = "admitted"]]
    /\ UNCHANGED <<now, limiter, rows, token, page, budget>>

LimitRate(s) ==
    /\ call[s].stage = "timed"
    /\ LET key == Key[call[s].op, IF call[s].op = "login" THEN NoUser ELSE call[s].token.user] IN
       /\ Count(key, call[s].at)
       /\ IF Exceeded(key, call[s].at) THEN Refuse(s, "failed")
          ELSE call' = [call EXCEPT ![s].stage = "admitted", ![s].at = 0]
    /\ UNCHANGED <<now, rows, token, page, budget>>

\* The password is right or wrong.
ServeLogin(s) ==
    /\ call[s].stage = "admitted" /\ call[s].op = "login"
    /\ \/ Answer(s, "ok", [call[s] EXCEPT !.token = [user |-> call[s].user, expires |-> now + Lifetime]])
       \/ Refuse(s, "unauthorized")
    /\ UNCHANGED <<now, limiter, rows, token, page, budget>>

ServeList(s) ==
    /\ call[s].stage = "admitted" /\ call[s].op = "list"
    /\ Answer(s, "ok", [call[s] EXCEPT !.rows = rows])
    /\ UNCHANGED <<now, limiter, rows, token, page, budget>>

Accepted(s) == Accepts(rows[call[s].id], call[s].to, call[s].token.user)

ServeChange(s) ==
    /\ call[s].stage = "admitted" /\ call[s].op \in {"simulate", "transition"} /\ Accepted(s)
    /\ LET c == call[s]
           row == Moved(rows[c.id], c.to, c.token.user)
       IN /\ rows' = [rows EXCEPT ![c.id] = row]
          /\ Answer(s, "ok", [c EXCEPT !.rows[c.id] = row])
    /\ UNCHANGED <<now, limiter, token, page, budget>>

RefuseChange(s) ==
    /\ call[s].stage = "admitted" /\ call[s].op \in {"simulate", "transition"} /\ ~Accepted(s)
    /\ Refuse(s, "failed")
    /\ UNCHANGED <<now, limiter, rows, token, page, budget>>

\* A statement fails and the transaction is rolled back.
DatabaseFails(s) ==
    /\ call[s].stage = "admitted"
    /\ Refuse(s, "failed")
    /\ UNCHANGED <<now, limiter, rows, token, page, budget>>

Serve(s) ==
    \/ Admit(s) \/ LimitRate(s)
    \/ ServeLogin(s) \/ ServeList(s) \/ ServeChange(s) \/ RefuseChange(s) \/ DatabaseFails(s)

\* What the backend was working on is lost.
Restart ==
    /\ Event
    /\ Forget
    /\ call' = [s \in Slots |->
         IF call[s].stage \in {"free", "answered"} THEN call[s]
         ELSE IF call[s].for = "nobody" THEN Free
         ELSE [call[s] EXCEPT !.stage = "answered", !.at = 0]]
    /\ UNCHANGED <<now, rows, token, page>>

\* Somebody else works on the scenarios.
Elsewhere ==
    /\ Event
    /\ \E id \in Ids, to \in ScenarioStates, u \in Users :
         /\ Accepts(rows[id], to, u)
         /\ rows' = [rows EXCEPT ![id] = Moved(rows[id], to, u)]
    /\ UNCHANGED <<now, limiter, token, page, call>>

Tick ==
    /\ now < MaxTime
    /\ now' = now + 1
    /\ UNCHANGED <<limiter, rows, token, page, call, budget>>

Next ==
    \/ \E t \in Tabs : Login(t) \/ Logout(t) \/ Fetch(t) \/ Leave(t) \/ Select(t) \/ Simulate(t) \/ Transition(t)
    \/ \E s \in Slots : Deliver(s) \/ Lose(s) \/ Serve(s)
    \/ Restart \/ Elsewhere \/ Tick

Spec == Init /\ [][Next]_vars

\* The backend serves what it has received, and every fetch ends somehow.
FairSpec == Spec /\ \A s \in Slots : WF_vars(Serve(s) \/ Deliver(s) \/ Lose(s))

-----------------------------------------------------------------------------
(* Properties *)

\* A button does to a scenario what its caption said: when a transition is carried
\* out, the scenario is still exactly as the tab showed it when the button was pressed,
\* in its state, result, creator and reviewer, however long ago the list was loaded and
\* however often others have worked on it or reopened it since; and a simulation is of
\* a draft.
AcceptedAsShown ==
    [][\A s \in Slots : ServeChange(s) =>
         LET c == call[s] IN
         IF c.op = "simulate" THEN rows[c.id].state = c.row.state ELSE rows[c.id] = c.row]_vars

Waiting(p) == p.loading \/ p.status = "loading" \/ p.busy \/ p.running # NoId

\* When people stop pressing buttons every tab comes to rest, whatever has become of its
\* requests: nothing is shown as loading for ever, and no button stays disabled.
ComesToRest == <>[](\A t \in Tabs : ~Waiting(page[t]))

=============================================================================
