---------------------------- MODULE TrustCatalogue ----------------------------
(***************************************************************************)
(* The trust anchors and certificate chains, from the start of the backends*)
(* on (database.seed, service/trust_anchor_service.go,                     *)
(* service/certificate_chain_service.go), and the input that               *)
(* RolloverScenarioService.Create freezes from them.                       *)
(*                                                                         *)
(* A worker is a backend: it starts, seeds the database if it finds it     *)
(* empty, and then serves one request after the other.  Two workers also   *)
(* stand for two requests of one backend.  Every handler reads first, and  *)
(* writes its row with an audit entry in one transaction; only the writes  *)
(* of chain states are guarded by what was read.  The key of a new chain is*)
(* drawn when its row is inserted, and the row is seen when the transaction*)
(* commits, so rows appear in another order than that of their keys.  The  *)
(* four reads of a frozen input are separate statements.                   *)
(***************************************************************************)
EXTENDS Certificates

CONSTANTS
    AnchorIds, ChainIds,  \* primary keys
    ServiceIds,
    Keys, Certs, Codes,
    Workers,
    Accounts,     \* the number of accounts database.seed makes sure of
    Demo,         \* the rows seedDomain generates: another key pair in every backend
    Databases,    \* what the database may hold when the backends start
    Requests,     \* the requests clients send
    PageSize,     \* of the list of chains that is frozen (200)
    Soon,         \* how long before its end a certificate is "expiring"
    MaxTime, MaxRequests, MaxCrashes,   \* bounds on the runs that are looked at
    NoId, NoCode, NoCert

Actions == {"revoke", "archive", "restore"}

Anchor == [ code     : Codes \cup {NoCode},     \* NoCode: there is no such row
            cert     : Certs \cup {NoCert},     \* fingerprint, not_before, not_after, pem
            stored   : CertificateStates,       \* certificate_state
            revoked  : BOOLEAN,                 \* revoked_at is set
            archived : BOOLEAN ]

Chain == [ code   : Codes \cup {NoCode},
           anchor : AnchorIds \cup {NoId},
           leaf   : Certs \cup {NoCert},
           others : SUBSET Certs,               \* the rest of the bundle
           from   : Nat, until : Nat,
           state  : ChainStates ]

Database == [ users    : SUBSET (1..Accounts),
              anchors  : [AnchorIds -> Anchor],
              chains   : [ChainIds -> Chain],
              drawn    : Nat,                                  \* of the keys of chains
              services : [ServiceIds -> ChainIds \cup {NoId}] ]   \* chain_id

Request == [ op : {"none", "import_anchor", "import_chain", "lifecycle", "transition", "create"},
             id         : AnchorIds \cup ChainIds \cup {NoId},  \* what it is about; the old anchor
             new        : AnchorIds \cup {NoId},                \* the new anchor
             code       : Codes \cup {NoCode},
             leaf       : Certs \cup {NoCert},
             others     : SUBSET Certs,
             to         : Actions \cup ChainStates \cup {"none"},
             candidates : SUBSET ChainIds ]

NoAnchor == [code |-> NoCode, cert |-> NoCert, stored |-> "valid", revoked |-> FALSE, archived |-> FALSE]

NoChain == [ code |-> NoCode, anchor |-> NoId, leaf |-> NoCert, others |-> {},
             from |-> 0, until |-> 0, state |-> "imported" ]

NoRequest == [ op |-> "none", id |-> NoId, new |-> NoId, code |-> NoCode, leaf |-> NoCert,
               others |-> {}, to |-> "none", candidates |-> {} ]

Present(rows) == {id \in DOMAIN rows : rows[id].code # NoCode}

DemoAnchors(w) == {id \in AnchorIds : Demo[w].anchors[id].code # NoCode}
DemoChains(w)  == {id \in ChainIds : Demo[w].chains[id].code # NoCode}

-----------------------------------------------------------------------------
(* What the backends work with *)

Moments == UNION {c.from..c.until : c \in Certs}

\* An anchor is stored with the state of some time until now, and a revocation in
\* both columns.
AnchorSound(row, t) ==
    /\ row.code # NoCode =>
         /\ row.cert \in Certs
         /\ Severity[row.stored] <= Severity[CalculateCertificateState(t, row.cert.until, row.revoked, Soon)]
    /\ row.revoked => row.code # NoCode /\ row.stored = "revoked"

\* A chain belongs to an anchor and verifies under it within its window.
ChainSound(row, rows) ==
    /\ row.anchor \in Present(rows) /\ row.leaf \in Certs
    /\ row.leaf.from <= row.from /\ row.until <= row.leaf.until
    /\ \A t \in Moments : row.from <= t /\ t < row.until =>
         ValidateChain(rows[row.anchor].cert, row.leaf, row.others, t)

DatabaseSound(db) ==
    /\ \A id \in AnchorIds : AnchorSound(db.anchors[id], 0)
    /\ \A id \in Present(db.chains) : ChainSound(db.chains[id], db.anchors)
    /\ IsFiniteSet(Present(db.chains)) /\ \A id \in Present(db.chains) : id <= db.drawn
    /\ \A s \in ServiceIds : db.services[s] \in Present(db.chains) \cup {NoId}

\* The rows hold the demonstration a backend generated.
DemoStored(rows, links, w) ==
    /\ \A id \in DemoAnchors(w) :
         rows[id].code = Demo[w].anchors[id].code /\ rows[id].cert = Demo[w].anchors[id].cert
    /\ \A id \in DemoChains(w) :
         links[id].code # NoCode /\ links[id].leaf = Demo[w].chains[id].leaf

DemoCodes(w) == {Demo[w].anchors[id].code : id \in DemoAnchors(w)}

ASSUME NumbersAssumption ==
    /\ AnchorIds \subseteq Nat /\ ChainIds \subseteq Nat
    /\ Accounts \in Nat \ {0} /\ PageSize \in Nat /\ Soon \in Nat
    /\ MaxTime \in Nat /\ MaxRequests \in Nat /\ MaxCrashes \in Nat

ASSUME NoneAssumption == NoId \notin AnchorIds \cup ChainIds /\ NoCode \notin Codes

ASSUME CertsAssumption == Certs \subseteq CertificateOf(Keys)

\* Every backend seeds rows of the same codes.
ASSUME DemoAssumption ==
    /\ Demo \in [Workers -> Database]
    /\ \A w \in Workers : DatabaseSound(Demo[w]) /\ DemoCodes(w) # {}
    /\ \A v, w \in Workers : DemoCodes(v) = DemoCodes(w)

\* Nothing is stored, and no key drawn, before a backend has seeded.
ASSUME DatabasesAssumption == \A db \in Databases :
    /\ db \in Database /\ DatabaseSound(db)
    /\ \/ Present(db.anchors) = {} /\ db.drawn = 0
       \/ \E w \in Workers : DemoStored(db.anchors, db.chains, w)

\* The handlers refuse other bodies before they read anything.
ASSUME RequestsAssumption == \A r \in Requests :
    /\ r \in Request /\ r.op # "none"
    /\ r.op \in {"import_anchor", "import_chain"} => r.code \in Codes /\ r.leaf \in Certs
    /\ r.op = "lifecycle" => r.to \in Actions

-----------------------------------------------------------------------------
(* The state *)

VARIABLES
    now,        \* the clock
    users, anchors, chains, services,   \* the tables
    drawn,      \* the last key the sequence of the chains has given out
    inputs,     \* frozen inputs of table rollover_scenarios
    audit,      \* the last audit entry of each anchor and chain
    pc,         \* the step each backend is about to take
    req,        \* the request it serves
    seen,       \* what it has read
    budget      \* requests clients still send, and crashes still to come

tables == <<users, anchors, chains, services, drawn, inputs, audit>>
vars == <<now, users, anchors, chains, services, drawn, inputs, audit, pc, req, seen, budget>>

-----------------------------------------------------------------------------
(* What is read and frozen *)

Input == [ anchors    : [AnchorIds -> Anchor],   \* NoAnchor, NoChain: not in the input
           candidates : SUBSET ChainIds,
           chains     : [ChainIds -> Chain],
           services   : [ServiceIds -> ChainIds \cup {NoId}],
           meanwhile  : SUBSET ChainIds ]        \* history: committed after the chains were
                                                 \* listed, and before the services were read

Nothing == [ anchors |-> [id \in AnchorIds |-> NoAnchor], candidates |-> {},
             chains |-> [id \in ChainIds |-> NoChain], services |-> [s \in ServiceIds |-> NoId],
             meanwhile |-> {} ]

Seen == [ account : 1..Accounts, anchor : Anchor, chain : Chain,
          key    : ChainIds \cup {NoId},   \* of the row that is inserted
          input  : Input,
          listed : SUBSET ChainIds ]       \* history: the chains there were to list

Unread == [ account |-> 1, anchor |-> NoAnchor, chain |-> NoChain, key |-> NoId,
            input |-> Nothing, listed |-> {} ]

\* What the hash of an input is taken of.
Content(input) == [input EXCEPT !.meanwhile = {}]

\* buildSnapshot: that an anchor is archived does not enter an input.
Freeze(row) == [row EXCEPT !.archived = FALSE]

StoredAnchors == Present(anchors)
StoredChains  == Present(chains)

\* ORDER BY valid_to ASC, id DESC
ListedBefore(c, d) ==
    \/ chains[c].until < chains[d].until
    \/ chains[c].until = chains[d].until /\ c > d

\* Fault: the size of the page is not asked for, and the page is shorter by default.
FirstPageByDefault == {c \in StoredChains :
                         Cardinality({d \in StoredChains : ListedBefore(d, c)}) + 1 < PageSize}

FirstPage == {c \in StoredChains :
                Cardinality({d \in StoredChains : ListedBefore(d, c)}) < PageSize}

Starting == {"down", "find", "add", "count", "seed"}
Serving  == {"read", "candidates", "list", "services", "insert", "commit"}
Steps == Starting \cup {"idle"} \cup Serving

Audit == [ anchors : [AnchorIds -> Actions \cup {"none", "import"}],
           chains  : [ChainIds -> (ChainStates \cup {"none"}) \X (ChainStates \cup {"none"})] ]

TypeOK ==
    /\ now \in 0..MaxTime
    /\ users \in SUBSET (1..Accounts)
    /\ anchors \in [AnchorIds -> Anchor]
    /\ chains \in [ChainIds -> Chain]
    /\ services \in [ServiceIds -> ChainIds \cup {NoId}]
    /\ drawn \in Nat
    /\ inputs \in SUBSET Input
    /\ audit \in Audit
    /\ pc \in [Workers -> Steps]
    /\ req \in [Workers -> Request]
    /\ seen \in [Workers -> Seen]
    /\ budget \in [requests : 0..MaxRequests, crashes : 0..MaxCrashes]

\* The database is empty or in use, and no backend has started.
Init ==
    /\ now = 0
    /\ \E db \in Databases :
         /\ users = db.users /\ anchors = db.anchors
         /\ chains = db.chains /\ services = db.services /\ drawn = db.drawn
    /\ inputs = {}
    /\ audit = [anchors |-> [id \in AnchorIds |-> "none"], chains |-> [id \in ChainIds |-> <<"none", "none">>]]
    /\ pc = [w \in Workers |-> "down"]
    /\ req = [w \in Workers |-> NoRequest]
    /\ seen = [w \in Workers |-> Unread]
    /\ budget = [requests |-> MaxRequests, crashes |-> MaxCrashes]

-----------------------------------------------------------------------------
(* Helpers *)

Goto(w, step) == pc' = [pc EXCEPT ![w] = step]

\* The request is answered, or the start is over.
Leave(w, step) ==
    /\ Goto(w, step)
    /\ req' = [req EXCEPT ![w] = NoRequest]
    /\ seen' = [seen EXCEPT ![w] = Unread]

Refuse(w) == Leave(w, "idle") /\ UNCHANGED <<now, tables, budget>>

\* A read of the tables.
Read(w, record, step) ==
    /\ seen' = [seen EXCEPT ![w] = record]
    /\ Goto(w, step)
    /\ UNCHANGED <<now, tables, req, budget>>

At(w, step, op) == pc[w] = step /\ req[w].op = op

\* Bound: imports of chains are sent as long as there is a key in ChainIds for each.
RoomForImport ==
    drawn + Cardinality({w \in Workers : req[w].op = "import_chain" /\ pc[w] \in {"read", "insert"}}) + 1
      \in ChainIds

\* The transactions: a row and its audit entry.
StoreAnchor(w, id, row, action) ==
    /\ anchors' = [anchors EXCEPT ![id] = row]
    /\ audit' = [audit EXCEPT !.anchors[id] = action]
    /\ Leave(w, "idle")
    /\ UNCHANGED <<now, users, chains, services, drawn, inputs, budget>>

StoreChain(w, id, row, before) ==
    /\ chains' = [chains EXCEPT ![id] = row]
    /\ audit' = [audit EXCEPT !.chains[id] = <<before, row.state>>]
    /\ Leave(w, "idle")
    /\ UNCHANGED <<now, users, anchors, services, drawn, inputs, budget>>

-----------------------------------------------------------------------------
(* Start: database.Open and seed *)

\* The container is started, or started again: restart: unless-stopped.
Start(w) ==
    /\ pc[w] = "down"
    /\ Goto(w, "find")
    /\ UNCHANGED <<now, tables, req, seen, budget>>

\* Fault: one account too many.
NextAccountTooMany(w) ==
    IF seen[w].account > Accounts
    THEN Goto(w, "count") /\ UNCHANGED seen
    ELSE Goto(w, "find") /\ seen' = [seen EXCEPT ![w].account = seen[w].account + 1]

NextAccount(w) ==
    IF seen[w].account = Accounts
    THEN Goto(w, "count") /\ UNCHANGED seen
    ELSE Goto(w, "find") /\ seen' = [seen EXCEPT ![w].account = seen[w].account + 1]

FindAccount(w) ==
    /\ pc[w] = "find"
    /\ IF seen[w].account \in users THEN NextAccount(w) ELSE Goto(w, "add") /\ UNCHANGED seen
    /\ UNCHANGED <<now, tables, req, budget>>

\* The username is unique: when another backend was faster, this one exits.
AddAccount(w) ==
    /\ pc[w] = "add"
    /\ IF seen[w].account \in users
       THEN Leave(w, "down") /\ UNCHANGED users
       ELSE NextAccount(w) /\ users' = users \cup {seen[w].account} /\ UNCHANGED req
    /\ UNCHANGED <<now, anchors, chains, services, drawn, inputs, audit, budget>>

\* Fault: the domain is seeded again at every start.
CountAnchorsNever(w) ==
    /\ pc[w] = "count"
    /\ Goto(w, "seed") /\ UNCHANGED <<seen, req>>
    /\ UNCHANGED <<now, tables, budget>>

CountAnchors(w) ==
    /\ pc[w] = "count"
    /\ IF StoredAnchors = {} THEN Goto(w, "seed") /\ UNCHANGED <<seen, req>> ELSE Leave(w, "idle")
    /\ UNCHANGED <<now, tables, budget>>

\* The codes of the demo rows are unique too: all of them are inserted, or none
\* and the backend exits.  (No other row can be there: who found rows seeds none.)
DemoTaken(w) == \E id \in StoredAnchors, demo \in DemoAnchors(w) :
                    anchors[id].code = Demo[w].anchors[demo].code

\* Fault: the rows are inserted one table after the other, each on its own.
SeedDomainInParts(w) ==
    /\ pc[w] = "seed"
    /\ IF DemoTaken(w) THEN Leave(w, "down") /\ UNCHANGED <<anchors, chains, services, drawn>>
       ELSE /\ anchors' = [id \in AnchorIds |-> IF id \in DemoAnchors(w) THEN Demo[w].anchors[id] ELSE anchors[id]]
            /\ \/ Leave(w, "down") /\ UNCHANGED <<chains, services, drawn>>
               \/ /\ chains' = [id \in ChainIds |-> IF id \in DemoChains(w) THEN Demo[w].chains[id] ELSE chains[id]]
                  /\ services' = Demo[w].services /\ drawn' = Demo[w].drawn
                  /\ Leave(w, "idle")
    /\ UNCHANGED <<now, users, inputs, audit, budget>>

SeedDomain(w) ==
    /\ pc[w] = "seed"
    /\ IF DemoTaken(w) THEN Leave(w, "down") /\ UNCHANGED <<anchors, chains, services, drawn>>
       ELSE /\ anchors' = [id \in AnchorIds |-> IF id \in DemoAnchors(w) THEN Demo[w].anchors[id] ELSE anchors[id]]
            /\ chains' = [id \in ChainIds |-> IF id \in DemoChains(w) THEN Demo[w].chains[id] ELSE chains[id]]
            /\ services' = Demo[w].services /\ drawn' = Demo[w].drawn
            /\ Leave(w, "idle")
    /\ UNCHANGED <<now, users, inputs, audit, budget>>

Boot(w) == Start(w) \/ FindAccount(w) \/ AddAccount(w) \/ CountAnchors(w) \/ SeedDomain(w)

-----------------------------------------------------------------------------
(* Handlers *)

Receive(w) ==
    /\ pc[w] = "idle" /\ budget.requests > 0
    /\ \E r \in Requests :
         /\ r.op = "import_chain" => RoomForImport
         /\ req' = [req EXCEPT ![w] = r]
    /\ Goto(w, "read")
    /\ budget' = [budget EXCEPT !.requests = budget.requests - 1]
    /\ UNCHANGED <<now, tables, seen>>

\* TrustAnchorService.Import: the certificate is checked and its state computed
\* at the time of the request,
CheckAnchor(w) ==
    /\ At(w, "read", "import_anchor")
    /\ LET c == req[w].leaf IN
       IF ~ValidateTrustAnchor(c, now) THEN Refuse(w)
       ELSE Read(w, [seen[w] EXCEPT !.anchor =
              [ code |-> req[w].code, cert |-> c, revoked |-> FALSE, archived |-> FALSE,
                stored |-> CalculateCertificateState(now, c.until, FALSE, Soon) ]], "commit")

\* and inserted later, under any key that is free; its code and its fingerprint are
\* unique.
CommitAnchor(w) ==
    /\ At(w, "commit", "import_anchor")
    /\ IF \E id \in StoredAnchors : anchors[id].code = req[w].code \/ anchors[id].cert = req[w].leaf
       THEN Refuse(w)
       ELSE \E id \in AnchorIds \ StoredAnchors : StoreAnchor(w, id, seen[w].anchor, "import")

\* CertificateChainService.Import: only the anchor's certificate is looked at, not
\* whether it was revoked or archived.
CheckChain(w) ==
    /\ At(w, "read", "import_chain")
    /\ LET r == req[w] IN
       IF r.id \notin StoredAnchors THEN Refuse(w)
       ELSE IF ~ValidateChain(anchors[r.id].cert, r.leaf, r.others, now) THEN Refuse(w)
       ELSE \E window \in WindowOf(anchors[r.id].cert, r.leaf, r.others) :
              Read(w, [seen[w] EXCEPT !.chain =
                [ code |-> r.code, anchor |-> r.id, leaf |-> r.leaf, others |-> r.others,
                  from |-> window.from, until |-> window.until, state |-> "validated" ]], "insert")

\* The INSERT draws the key.  Nobody else sees the row yet, and the key is spent even
\* when the transaction is rolled back.
InsertChain(w) ==
    /\ At(w, "insert", "import_chain")
    /\ drawn + 1 \in ChainIds
    /\ drawn' = drawn + 1
    /\ seen' = [seen EXCEPT ![w].key = drawn + 1]
    /\ Goto(w, "commit")
    /\ UNCHANGED <<now, users, anchors, chains, services, inputs, audit, req, budget>>

\* Its code and its fingerprint are unique: of two transactions with the same, one waits
\* for the other and then fails.  The fingerprint is of the list of certificates, which is
\* kept as the leaf and the set of the others: the same ones may be another list.
\* (seedChain computes the fingerprint in another way, which is left out: no request
\* imports the chain of a demonstration.)
CodeTaken(w) == \E id \in StoredChains : chains[id].code = req[w].code
SameCertificates(w) ==
    \E id \in StoredChains : chains[id].leaf = req[w].leaf /\ chains[id].others = req[w].others

\* The audit entry and the COMMIT, whoever has drawn a key before or since.
CommitChain(w) ==
    /\ At(w, "commit", "import_chain")
    /\ \/ (CodeTaken(w) \/ SameCertificates(w)) /\ Refuse(w)
       \/ ~CodeTaken(w) /\ StoreChain(w, seen[w].key, seen[w].chain, "none")

ReadForLifecycle(w) ==
    /\ At(w, "read", "lifecycle")
    /\ IF \/ req[w].id \notin StoredAnchors
          \/ req[w].to \in {"revoke", "restore"} /\ anchors[req[w].id].revoked
       THEN Refuse(w)
       ELSE Read(w, [seen[w] EXCEPT !.anchor = anchors[req[w].id]], "commit")

\* Fault: a revocation is entered in the state only.
UpdatedStateOnly(row, action) ==
    CASE action = "revoke"  -> [row EXCEPT !.stored = "revoked"]
      [] action = "archive" -> [row EXCEPT !.archived = TRUE]
      [] OTHER              -> [row EXCEPT !.archived = FALSE]

\* The columns a lifecycle action updates.
Updated(row, action) ==
    CASE action = "revoke"  -> [row EXCEPT !.revoked = TRUE, !.stored = "revoked"]
      [] action = "archive" -> [row EXCEPT !.archived = TRUE]
      [] OTHER              -> [row EXCEPT !.archived = FALSE]

\* Fault: the whole row is saved, as it was read.
CommitLifecycleSavingRow(w) ==
    /\ At(w, "commit", "lifecycle")
    /\ StoreAnchor(w, req[w].id, Updated(seen[w].anchor, req[w].to), req[w].to)

\* UPDATE ... WHERE id = ?, whatever has become of the row since it was read.
CommitLifecycle(w) ==
    /\ At(w, "commit", "lifecycle")
    /\ StoreAnchor(w, req[w].id, Updated(anchors[req[w].id], req[w].to), req[w].to)

ReadForTransition(w) ==
    /\ At(w, "read", "transition")
    /\ IF \/ req[w].id \notin StoredChains
          \/ ~CanTransitionChain(chains[req[w].id].state, req[w].to)
       THEN Refuse(w)
       ELSE Read(w, [seen[w] EXCEPT !.chain = chains[req[w].id]], "commit")

\* Fault: the update is not guarded by the state that was read.
CommitTransitionUnguarded(w) ==
    /\ At(w, "commit", "transition")
    /\ StoreChain(w, req[w].id, [chains[req[w].id] EXCEPT !.state = req[w].to], seen[w].chain.state)

\* UPDATE ... WHERE id = ? AND chain_state = ?
CommitTransition(w) ==
    /\ At(w, "commit", "transition")
    /\ IF chains[req[w].id].state # seen[w].chain.state THEN Refuse(w)
       ELSE StoreChain(w, req[w].id, [chains[req[w].id] EXCEPT !.state = req[w].to], seen[w].chain.state)

\* RolloverScenarioService.Create: the two anchors,
ReadAnchors(w) ==
    /\ At(w, "read", "create")
    /\ LET ids == {req[w].id, req[w].new} IN
       IF req[w].id = req[w].new \/ ~(ids \subseteq StoredAnchors) THEN Refuse(w)
       ELSE Read(w, [seen[w] EXCEPT !.input.anchors =
              [id \in AnchorIds |-> IF id \in ids THEN Freeze(anchors[id]) ELSE NoAnchor]], "candidates")

\* the candidates, of which only the ids are kept,
FindCandidates(w) ==
    /\ At(w, "candidates", "create")
    /\ IF ~(req[w].candidates \subseteq StoredChains) THEN Refuse(w)
       ELSE Read(w, [seen[w] EXCEPT !.input.candidates = req[w].candidates], "list")

\* the first page of all chains,
ListChains(w) ==
    /\ At(w, "list", "create")
    /\ Read(w, [seen[w] EXCEPT !.listed = StoredChains, !.input.chains =
         [id \in ChainIds |-> IF id \in FirstPage THEN chains[id] ELSE NoChain]], "services")

\* and all services; ValidateSnapshot misses candidates, not the chains of services.
LoadServices(w) ==
    /\ At(w, "services", "create")
    /\ LET input == [seen[w].input EXCEPT !.services = services,
                                          !.meanwhile = StoredChains \ seen[w].listed] IN
       IF ~(input.candidates \subseteq Present(input.chains)) THEN Refuse(w)
       ELSE Read(w, [seen[w] EXCEPT !.input = input], "commit")

\* The input's hash is unique.
CommitInput(w) ==
    /\ At(w, "commit", "create")
    /\ IF \E old \in inputs : Content(old) = Content(seen[w].input) THEN Refuse(w)
       ELSE /\ inputs' = inputs \cup {seen[w].input}
            /\ Leave(w, "idle")
            /\ UNCHANGED <<now, users, anchors, chains, services, drawn, audit, budget>>

Handle(w) ==
    \/ CheckAnchor(w) \/ CommitAnchor(w)
    \/ CheckChain(w) \/ InsertChain(w) \/ CommitChain(w)
    \/ ReadForLifecycle(w) \/ CommitLifecycle(w)
    \/ ReadForTransition(w) \/ CommitTransition(w)
    \/ ReadAnchors(w) \/ FindCandidates(w) \/ ListChains(w) \/ LoadServices(w) \/ CommitInput(w)

\* A statement fails; a transaction is rolled back.
DatabaseFails(w) == pc[w] \in Serving /\ Refuse(w)

\* A backend dies, or a statement of its start fails and it exits.
Crash(w) ==
    /\ pc[w] # "down" /\ budget.crashes > 0
    /\ Leave(w, "down")
    /\ budget' = [budget EXCEPT !.crashes = budget.crashes - 1]
    /\ UNCHANGED <<now, tables>>

\* DependentServiceService stores a service with another chain, which it has found.
PlaceService ==
    /\ \E s \in ServiceIds : \E c \in StoredChains \ {services[s]} : services' = [services EXCEPT ![s] = c]
    /\ UNCHANGED <<now, users, anchors, chains, drawn, inputs, audit, pc, req, seen, budget>>

Tick ==
    /\ now < MaxTime
    /\ now' = now + 1
    /\ UNCHANGED <<tables, pc, req, seen, budget>>

Next ==
    \/ \E w \in Workers : Boot(w) \/ Receive(w) \/ Handle(w) \/ DatabaseFails(w) \/ Crash(w)
    \/ PlaceService \/ Tick

Spec == Init /\ [][Next]_vars

\* Containers are restarted, and what runs goes on.
FairSpec == Spec /\ \A w \in Workers : WF_vars(Boot(w) \/ Handle(w))

-----------------------------------------------------------------------------
(* Properties *)

\* Whatever lifecycle requests overlap, a revoked anchor stays revoked, in its
\* revocation time and in its stored state (a restore updates one column only).
RevocationIsFinal ==
    [][\A id \in AnchorIds :
         anchors[id].revoked => anchors'[id].revoked /\ anchors'[id].stored = "revoked"]_vars

\* The stored state of an anchor, which lists are filtered by and inputs are
\* frozen with, never says worse of it than its dates and its revocation do now.
StoredStateLags ==
    \A id \in StoredAnchors :
        LET row == anchors[id]
        IN Severity[row.stored] <= Severity[CalculateCertificateState(now, row.cert.until, row.revoked, Soon)]

\* Chain states move along their table, however many transitions overlap, and
\* the audit trail names the state each move has replaced.
ChainTrail ==
    [][\A id \in ChainIds :
         /\ id \in StoredChains /\ chains'[id] # chains[id] =>
              /\ CanTransitionChain(chains[id].state, chains'[id].state)
              /\ chains'[id] = [chains[id] EXCEPT !.state = chains'[id].state]
         /\ audit'.chains[id] # audit.chains[id] =>
              audit'.chains[id] =
                <<IF id \in StoredChains THEN chains[id].state ELSE "none", chains'[id].state>>]_vars

\* At every time in its window a chain would verify under its anchor again, and
\* Compare finds an overlap of two windows exactly if they share a time.
WindowsMeanValidity ==
    /\ \A id \in StoredChains : \A t \in Moments :
         chains[id].from <= t /\ t < chains[id].until =>
           ValidateChain(anchors[chains[id].anchor].cert, chains[id].leaf, chains[id].others, t)
    /\ \A a, b \in StoredChains :
         HasValidOverlap(chains[a], chains[b]) <=>
           \E t \in Moments : \A id \in {a, b} : chains[id].from <= t /\ t < chains[id].until

Moves(from, to) ==
    \/ from = to
    \/ CanTransitionChain(from, to)
    \/ \E via \in ChainStates : CanTransitionChain(from, via) /\ CanTransitionChain(via, to)

PastAnchor(frozen, row) ==
    /\ frozen.code = row.code /\ frozen.cert = row.cert
    /\ frozen.revoked => row.revoked
    /\ frozen.stored = row.stored \/ row.revoked

PastChain(frozen, row) ==
    /\ row = [frozen EXCEPT !.state = row.state]
    /\ Moves(frozen.state, row.state)

IsPast(input) ==
    /\ \A id \in Present(input.anchors) : PastAnchor(input.anchors[id], anchors[id])
    /\ \A id \in Present(input.chains) : PastChain(input.chains[id], chains[id])

\* A frozen input stays a true record: the rows it was taken from have only moved
\* forward since, so nothing it says of a revocation or a deprecation is undone.
FrozenInputsArePast == \A input \in inputs : IsPast(input)

\* What can be missing from a frozen input, although it is read in four statements while
\* others import: not a candidate; the chain of a service only when the list was full, or
\* when the chain was committed between the listing and the reading of the services,
\* whatever its key is.
FrozenGapsExplained ==
    \A input \in inputs :
      /\ input.candidates \subseteq Present(input.chains)
      /\ \A s \in ServiceIds :
           \/ input.services[s] \in Present(input.chains) \cup {NoId}
           \/ input.services[s] \in input.meanwhile
           \/ Cardinality(Present(input.chains)) = PageSize

\* Backends that start together, die and start again seed the demonstration once and
\* whole: no row of it without the others, and none of another backend's keys.
DemoIsWhole ==
    (\E w \in Workers : \E id \in StoredAnchors, demo \in DemoAnchors(w) :
         anchors[id].code = Demo[w].anchors[demo].code)
    => \E w \in Workers :
         /\ \A id \in DemoAnchors(w) : anchors[id].cert = Demo[w].anchors[id].cert
         /\ \A id \in DemoChains(w) : chains[id].leaf = Demo[w].chains[id].leaf

\* Once no more of them crash, every backend gets through its start, also one that
\* lost the race to seed, and answers what it has received.
BackendsServe == <>[](\A w \in Workers : pc[w] = "idle")

=============================================================================
