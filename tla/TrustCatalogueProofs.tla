-------------------------- MODULE TrustCatalogueProofs --------------------------
(***************************************************************************)
(* Proofs about TrustCatalogue for any number of backends, anchors, chains,*)
(* services and certificates, and any size of a page.                      *)
(***************************************************************************)
EXTENDS TrustCatalogue, FiniteSetTheorems, TLAPS

-----------------------------------------------------------------------------
(* The inductive invariant *)

TablesSound ==
    /\ \A id \in AnchorIds : AnchorSound(anchors[id], now)
    /\ \A id \in StoredChains : ChainSound(chains[id], anchors)
    /\ IsFiniteSet(StoredChains)
    /\ \A s \in ServiceIds : services[s] \in StoredChains \cup {NoId}

\* The row has been inserted, and the transaction has not been committed.
Inserted(w) == At(w, "commit", "import_chain")

\* The keys of chains come from one sequence: a key that a transaction holds is nobody else's.
KeysDrawn ==
    /\ \A id \in StoredChains : id <= drawn
    /\ \A w \in Workers : Inserted(w) =>
         /\ seen[w].key \in ChainIds \ StoredChains /\ seen[w].key <= drawn
         /\ \A v \in Workers \ {w} : Inserted(v) => seen[v].key # seen[w].key

\* Nothing is stored, or the demonstration of one backend is, whole.
SeededWhole ==
    \/ StoredAnchors = {}
    \/ \E w \in Workers : DemoStored(anchors, chains, w)

\* A backend serves only when the database has been seeded.
ServedAfterSeed ==
    \A w \in Workers : pc[w] \in Serving \cup {"idle"} => StoredAnchors # {}

AnchorsPast(input) == \A id \in Present(input.anchors) : PastAnchor(input.anchors[id], anchors[id])

ChainsPast(input) == \A id \in Present(input.chains) : PastChain(input.chains[id], chains[id])

\* The page has what there was to list, unless it is full.
PageExplained(record) ==
    \/ record.listed \subseteq Present(record.input.chains)
    \/ Cardinality(Present(record.input.chains)) = PageSize

GapsExplained(input) ==
    /\ input.candidates \subseteq Present(input.chains)
    /\ \A s \in ServiceIds :
         \/ input.services[s] \in Present(input.chains) \cup {NoId}
         \/ input.services[s] \in input.meanwhile
         \/ Cardinality(Present(input.chains)) = PageSize

\* What a handler has read and checked still holds when it uses it.
WorkerSound(w) ==
    /\ pc[w] \in Serving => req[w] \in Requests
    /\ At(w, "commit", "import_anchor") =>
         /\ AnchorSound(seen[w].anchor, now) /\ seen[w].anchor.code = req[w].code
         /\ seen[w].anchor.cert = req[w].leaf /\ ~seen[w].anchor.revoked
    /\ pc[w] \in {"insert", "commit"} /\ req[w].op = "import_chain" =>
         /\ ChainSound(seen[w].chain, anchors) /\ seen[w].chain.code = req[w].code
         /\ seen[w].chain.state = "validated"
    /\ At(w, "commit", "lifecycle") => req[w].id \in StoredAnchors
    /\ At(w, "commit", "transition") =>
         req[w].id \in StoredChains /\ CanTransitionChain(seen[w].chain.state, req[w].to)
    /\ req[w].op = "create" /\ pc[w] \in {"candidates", "list", "services", "commit"} =>
         AnchorsPast(seen[w].input)
    /\ req[w].op = "create" /\ pc[w] \in {"services", "commit"} =>
         ChainsPast(seen[w].input)
    /\ At(w, "services", "create") => PageExplained(seen[w])
    /\ At(w, "commit", "create") => GapsExplained(seen[w].input)

CatalogueInv ==
    /\ TypeOK
    /\ TablesSound /\ KeysDrawn /\ SeededWhole /\ ServedAfterSeed
    /\ \A input \in inputs : IsPast(input) /\ GapsExplained(input)
    /\ \A w \in Workers : WorkerSound(w)

\* What no step undoes: rows keep what they are and move on.
Forward ==
    /\ now' \in Nat /\ now <= now'
    /\ \A id \in StoredAnchors : PastAnchor(anchors[id], anchors'[id])
    /\ \A id \in StoredChains :
         /\ chains'[id] = [chains[id] EXCEPT !.state = chains'[id].state]
         /\ chains'[id].state = chains[id].state \/ CanTransitionChain(chains[id].state, chains'[id].state)

\* An audit entry of a chain names the state that was replaced and the one that is stored.
Trail ==
    \A id \in ChainIds : audit'.chains[id] # audit.chains[id] =>
        audit'.chains[id] =
            <<IF id \in StoredChains THEN chains[id].state ELSE "none", chains'[id].state>>

Sound == CatalogueInv' /\ Forward /\ Trail

-----------------------------------------------------------------------------
(* Certificates *)

LEMMA CertTypes ==
    ASSUME NEW c \in Certs
    PROVE  c.from \in Nat /\ c.until \in Nat
  BY CertsAssumption DEF CertificateOf

LEMMA SeverityTypes == \A state \in CertificateStates : Severity[state] \in Nat
  BY DEF Severity, CertificateStates

LEMMA StateTypes ==
    ASSUME NEW t, NEW until, NEW revoked
    PROVE  CalculateCertificateState(t, until, revoked, Soon) \in CertificateStates
  BY DEF CalculateCertificateState, CertificateStates

\* As time goes by, and when it is revoked, the state of a certificate gets only worse.
LEMMA SeverityGrows ==
    ASSUME NEW t \in Nat, NEW u \in Nat, t <= u, NEW until \in Nat,
           NEW before \in BOOLEAN, NEW after \in BOOLEAN, before => after
    PROVE  Severity[CalculateCertificateState(t, until, before, Soon)]
             <= Severity[CalculateCertificateState(u, until, after, Soon)]
  <1>1. CASE after
    <2>1. CalculateCertificateState(u, until, after, Soon) = "revoked"
      BY <1>1 DEF CalculateCertificateState
    <2>2. Severity["revoked"] = 3 /\ \A state \in CertificateStates : Severity[state] <= 3
      BY DEF Severity, CertificateStates
    <2> QED
      BY <2>1, <2>2, StateTypes
  <1>2. CASE ~after
    <2>1. ~before
      BY <1>2
    <2>2. /\ Severity["valid"] = 0 /\ Severity["expiring"] = 1
          /\ Severity["expired"] = 2 /\ Severity["revoked"] = 3
      BY DEF Severity, CertificateStates
    <2> QED
      BY <1>2, <2>1, <2>2, NumbersAssumption DEF CalculateCertificateState
  <1> QED
    BY <1>1, <1>2

LEMMA AnchorStaysSound ==
    ASSUME NEW row \in Anchor, NEW t \in Nat, NEW u \in Nat, t <= u, AnchorSound(row, t)
    PROVE  AnchorSound(row, u)
  <1> SUFFICES ASSUME row.code # NoCode
      PROVE  Severity[row.stored] <= Severity[CalculateCertificateState(u, row.cert.until, row.revoked, Soon)]
    BY DEF AnchorSound
  <1>1. row.cert.until \in Nat /\ row.revoked \in BOOLEAN /\ row.stored \in CertificateStates
    BY CertTypes DEF AnchorSound, Anchor
  <1>2. Severity[row.stored] <= Severity[CalculateCertificateState(t, row.cert.until, row.revoked, Soon)]
    BY DEF AnchorSound
  <1>3. Severity[CalculateCertificateState(t, row.cert.until, row.revoked, Soon)]
          <= Severity[CalculateCertificateState(u, row.cert.until, row.revoked, Soon)]
    BY <1>1, SeverityGrows
  <1> QED
    BY <1>1, <1>2, <1>3, SeverityTypes, StateTypes

\* A chain verifies again at every time in the window it is stored with.
LEMMA VerifiesAgain ==
    ASSUME NEW root \in Certs, NEW leaf \in Certs, NEW others \in SUBSET Certs,
           NEW window \in WindowOf(root, leaf, others),
           NEW t \in Nat, ValidateChain(root, leaf, others, t)
    PROVE  /\ window.from \in Nat /\ window.until \in Nat
           /\ leaf.from <= window.from /\ window.until <= leaf.until
           /\ \A u \in Nat : window.from <= u /\ u < window.until => ValidateChain(root, leaf, others, u)
  <1>1. /\ \A c \in {root, leaf} \cup others : c.from <= window.from /\ window.until <= c.until
        /\ \E c, d \in {root, leaf} \cup others : window = [from |-> c.from, until |-> d.until]
    BY DEF WindowOf, Narrowest
  <1>2. window.from \in Nat /\ window.until \in Nat
    BY <1>1, CertTypes
  <1>3. ASSUME NEW u \in Nat, window.from <= u, u < window.until
        PROVE  ValidateChain(root, leaf, others, u)
    <2>1. \A c \in {root, leaf} \cup others : c.from <= u /\ u < c.until
      BY <1>1, <1>2, <1>3, CertTypes
    <2>2. ValidateTrustAnchor(root, u)
      BY <2>1 DEF ValidateChain, ValidateTrustAnchor
    <2> DEFINE Longest == Cardinality(others) + 1
    <2>3. PICK n \in 1..Longest :
            \E path \in [1..n -> {leaf} \cup others] :
              /\ path[1] = leaf
              /\ \A i \in 1..n : UsableAt(path[i], t)
              /\ \A i \in 2..n : Signed(path[i - 1], path[i])
              /\ Signed(path[n], root) /\ UsableAt(root, t)
      BY DEF ValidateChain, Verify
    <2> HIDE DEF Longest
    <2>4. PICK path \in [1..n -> {leaf} \cup others] :
              /\ path[1] = leaf
              /\ \A i \in 1..n : UsableAt(path[i], t)
              /\ \A i \in 2..n : Signed(path[i - 1], path[i])
              /\ Signed(path[n], root) /\ UsableAt(root, t)
      BY <2>3
    <2>5. \A c \in {root, leaf} \cup others : UsableAt(c, t) => UsableAt(c, u)
      BY <2>1, CertTypes DEF UsableAt
    <2>6. \A i \in 1..n : UsableAt(path[i], u)
      BY <2>4, <2>5
    <2>7. UsableAt(root, u)
      BY <2>4, <2>5
    <2>8. \E m \in 1..Longest : \E p \in [1..m -> {leaf} \cup others] :
              /\ p[1] = leaf
              /\ \A i \in 1..m : UsableAt(p[i], u)
              /\ \A i \in 2..m : Signed(p[i - 1], p[i])
              /\ Signed(p[m], root) /\ UsableAt(root, u)
      BY <2>4, <2>6, <2>7
    <2> QED
      BY <2>2, <2>8 DEF ValidateChain, Verify, Longest
  <1> QED
    BY <1>1, <1>2, <1>3

-----------------------------------------------------------------------------
(* Rows *)

LEMMA PresentIs ==
    /\ \A rows \in [AnchorIds -> Anchor] : Present(rows) = {id \in AnchorIds : rows[id].code # NoCode}
    /\ \A rows \in [ChainIds -> Chain] : Present(rows) = {id \in ChainIds : rows[id].code # NoCode}
  BY DEF Present

LEMMA MomentsAreNumbers == Moments \subseteq Nat
  BY CertTypes DEF Moments

LEMMA PastAnchorTrans ==
    ASSUME NEW a, NEW b, NEW c, PastAnchor(a, b), PastAnchor(b, c)
    PROVE  PastAnchor(a, c)
  BY DEF PastAnchor

LEMMA MovesOn ==
    ASSUME NEW a \in ChainStates, NEW b \in ChainStates, NEW c \in ChainStates,
           Moves(a, b), b = c \/ CanTransitionChain(b, c)
    PROVE  Moves(a, c)
  BY DEF Moves, CanTransitionChain, ChainMoves, ChainStates

LEMMA PastChainTrans ==
    ASSUME NEW a \in Chain, NEW b \in Chain, NEW c \in Chain, PastChain(a, b),
           c = [b EXCEPT !.state = c.state], b.state = c.state \/ CanTransitionChain(b.state, c.state)
    PROVE  PastChain(a, c)
  <1>1. Moves(a.state, c.state)
    BY MovesOn DEF PastChain, Chain
  <1>2. c = [a EXCEPT !.state = c.state]
    BY DEF PastChain, Chain
  <1> QED
    BY <1>1, <1>2 DEF PastChain

\* A chain stays sound when anchors only move on.
LEMMA ChainStaysSound ==
    ASSUME NEW rows \in [AnchorIds -> Anchor], NEW later \in [AnchorIds -> Anchor],
           NEW row \in Chain, ChainSound(row, rows),
           \A id \in Present(rows) : later[id].code = rows[id].code /\ later[id].cert = rows[id].cert
    PROVE  ChainSound(row, later)
  <1>1. row.anchor \in Present(rows) /\ row.anchor \in Present(later)
    BY PresentIs DEF ChainSound
  <1>2. later[row.anchor].cert = rows[row.anchor].cert
    BY <1>1
  <1> QED
    BY <1>1, <1>2 DEF ChainSound

LEMMA ChainSoundAnyState ==
    ASSUME NEW row \in Chain, NEW next \in ChainStates, NEW rows, ChainSound(row, rows)
    PROVE  ChainSound([row EXCEPT !.state = next], rows)
  BY DEF ChainSound, Chain

-----------------------------------------------------------------------------
(* What a step that only moves forward keeps *)

LEMMA Tables ==
    ASSUME TypeOK
    PROVE  /\ StoredAnchors = {id \in AnchorIds : anchors[id].code # NoCode}
           /\ StoredChains = {id \in ChainIds : chains[id].code # NoCode}
           /\ \A id \in AnchorIds : anchors[id] \in Anchor
           /\ \A id \in ChainIds : chains[id] \in Chain
  BY PresentIs DEF TypeOK, StoredAnchors, StoredChains

\* The same of the tables after the step.
LEMMA LaterTables ==
    ASSUME TypeOK'
    PROVE  /\ StoredAnchors' = {id \in AnchorIds : anchors'[id].code # NoCode}
           /\ StoredChains' = {id \in ChainIds : chains'[id].code # NoCode}
           /\ Present(chains') = StoredChains'
           /\ \A id \in AnchorIds : anchors'[id] \in Anchor
           /\ \A id \in ChainIds : chains'[id] \in Chain
  BY PresentIs DEF TypeOK, StoredAnchors, StoredChains

LEMMA StoredStays ==
    ASSUME TypeOK, TypeOK', Forward
    PROVE  /\ StoredAnchors \subseteq StoredAnchors' /\ StoredChains \subseteq StoredChains'
           /\ \A id \in StoredChains :
                chains'[id].code = chains[id].code /\ chains'[id].leaf = chains[id].leaf
  <1>1. \A id \in StoredAnchors : id \in AnchorIds /\ anchors'[id].code = anchors[id].code
    BY Tables DEF Forward, PastAnchor
  <1>2. \A id \in StoredChains :
          id \in ChainIds /\ chains'[id].code = chains[id].code /\ chains'[id].leaf = chains[id].leaf
    BY Tables DEF Forward, Chain
  <1> QED
    BY <1>1, <1>2, Tables, LaterTables

LEMMA AnchorsStayPast ==
    ASSUME TypeOK, TypeOK', Forward, NEW input \in Input, AnchorsPast(input)
    PROVE  AnchorsPast(input)'
  <1> SUFFICES ASSUME NEW id \in Present(input.anchors)
      PROVE  PastAnchor(input.anchors[id], anchors'[id])
    BY DEF AnchorsPast
  <1>1. id \in AnchorIds /\ input.anchors[id].code # NoCode
    BY PresentIs DEF Input
  <1>2. PastAnchor(input.anchors[id], anchors[id])
    BY DEF AnchorsPast
  <1>3. id \in StoredAnchors
    BY <1>1, <1>2, Tables DEF PastAnchor
  <1> QED
    BY <1>2, <1>3, PastAnchorTrans DEF Forward

LEMMA PastChainsAreStored ==
    ASSUME TypeOK, NEW input \in Input, ChainsPast(input)
    PROVE  Present(input.chains) \subseteq StoredChains
  <1> SUFFICES ASSUME NEW id \in Present(input.chains) PROVE id \in StoredChains
    OBVIOUS
  <1>1. id \in ChainIds /\ input.chains[id].code # NoCode /\ input.chains[id] \in Chain
    BY PresentIs DEF Input
  <1>2. chains[id] = [input.chains[id] EXCEPT !.state = chains[id].state]
    BY DEF ChainsPast, PastChain
  <1>3. chains[id].code = input.chains[id].code
    BY <1>1, <1>2 DEF Chain
  <1> QED
    BY <1>1, <1>3, Tables

LEMMA ChainsStayPast ==
    ASSUME TypeOK, TypeOK', Forward, NEW input \in Input, ChainsPast(input)
    PROVE  ChainsPast(input)'
  <1> SUFFICES ASSUME NEW id \in Present(input.chains)
      PROVE  PastChain(input.chains[id], chains'[id])
    BY DEF ChainsPast
  <1>1. id \in ChainIds /\ input.chains[id] \in Chain
    BY PresentIs DEF Input
  <1>2. PastChain(input.chains[id], chains[id])
    BY DEF ChainsPast
  <1>3. id \in StoredChains
    BY PastChainsAreStored
  <1> QED
    BY <1>1, <1>2, <1>3, Tables, LaterTables, PastChainTrans DEF Forward

LEMMA SeededStays ==
    ASSUME TypeOK, TypeOK', Forward, SeededWhole, StoredAnchors = {} => StoredAnchors' = {}
    PROVE  SeededWhole'
  <1> SUFFICES ASSUME NEW w \in Workers, DemoStored(anchors, chains, w)
      PROVE  DemoStored(anchors', chains', w)
    BY DEF SeededWhole
  <1>1. ASSUME NEW id \in DemoAnchors(w)
        PROVE  anchors'[id].code = Demo[w].anchors[id].code /\ anchors'[id].cert = Demo[w].anchors[id].cert
    <2>1. anchors[id].code = Demo[w].anchors[id].code /\ anchors[id].cert = Demo[w].anchors[id].cert
      BY <1>1 DEF DemoStored
    <2>2. id \in StoredAnchors
      BY <1>1, <2>1, Tables DEF DemoAnchors
    <2> QED
      BY <2>1, <2>2 DEF Forward, PastAnchor
  <1>2. ASSUME NEW id \in DemoChains(w)
        PROVE  chains'[id].code # NoCode /\ chains'[id].leaf = Demo[w].chains[id].leaf
    <2>1. chains[id].code # NoCode /\ chains[id].leaf = Demo[w].chains[id].leaf
      BY <1>2 DEF DemoStored
    <2>2. id \in StoredChains
      BY <1>2, <2>1, Tables DEF DemoChains
    <2> QED
      BY <2>1, <2>2, StoredStays
  <1> QED
    BY <1>1, <1>2 DEF DemoStored

LEMMA ChainsStaySound ==
    ASSUME TypeOK, TypeOK', Forward, NEW row \in Chain, ChainSound(row, anchors)
    PROVE  ChainSound(row, anchors')
  <1>1. \A id \in Present(anchors) : anchors'[id].code = anchors[id].code /\ anchors'[id].cert = anchors[id].cert
    BY DEF Forward, PastAnchor, StoredAnchors
  <1>2. anchors \in [AnchorIds -> Anchor] /\ anchors' \in [AnchorIds -> Anchor]
    BY DEF TypeOK
  <1> QED
    BY <1>1, <1>2, ChainStaysSound

\* What a backend has read, while others take steps.
LEMMA WorkerStaysSound ==
    ASSUME TypeOK, TypeOK', Forward, NEW w \in Workers, WorkerSound(w),
           pc'[w] = pc[w], req'[w] = req[w], seen'[w] = seen[w]
    PROVE  WorkerSound(w)'
  <1>1. seen[w] \in Seen /\ now \in Nat /\ now' \in Nat /\ now <= now'
    BY NumbersAssumption DEF TypeOK, Forward
  <1>2. seen[w].anchor \in Anchor /\ seen[w].chain \in Chain /\ seen[w].input \in Input
    BY <1>1 DEF Seen
  <1>3. AnchorSound(seen[w].anchor, now) => AnchorSound(seen[w].anchor, now')
    BY <1>1, <1>2, AnchorStaysSound
  <1>4. ChainSound(seen[w].chain, anchors) => ChainSound(seen[w].chain, anchors')
    BY <1>2, ChainsStaySound
  <1>5. StoredAnchors \subseteq StoredAnchors' /\ StoredChains \subseteq StoredChains'
    BY StoredStays
  <1> DEFINE input == seen[w].input
  <1>6. /\ AnchorsPast(input) => \A id \in Present(input.anchors) : PastAnchor(input.anchors[id], anchors'[id])
        /\ ChainsPast(input) => \A id \in Present(input.chains) : PastChain(input.chains[id], chains'[id])
    <2>1. input \in Input
      BY <1>2
    <2> HIDE DEF input
    <2>2. ASSUME NEW i \in Input
          PROVE  /\ AnchorsPast(i) => \A id \in Present(i.anchors) : PastAnchor(i.anchors[id], anchors'[id])
                 /\ ChainsPast(i) => \A id \in Present(i.chains) : PastChain(i.chains[id], chains'[id])
      BY AnchorsStayPast, ChainsStayPast DEF AnchorsPast, ChainsPast
    <2> QED
      BY <2>1, <2>2
  <1>7. /\ (pc'[w] \in Serving <=> pc[w] \in Serving)
        /\ \A step, op : At(w, step, op)' <=> At(w, step, op)
    BY DEF At
  <1> HIDE DEF input
  <1>8. seen'[w].input = input /\ seen[w].input = input
    BY DEF input
  <1>9. /\ AnchorsPast(seen[w].input) => AnchorsPast(seen[w].input)'
        /\ ChainsPast(seen[w].input) => ChainsPast(seen[w].input)'
        /\ PageExplained(seen[w]) => PageExplained(seen[w])'
        /\ GapsExplained(seen[w].input) => GapsExplained(seen[w].input)'
    BY <1>6, <1>8 DEF AnchorsPast, ChainsPast, PageExplained, GapsExplained
  <1> QED
    BY <1>3, <1>4, <1>5, <1>9 DEF WorkerSound, At

-----------------------------------------------------------------------------
(* What every action has to show *)

LEMMA InvParts ==
    ASSUME CatalogueInv
    PROVE  /\ TypeOK /\ TablesSound /\ KeysDrawn /\ SeededWhole /\ ServedAfterSeed
           /\ \A input \in inputs : input \in Input /\ AnchorsPast(input) /\ ChainsPast(input) /\ GapsExplained(input)
           /\ \A w \in Workers : WorkerSound(w)
  BY DEF CatalogueInv, IsPast, AnchorsPast, ChainsPast, TypeOK

\* Who is neither served nor starting afresh has what it had.
Untouched(w) == pc'[w] = pc[w] /\ req'[w] = req[w] /\ seen'[w] = seen[w]

\* A step that stores no chain, and in which none is inserted, leaves the keys alone.
LEMMA KeysStay ==
    ASSUME CatalogueInv, drawn' = drawn, StoredChains' = StoredChains,
           \A w \in Workers : Untouched(w) \/ ~Inserted(w)'
    PROVE  KeysDrawn'
  <1>1. ASSUME NEW w \in Workers, Inserted(w)'
        PROVE  Inserted(w) /\ seen'[w] = seen[w]
    BY <1>1 DEF Untouched, Inserted, At
  <1> QED
    BY <1>1, InvParts DEF KeysDrawn

LEMMA StepMakesInv ==
    ASSUME CatalogueInv, TypeOK', Forward, TablesSound', KeysDrawn',
           SeededWhole',
           \A w \in Workers : Untouched(w) \/ WorkerSound(w)',
           \A w \in Workers : Untouched(w) \/ (pc'[w] \in Serving \cup {"idle"} => StoredAnchors' # {}),
           \A input \in inputs' \ inputs : AnchorsPast(input)' /\ ChainsPast(input)' /\ GapsExplained(input)
    PROVE  CatalogueInv'
  <1>1. ServedAfterSeed'
    <2>1. StoredAnchors \subseteq StoredAnchors'
      BY InvParts, StoredStays
    <2> QED
      BY <2>1, InvParts DEF ServedAfterSeed, Untouched
  <1>2. \A w \in Workers : WorkerSound(w)'
    BY InvParts, WorkerStaysSound DEF Untouched
  <1>3. ASSUME NEW input \in inputs'
        PROVE  IsPast(input)' /\ GapsExplained(input)'
    <2>1. AnchorsPast(input)' /\ ChainsPast(input)' /\ GapsExplained(input)
      BY <1>3, InvParts, AnchorsStayPast, ChainsStayPast
    <2> QED
      BY <2>1 DEF IsPast, AnchorsPast, ChainsPast, GapsExplained
  <1> QED
    BY <1>1, <1>2, <1>3 DEF CatalogueInv

\* A step that leaves the rows alone.
LEMMA StillIsForward ==
    ASSUME CatalogueInv, now' \in Nat, now <= now', UNCHANGED <<anchors, chains>>
    PROVE  Forward
  <1>1. TypeOK
    BY InvParts
  <1>2. \A id \in StoredAnchors : PastAnchor(anchors[id], anchors'[id])
    BY DEF PastAnchor
  <1>3. ASSUME NEW id \in StoredChains
        PROVE  chains'[id] = [chains[id] EXCEPT !.state = chains'[id].state]
    <2>1. chains[id] \in Chain /\ chains'[id] = chains[id]
      BY <1>1, Tables
    <2> QED
      BY <2>1 DEF Chain
  <1> QED
    BY <1>2, <1>3 DEF Forward

LEMMA StillTables ==
    ASSUME CatalogueInv, now' \in Nat, now <= now', UNCHANGED <<anchors, chains>>,
           \A s \in ServiceIds : services'[s] \in StoredChains \cup {NoId}
    PROVE  TablesSound'
  <1>1. now \in Nat /\ \A id \in AnchorIds : anchors[id] \in Anchor /\ AnchorSound(anchors[id], now)
    BY InvParts, Tables, NumbersAssumption DEF TypeOK, TablesSound
  <1>2. \A id \in AnchorIds : AnchorSound(anchors[id], now')
    BY <1>1, AnchorStaysSound
  <1>3. StoredChains' = StoredChains
    BY DEF StoredChains
  <1> QED
    BY <1>2, <1>3, InvParts DEF TablesSound

\* A backend moves on without changing a row.
LEMMA StillKeepsInv ==
    ASSUME CatalogueInv, TypeOK', UNCHANGED <<now, anchors, chains, services, inputs, audit>>,
           NEW w \in Workers, \A v \in Workers \ {w} : Untouched(v),
           WorkerSound(w)', KeysDrawn',
           pc[w] \notin Serving \cup {"idle"} /\ pc'[w] \in Serving \cup {"idle"} => StoredAnchors # {}
    PROVE  Sound
  <1>1. now \in Nat /\ now <= now'
    BY InvParts, NumbersAssumption DEF TypeOK
  <1>2. Forward
    BY <1>1, StillIsForward
  <1>3. TablesSound'
    BY <1>1, StillTables, InvParts DEF TablesSound
  <1>4. StoredAnchors' = StoredAnchors /\ SeededWhole'
    BY InvParts DEF StoredAnchors, SeededWhole
  <1>5. pc'[w] \in Serving \cup {"idle"} => StoredAnchors' # {}
    BY <1>4, InvParts DEF ServedAfterSeed
  <1>6. CatalogueInv'
    BY <1>2, <1>3, <1>4, <1>5, StepMakesInv
  <1> QED
    BY <1>2, <1>6 DEF Sound, Trail

LEMMA LeavingIsSound ==
    ASSUME TypeOK, NEW w \in Workers, NEW step \in {"idle", "down"}, Leave(w, step)
    PROVE  /\ WorkerSound(w)' /\ pc'[w] = step /\ ~Inserted(w)'
           /\ \A v \in Workers \ {w} : Untouched(v)
           /\ pc' \in [Workers -> Steps] /\ req' \in [Workers -> Request] /\ seen' \in [Workers -> Seen]
  <1>1. NoRequest \in Request
    BY DEF NoRequest, Request
  <1>2. Unread \in Seen
    <2>1. NoAnchor \in Anchor
      BY DEF NoAnchor, Anchor, CertificateStates
    <2>2. NoChain \in Chain
      BY DEF NoChain, Chain, ChainStates
    <2>3. Nothing \in Input
      BY <2>1, <2>2 DEF Nothing, Input
    <2> QED
      BY <2>1, <2>2, <2>3, NumbersAssumption DEF Unread, Seen
  <1>3. /\ pc' \in [Workers -> Steps] /\ req' \in [Workers -> Request] /\ seen' \in [Workers -> Seen]
        /\ pc'[w] = step /\ req'[w] = NoRequest
        /\ \A v \in Workers \ {w} : Untouched(v)
    BY <1>1, <1>2 DEF TypeOK, Leave, Goto, Steps, Starting, Untouched
  <1>4. pc'[w] \notin Serving /\ req'[w].op = "none"
    BY <1>3 DEF NoRequest, Serving
  <1>5. WorkerSound(w)'
    BY <1>4 DEF WorkerSound, At, Serving
  <1>6. ~Inserted(w)'
    BY <1>4 DEF Inserted, At
  <1> QED
    BY <1>3, <1>5, <1>6

\* Whoever refuses, dies or gives up.
LEMMA LeaveKeepsInv ==
    ASSUME CatalogueInv, NEW w \in Workers, NEW step \in {"idle", "down"}, Leave(w, step),
           pc[w] \in Serving \cup {"idle"} \/ step = "down" \/ StoredAnchors # {},
           UNCHANGED <<now, anchors, chains, services, drawn, inputs, audit>>,
           users' \in SUBSET (1..Accounts), budget' \in [requests : 0..MaxRequests, crashes : 0..MaxCrashes]
    PROVE  Sound
  <1>1. TypeOK
    BY InvParts
  <1>2. /\ WorkerSound(w)' /\ pc'[w] = step /\ ~Inserted(w)'
        /\ \A v \in Workers \ {w} : Untouched(v)
        /\ pc' \in [Workers -> Steps] /\ req' \in [Workers -> Request] /\ seen' \in [Workers -> Seen]
    BY <1>1, LeavingIsSound
  <1>3. TypeOK'
    BY <1>1, <1>2 DEF TypeOK
  <1>4. KeysDrawn'
    BY <1>2, KeysStay DEF StoredChains
  <1> QED
    BY <1>2, <1>3, <1>4, StillKeepsInv DEF Serving

LEMMA RefuseKeepsInv ==
    ASSUME CatalogueInv, NEW w \in Workers, pc[w] \in Serving, Refuse(w)
    PROVE  Sound
  BY LeaveKeepsInv, InvParts DEF Refuse, tables, TypeOK

-----------------------------------------------------------------------------
(* The start of a backend *)

\* A step of a backend that does not serve yet needs no more than its types.
LEMMA StartingKeepsInv ==
    ASSUME CatalogueInv, NEW w \in Workers, NEW step \in Starting, Goto(w, step),
           UNCHANGED <<now, anchors, chains, services, drawn, inputs, audit, req, budget>>,
           users' \in SUBSET (1..Accounts),
           seen' \in [Workers -> Seen], \A v \in Workers \ {w} : seen'[v] = seen[v]
    PROVE  Sound
  <1>1. TypeOK'
    BY InvParts DEF TypeOK, Goto, Steps
  <1>2. pc'[w] = step /\ pc'[w] \notin Serving \cup {"idle"} /\ pc'[w] # "commit"
    BY InvParts DEF TypeOK, Goto, Starting, Serving
  <1>3. WorkerSound(w)'
    BY <1>2 DEF WorkerSound, At, Serving
  <1>4. \A v \in Workers \ {w} : Untouched(v)
    BY InvParts DEF Untouched, TypeOK, Goto
  <1>5. KeysDrawn'
    BY <1>2, <1>4, KeysStay DEF Inserted, At, StoredChains
  <1> QED
    BY <1>1, <1>2, <1>3, <1>4, <1>5, StillKeepsInv

LEMMA NextAccountTypes ==
    ASSUME TypeOK, NEW w \in Workers, NextAccount(w)
    PROVE  /\ \E step \in Starting : Goto(w, step)
           /\ seen' \in [Workers -> Seen] /\ \A v \in Workers \ {w} : seen'[v] = seen[v]
  <1>1. CASE seen[w].account = Accounts
    BY <1>1 DEF NextAccount, TypeOK, Starting
  <1>2. CASE seen[w].account # Accounts
    <2>1. seen[w] \in Seen /\ seen[w].account + 1 \in 1..Accounts
      <3>1. seen[w] \in Seen
        BY DEF TypeOK
      <3>2. seen[w].account \in 1..Accounts
        BY <3>1 DEF Seen
      <3> QED
        BY <1>2, <3>1, <3>2, NumbersAssumption
    <2>2. [seen[w] EXCEPT !.account = seen[w].account + 1] \in Seen
      BY <2>1 DEF Seen
    <2>3. seen' = [seen EXCEPT ![w] = [seen[w] EXCEPT !.account = seen[w].account + 1]] /\ Goto(w, "find")
      BY <1>2 DEF NextAccount
    <2> QED
      BY <2>2, <2>3 DEF TypeOK, Starting
  <1> QED
    BY <1>1, <1>2

LEMMA FindAccountKeepsInv ==
    ASSUME CatalogueInv, NEW w \in Workers, Start(w) \/ FindAccount(w)
    PROVE  Sound
  <1>1. TypeOK
    BY InvParts
  <1>2. /\ \E step \in Starting : Goto(w, step)
        /\ seen' \in [Workers -> Seen] /\ \A v \in Workers \ {w} : seen'[v] = seen[v]
    <2>1. CASE NextAccount(w)
      BY <1>1, <2>1, NextAccountTypes
    <2>2. CASE Goto(w, "add") /\ UNCHANGED seen
      BY <1>1, <2>2 DEF TypeOK, Starting
    <2>3. CASE Start(w)
      BY <1>1, <2>3 DEF TypeOK, Starting, Start
    <2> QED
      BY <2>1, <2>2, <2>3 DEF FindAccount
  <1>3. UNCHANGED <<now, users, anchors, chains, services, drawn, inputs, audit, req, budget>>
    BY DEF Start, FindAccount, tables
  <1> QED
    BY <1>1, <1>2, <1>3, StartingKeepsInv DEF TypeOK

LEMMA AddAccountKeepsInv ==
    ASSUME CatalogueInv, NEW w \in Workers, AddAccount(w)
    PROVE  Sound
  <1>1. TypeOK
    BY InvParts
  <1>2. UNCHANGED <<now, anchors, chains, services, drawn, inputs, audit, budget>>
    BY DEF AddAccount
  <1>3. CASE seen[w].account \in users
    <2>1. Leave(w, "down") /\ users' = users
      BY <1>3 DEF AddAccount
    <2> QED
      BY <1>1, <1>2, <2>1, LeaveKeepsInv DEF TypeOK
  <1>4. CASE seen[w].account \notin users
    <2>1. NextAccount(w) /\ users' = users \cup {seen[w].account} /\ req' = req
      BY <1>4 DEF AddAccount
    <2>2. users' \in SUBSET (1..Accounts)
      BY <1>1, <2>1 DEF TypeOK, Seen
    <2> QED
      BY <1>1, <1>2, <2>1, <2>2, NextAccountTypes, StartingKeepsInv
  <1> QED
    BY <1>3, <1>4

LEMMA CountAnchorsKeepsInv ==
    ASSUME CatalogueInv, NEW w \in Workers, CountAnchors(w)
    PROVE  Sound
  <1>1. TypeOK
    BY InvParts
  <1>2. UNCHANGED <<now, users, anchors, chains, services, drawn, inputs, audit, budget>>
    BY DEF CountAnchors, tables
  <1>3. CASE StoredAnchors = {}
    <2>1. Goto(w, "seed") /\ UNCHANGED <<seen, req>>
      BY <1>3 DEF CountAnchors
    <2> QED
      BY <1>1, <1>2, <2>1, StartingKeepsInv DEF TypeOK, Starting
  <1>4. CASE StoredAnchors # {}
    <2>1. Leave(w, "idle")
      BY <1>4 DEF CountAnchors
    <2> QED
      BY <1>1, <1>2, <1>4, <2>1, LeaveKeepsInv DEF TypeOK
  <1> QED
    BY <1>3, <1>4

\* Rows are only seeded into empty tables: what any backend seeded has a code that
\* every other backend's demonstration has too, and such a code is unique.
LEMMA SeedFindsNothing ==
    ASSUME CatalogueInv, NEW w \in Workers, ~DemoTaken(w)
    PROVE  StoredAnchors = {} /\ StoredChains = {}
  <1>1. TypeOK /\ TablesSound /\ SeededWhole
    BY InvParts
  <1>2. StoredAnchors = {}
    <2> SUFFICES ASSUME StoredAnchors # {} PROVE FALSE
      OBVIOUS
    <2>1. PICK v \in Workers : DemoStored(anchors, chains, v)
      BY <1>1 DEF SeededWhole
    <2>2. DemoCodes(v) # {} /\ DemoCodes(v) = DemoCodes(w)
      BY DemoAssumption
    <2>3. PICK mine \in DemoAnchors(w), theirs \in DemoAnchors(v) :
            Demo[w].anchors[mine].code = Demo[v].anchors[theirs].code
      BY <2>2 DEF DemoCodes
    <2>4. theirs \in StoredAnchors /\ anchors[theirs].code = Demo[w].anchors[mine].code
      BY <1>1, <2>1, <2>3, Tables DEF DemoStored, DemoAnchors
    <2> QED
      BY <2>3, <2>4 DEF DemoTaken
  <1>3. StoredChains = {}
    BY <1>1, <1>2 DEF TablesSound, ChainSound, StoredAnchors
  <1> QED
    BY <1>2, <1>3

LEMMA SeedDomainKeepsInv ==
    ASSUME CatalogueInv, NEW w \in Workers, SeedDomain(w)
    PROVE  Sound
  <1>1. TypeOK /\ TablesSound
    BY InvParts
  <1>2. UNCHANGED <<now, users, inputs, audit, budget>>
    BY DEF SeedDomain
  <1>3. CASE DemoTaken(w)
    <2>1. Leave(w, "down") /\ UNCHANGED <<anchors, chains, services, drawn>>
      BY <1>3 DEF SeedDomain
    <2> QED
      BY <1>1, <1>2, <2>1, LeaveKeepsInv DEF TypeOK
  <1>4. CASE ~DemoTaken(w)
    <2> DEFINE rows == Demo[w].anchors
               links == Demo[w].chains
    <2>1. /\ anchors' = [id \in AnchorIds |-> IF id \in DemoAnchors(w) THEN rows[id] ELSE anchors[id]]
          /\ chains' = [id \in ChainIds |-> IF id \in DemoChains(w) THEN links[id] ELSE chains[id]]
          /\ services' = Demo[w].services /\ drawn' = Demo[w].drawn
          /\ Leave(w, "idle")
      BY <1>4 DEF SeedDomain
    <2>2. StoredAnchors = {} /\ StoredChains = {}
      BY <1>4, SeedFindsNothing
    <2>3. /\ rows \in [AnchorIds -> Anchor] /\ links \in [ChainIds -> Chain]
          /\ Demo[w].services \in [ServiceIds -> ChainIds \cup {NoId}] /\ Demo[w].drawn \in Nat
      BY DemoAssumption DEF Database
    <2>4. DatabaseSound(Demo[w]) /\ DemoCodes(w) # {}
      BY DemoAssumption
    <2>5. /\ DemoAnchors(w) = {id \in AnchorIds : rows[id].code # NoCode}
          /\ DemoChains(w) = {id \in ChainIds : links[id].code # NoCode}
          /\ Present(rows) = DemoAnchors(w) /\ Present(links) = DemoChains(w)
      BY <2>3, PresentIs DEF DemoAnchors, DemoChains
    <2>6. /\ \A id \in AnchorIds : AnchorSound(rows[id], 0)
          /\ \A id \in DemoChains(w) : ChainSound(links[id], rows)
          /\ IsFiniteSet(DemoChains(w)) /\ \A id \in DemoChains(w) : id <= drawn'
          /\ \A s \in ServiceIds : services'[s] \in DemoChains(w) \cup {NoId}
      BY <2>1, <2>4, <2>5 DEF DatabaseSound
    <2> HIDE DEF rows, links
    <2>7. TypeOK'
      BY <1>1, <1>2, <2>1, <2>3, LeavingIsSound DEF TypeOK
    <2>8. /\ \A id \in DemoAnchors(w) : anchors'[id] = rows[id]
          /\ \A id \in DemoChains(w) : chains'[id] = links[id]
          /\ \A id \in AnchorIds \ DemoAnchors(w) : anchors'[id] = anchors[id] /\ anchors[id].code = NoCode
          /\ StoredAnchors' = DemoAnchors(w) /\ StoredChains' = DemoChains(w)
      <3>1. \A id \in AnchorIds : anchors[id].code = NoCode
        BY <1>1, <2>2, Tables
      <3>2. \A id \in ChainIds : chains[id].code = NoCode
        BY <1>1, <2>2, Tables
      <3>3. /\ \A id \in DemoAnchors(w) : anchors'[id] = rows[id]
            /\ \A id \in DemoChains(w) : chains'[id] = links[id]
            /\ \A id \in AnchorIds \ DemoAnchors(w) : anchors'[id] = anchors[id]
            /\ \A id \in ChainIds \ DemoChains(w) : chains'[id] = chains[id]
        BY <2>1, <2>5
      <3>4. StoredAnchors' = DemoAnchors(w)
        BY <2>5, <2>7, <3>1, <3>3, LaterTables
      <3>5. StoredChains' = DemoChains(w)
        BY <2>5, <2>7, <3>2, <3>3, LaterTables
      <3> QED
        BY <3>1, <3>3, <3>4, <3>5
    <2>9. TablesSound'
      <3>1. now \in Nat /\ now' = now
        BY <1>1, <1>2, NumbersAssumption DEF TypeOK
      <3>2. ASSUME NEW id \in AnchorIds PROVE AnchorSound(anchors'[id], now')
        <4>1. CASE id \in DemoAnchors(w)
          BY <2>3, <2>6, <2>8, <3>1, <4>1, AnchorStaysSound
        <4>2. CASE id \notin DemoAnchors(w)
          BY <1>1, <2>8, <3>1, <4>2 DEF TablesSound
        <4> QED
          BY <4>1, <4>2
      <3>3. ASSUME NEW id \in DemoChains(w) PROVE ChainSound(chains'[id], anchors')
        <4>1. links[id] \in Chain /\ ChainSound(links[id], rows) /\ chains'[id] = links[id]
          BY <2>3, <2>5, <2>6, <2>8
        <4>2. \A a \in Present(rows) : anchors'[a].code = rows[a].code /\ anchors'[a].cert = rows[a].cert
          BY <2>5, <2>8
        <4>3. anchors' \in [AnchorIds -> Anchor]
          BY <2>7 DEF TypeOK
        <4> QED
          BY <2>3, <4>1, <4>2, <4>3, ChainStaysSound
      <3> QED
        BY <2>6, <2>8, <3>2, <3>3 DEF TablesSound
    <2>10. Forward
      BY <1>1, <1>2, <2>2, NumbersAssumption DEF Forward, TypeOK
    <2>11. SeededWhole'
      <3>1. DemoStored(anchors', chains', w)
        BY <2>5, <2>8 DEF DemoStored, rows, links
      <3> QED
        BY <3>1 DEF SeededWhole
    <2>12. StoredAnchors' # {}
      BY <2>4, <2>8 DEF DemoCodes
    <2>13. WorkerSound(w)' /\ ~Inserted(w)' /\ \A v \in Workers \ {w} : Untouched(v)
      BY <1>1, <2>1, LeavingIsSound
    <2>14. KeysDrawn'
      <3>1. ASSUME NEW v \in Workers PROVE ~Inserted(v)'
        <4>1. pc[v] \notin Serving
          BY <2>2, InvParts DEF ServedAfterSeed
        <4> QED
          BY <2>13, <4>1 DEF Untouched, Inserted, At, Serving
      <3> QED
        BY <2>6, <2>8, <3>1 DEF KeysDrawn
    <2>15. CatalogueInv'
      BY <1>2, <2>7, <2>9, <2>10, <2>11, <2>12, <2>13, <2>14, StepMakesInv
    <2> QED
      BY <1>2, <2>10, <2>15 DEF Sound, Trail
  <1> QED
    BY <1>3, <1>4

-----------------------------------------------------------------------------
(* What handlers read *)

\* A read: what is read has its type, and is sound for the step that uses it.
LEMMA ReadKeepsInv ==
    ASSUME CatalogueInv, NEW w \in Workers, pc[w] \in Serving,
           NEW record \in Seen, NEW step \in Serving, Read(w, record, step), WorkerSound(w)',
           step = "commit" => req[w].op # "import_chain"
    PROVE  Sound
  <1>1. TypeOK'
    BY InvParts DEF TypeOK, Read, Goto, Steps, tables
  <1>2. \A v \in Workers \ {w} : Untouched(v)
    BY InvParts DEF Untouched, TypeOK, Read, Goto
  <1>3. UNCHANGED <<now, anchors, chains, services, drawn, inputs, audit>>
    BY DEF Read, tables
  <1>4. ~Inserted(w)'
    BY InvParts DEF TypeOK, Read, Goto, Inserted, At
  <1>5. KeysDrawn'
    BY <1>2, <1>3, <1>4, KeysStay DEF StoredChains
  <1> QED
    BY <1>1, <1>2, <1>3, <1>5, StillKeepsInv

LEMMA WhatIsRead ==
    ASSUME TypeOK, NEW w \in Workers, NEW record, NEW step, Read(w, record, step)
    PROVE  /\ pc'[w] = step /\ req'[w] = req[w] /\ seen'[w] = record
           /\ UNCHANGED <<now, anchors, chains, services, inputs, audit>>
  BY DEF TypeOK, Read, Goto, tables

\* The request a handler serves.
LEMMA Asked ==
    ASSUME CatalogueInv, NEW w \in Workers, pc[w] \in Serving
    PROVE  /\ req[w] \in Requests /\ req[w] \in Request /\ req[w].op # "none"
           /\ req[w].op \in {"import_anchor", "import_chain"} => req[w].code \in Codes /\ req[w].leaf \in Certs
           /\ req[w].op = "lifecycle" => req[w].to \in Actions
           /\ req[w].others \in SUBSET Certs /\ req[w].candidates \in SUBSET ChainIds
           /\ seen[w] \in Seen /\ seen[w].anchor \in Anchor /\ seen[w].chain \in Chain
           /\ seen[w].input \in Input
  <1>1. req[w] \in Requests
    BY InvParts DEF WorkerSound
  <1>2. req[w] \in Request
    BY <1>1, RequestsAssumption
  <1>3. req[w].others \in SUBSET Certs /\ req[w].candidates \in SUBSET ChainIds
    BY <1>2 DEF Request
  <1>4. seen[w] \in Seen
    BY InvParts DEF TypeOK
  <1> QED
    BY <1>1, <1>2, <1>3, <1>4, RequestsAssumption DEF Seen

LEMMA ReceiveKeepsInv ==
    ASSUME CatalogueInv, NEW w \in Workers, Receive(w)
    PROVE  Sound
  <1>1. TypeOK
    BY InvParts
  <1>2. PICK r \in Requests : req' = [req EXCEPT ![w] = r]
    BY DEF Receive
  <1>3. r \in Request
    BY RequestsAssumption
  <1>4. pc[w] = "idle" /\ Goto(w, "read") /\ UNCHANGED <<now, users, anchors, chains, services, drawn, inputs, audit, seen>>
    BY DEF Receive, tables
  <1>5. budget' \in [requests : 0..MaxRequests, crashes : 0..MaxCrashes]
    <2>1. budget \in [requests : 0..MaxRequests, crashes : 0..MaxCrashes] /\ budget.requests > 0
      BY <1>1 DEF TypeOK, Receive
    <2>2. budget.requests - 1 \in 0..MaxRequests
      BY <2>1, NumbersAssumption
    <2> QED
      BY <2>1, <2>2 DEF Receive
  <1>6. TypeOK'
    BY <1>1, <1>2, <1>3, <1>4, <1>5 DEF TypeOK, Goto, Steps, Serving
  <1>7. pc'[w] = "read" /\ req'[w] = r /\ \A v \in Workers \ {w} : Untouched(v)
    BY <1>1, <1>2, <1>4 DEF TypeOK, Goto, Untouched
  <1>8. WorkerSound(w)'
    BY <1>7 DEF WorkerSound, At
  <1>9. KeysDrawn'
    BY <1>4, <1>7, KeysStay DEF Inserted, At, StoredChains
  <1> QED
    BY <1>4, <1>6, <1>7, <1>8, <1>9, StillKeepsInv

LEMMA CheckAnchorKeepsInv ==
    ASSUME CatalogueInv, NEW w \in Workers, CheckAnchor(w)
    PROVE  Sound
  <1>1. TypeOK /\ pc[w] = "read" /\ pc[w] \in Serving /\ req[w].op = "import_anchor"
    BY InvParts DEF CheckAnchor, At, Serving
  <1>2. CASE Refuse(w)
    BY <1>1, <1>2, RefuseKeepsInv
  <1>3. CASE ~Refuse(w)
    <2> DEFINE c == req[w].leaf
               row == [ code |-> req[w].code, cert |-> c, revoked |-> FALSE, archived |-> FALSE,
                        stored |-> CalculateCertificateState(now, c.until, FALSE, Soon) ]
               record == [seen[w] EXCEPT !.anchor = row]
    <2>1. Read(w, record, "commit")
      BY <1>3 DEF CheckAnchor
    <2>2. c \in Certs /\ req[w].code \in Codes /\ seen[w] \in Seen /\ req[w] \in Requests
      BY <1>1, Asked
    <2>3. row \in Anchor
      BY <2>2, StateTypes DEF Anchor
    <2>4. row.code = req[w].code /\ row.cert = c /\ row.revoked = FALSE
          /\ row.stored = CalculateCertificateState(now, row.cert.until, row.revoked, Soon)
      OBVIOUS
    <2> HIDE DEF row
    <2>5. AnchorSound(row, now)
      <3>1. Severity[row.stored] \in Nat
        BY <2>4, StateTypes, SeverityTypes
      <3> QED
        BY <2>2, <2>4, <3>1 DEF AnchorSound
    <2>6. record \in Seen /\ record.anchor = row
      BY <2>2, <2>3 DEF Seen
    <2> HIDE DEF record
    <2>7. pc'[w] = "commit" /\ req'[w] = req[w] /\ seen'[w] = record /\ now' = now
      BY <1>1, <2>1, WhatIsRead
    <2>8. WorkerSound(w)'
      BY <1>1, <2>2, <2>4, <2>5, <2>6, <2>7 DEF WorkerSound, At
    <2> QED
      BY <1>1, <2>1, <2>6, <2>8, ReadKeepsInv DEF Serving
  <1> QED
    BY <1>2, <1>3

LEMMA CheckChainKeepsInv ==
    ASSUME CatalogueInv, NEW w \in Workers, CheckChain(w)
    PROVE  Sound
  <1>1. TypeOK /\ TablesSound /\ pc[w] = "read" /\ pc[w] \in Serving /\ req[w].op = "import_chain"
    BY InvParts DEF CheckChain, At, Serving
  <1>2. CASE Refuse(w)
    BY <1>1, <1>2, RefuseKeepsInv
  <1>3. CASE ~Refuse(w)
    <2> DEFINE r == req[w]
               root == anchors[r.id].cert
    <2>1. /\ r.id \in StoredAnchors /\ ValidateChain(root, r.leaf, r.others, now)
          /\ \E window \in WindowOf(root, r.leaf, r.others) :
               Read(w, [seen[w] EXCEPT !.chain =
                 [ code |-> r.code, anchor |-> r.id, leaf |-> r.leaf, others |-> r.others,
                   from |-> window.from, until |-> window.until, state |-> "validated" ]], "insert")
      BY <1>3 DEF CheckChain
    <2>2. PICK window \in WindowOf(root, r.leaf, r.others) :
               Read(w, [seen[w] EXCEPT !.chain =
                 [ code |-> r.code, anchor |-> r.id, leaf |-> r.leaf, others |-> r.others,
                   from |-> window.from, until |-> window.until, state |-> "validated" ]], "insert")
      BY <2>1
    <2>3. r.leaf \in Certs /\ r.others \in SUBSET Certs /\ r.code \in Codes /\ seen[w] \in Seen /\ req[w] \in Requests
      BY <1>1, Asked
    <2>4. root \in Certs /\ r.id \in AnchorIds /\ now \in Nat
      BY <1>1, <2>1, Tables, NumbersAssumption DEF TablesSound, AnchorSound, TypeOK
    <2>5. /\ window.from \in Nat /\ window.until \in Nat
          /\ r.leaf.from <= window.from /\ window.until <= r.leaf.until
          /\ \A u \in Nat : window.from <= u /\ u < window.until => ValidateChain(root, r.leaf, r.others, u)
      BY <2>1, <2>3, <2>4, VerifiesAgain
    <2> DEFINE row == [ code |-> r.code, anchor |-> r.id, leaf |-> r.leaf, others |-> r.others,
                        from |-> window.from, until |-> window.until, state |-> "validated" ]
               record == [seen[w] EXCEPT !.chain = row]
    <2>6. row \in Chain
      BY <2>3, <2>4, <2>5 DEF Chain, ChainStates
    <2>7. /\ row.code = r.code /\ row.anchor = r.id /\ row.leaf = r.leaf /\ row.others = r.others
          /\ row.from = window.from /\ row.until = window.until /\ row.state = "validated"
      OBVIOUS
    <2>8. Read(w, record, "insert")
      BY <2>2
    <2> HIDE DEF row
    <2>9. ChainSound(row, anchors)
      BY <2>1, <2>3, <2>5, <2>7, MomentsAreNumbers DEF ChainSound, StoredAnchors
    <2>10. record \in Seen /\ record.chain = row
      BY <2>3, <2>6 DEF Seen
    <2> HIDE DEF record
    <2>11. pc'[w] = "insert" /\ req'[w] = req[w] /\ seen'[w] = record /\ anchors' = anchors
      BY <1>1, <2>8, WhatIsRead
    <2>12. WorkerSound(w)'
      BY <1>1, <2>3, <2>7, <2>9, <2>10, <2>11 DEF WorkerSound, At
    <2> QED
      BY <1>1, <2>8, <2>10, <2>12, ReadKeepsInv DEF Serving
  <1> QED
    BY <1>2, <1>3

\* A key is drawn: greater than every other.
LEMMA InsertChainKeepsInv ==
    ASSUME CatalogueInv, NEW w \in Workers, InsertChain(w)
    PROVE  Sound
  <1>1. TypeOK /\ KeysDrawn /\ pc[w] = "insert" /\ pc[w] \in Serving /\ req[w].op = "import_chain"
    BY InvParts DEF InsertChain, At, Serving
  <1> DEFINE key == drawn + 1
             record == [seen[w] EXCEPT !.key = key]
  <1>2. /\ key \in ChainIds /\ drawn' = key /\ Goto(w, "commit")
        /\ seen' = [seen EXCEPT ![w] = record]
        /\ UNCHANGED <<now, users, anchors, chains, services, inputs, audit, req, budget>>
    BY DEF InsertChain
  <1>3. drawn \in Nat /\ key \in Nat /\ drawn < key
    BY <1>1 DEF TypeOK
  <1>4. req[w] \in Requests /\ seen[w] \in Seen
    BY <1>1, Asked
  <1>5. record \in Seen /\ record.key = key /\ record.chain = seen[w].chain
    BY <1>2, <1>4 DEF Seen
  <1> HIDE DEF key, record
  <1>6. TypeOK'
    BY <1>1, <1>2, <1>3, <1>5 DEF TypeOK, Goto, Steps, Serving
  <1>7. pc'[w] = "commit" /\ req'[w] = req[w] /\ seen'[w] = record /\ \A v \in Workers \ {w} : Untouched(v)
    BY <1>1, <1>2 DEF TypeOK, Goto, Untouched
  <1>8. WorkerSound(w)'
    <2>1. /\ ChainSound(seen[w].chain, anchors) /\ seen[w].chain.code = req[w].code
          /\ seen[w].chain.state = "validated"
      BY <1>1, InvParts DEF WorkerSound
    <2> QED
      BY <1>1, <1>2, <1>4, <1>5, <1>7, <2>1 DEF WorkerSound, At
  <1>9. KeysDrawn'
    <2>1. StoredChains' = StoredChains /\ StoredChains \subseteq Nat
      BY <1>1, <1>2, Tables, NumbersAssumption DEF StoredChains
    <2>2. ASSUME NEW v \in Workers \ {w}, Inserted(v)'
          PROVE  Inserted(v) /\ seen'[v] = seen[v] /\ seen[v].key \in ChainIds /\ seen[v].key < key
      <3>1. Inserted(v) /\ seen'[v] = seen[v]
        BY <1>7, <2>2 DEF Untouched, Inserted, At
      <3>2. seen[v].key \in ChainIds /\ seen[v].key <= drawn
        BY <1>1, <3>1 DEF KeysDrawn
      <3>3. seen[v].key \in Nat
        BY <3>2, NumbersAssumption
      <3>4. seen[v].key < key
        BY <1>3, <3>2, <3>3
      <3> QED
        BY <3>1, <3>2, <3>4
    <2>3. \A id \in StoredChains : id < key
      BY <1>1, <1>3, <2>1 DEF KeysDrawn
    <2>4. key \in ChainIds \ StoredChains /\ key <= drawn'
      BY <1>2, <1>3, <2>3
    <2>5. \A v \in Workers \ {w} : Inserted(v)' => seen'[v].key \in ChainIds \ StoredChains
            /\ seen'[v].key <= drawn' /\ seen'[v].key # key
      <3> SUFFICES ASSUME NEW v \in Workers \ {w}, Inserted(v)'
                   PROVE  /\ seen'[v].key \in ChainIds \ StoredChains
                          /\ seen'[v].key <= drawn' /\ seen'[v].key # key
        OBVIOUS
      <3>1. Inserted(v) /\ seen'[v] = seen[v] /\ seen[v].key \in ChainIds /\ seen[v].key < key
        BY <2>2
      <3>2. seen[v].key \notin StoredChains
        BY <1>1, <3>1 DEF KeysDrawn
      <3>3. seen[v].key \in Nat
        BY <3>1, NumbersAssumption
      <3>4. seen[v].key <= key /\ seen[v].key # key
        BY <1>3, <3>1, <3>3
      <3> QED
        BY <1>2, <3>1, <3>2, <3>4
    <2>6. \A v \in Workers \ {w}, u \in Workers \ {w} : u # v /\ Inserted(v)' /\ Inserted(u)' =>
            seen'[u].key # seen'[v].key
      BY <1>1, <2>2 DEF KeysDrawn
    <2>7. \A id \in StoredChains : id <= drawn'
      BY <1>2, <1>3, <2>1, <2>3
    <2> QED
      BY <1>5, <1>7, <2>1, <2>4, <2>5, <2>6, <2>7 DEF KeysDrawn
  <1> QED
    BY <1>1, <1>2, <1>6, <1>7, <1>8, <1>9, StillKeepsInv

LEMMA ReadRowKeepsInv ==
    ASSUME CatalogueInv, NEW w \in Workers, ReadForLifecycle(w) \/ ReadForTransition(w)
    PROVE  Sound
  <1>1. TypeOK /\ pc[w] = "read" /\ pc[w] \in Serving
    BY InvParts DEF ReadForLifecycle, ReadForTransition, At, Serving
  <1>2. req[w] \in Requests /\ seen[w] \in Seen
    BY <1>1, Asked
  <1>3. CASE Refuse(w)
    BY <1>1, <1>3, RefuseKeepsInv
  <1>4. CASE ReadForLifecycle(w) /\ ~Refuse(w)
    <2> DEFINE record == [seen[w] EXCEPT !.anchor = anchors[req[w].id]]
    <2>1. req[w].op = "lifecycle" /\ req[w].id \in StoredAnchors /\ Read(w, record, "commit")
      BY <1>4 DEF ReadForLifecycle, At
    <2>2. record \in Seen
      BY <1>1, <1>2, <2>1, Tables DEF Seen
    <2> HIDE DEF record
    <2>3. pc'[w] = "commit" /\ req'[w] = req[w] /\ StoredAnchors' = StoredAnchors
      BY <1>1, <2>1, WhatIsRead DEF StoredAnchors
    <2>4. WorkerSound(w)'
      BY <1>2, <2>1, <2>3 DEF WorkerSound, At
    <2> QED
      BY <1>1, <2>1, <2>2, <2>4, ReadKeepsInv DEF Serving
  <1>5. CASE ReadForTransition(w) /\ ~Refuse(w)
    <2> DEFINE record == [seen[w] EXCEPT !.chain = chains[req[w].id]]
    <2>1. /\ req[w].op = "transition" /\ req[w].id \in StoredChains /\ Read(w, record, "commit")
          /\ CanTransitionChain(chains[req[w].id].state, req[w].to)
      BY <1>5 DEF ReadForTransition, At
    <2>2. record \in Seen /\ record.chain = chains[req[w].id]
      BY <1>1, <1>2, <2>1, Tables DEF Seen
    <2> HIDE DEF record
    <2>3. pc'[w] = "commit" /\ req'[w] = req[w] /\ seen'[w] = record /\ StoredChains' = StoredChains
      BY <1>1, <2>1, WhatIsRead DEF StoredChains
    <2>4. WorkerSound(w)'
      BY <1>2, <2>1, <2>2, <2>3 DEF WorkerSound, At
    <2> QED
      BY <1>1, <2>1, <2>2, <2>4, ReadKeepsInv DEF Serving
  <1> QED
    BY <1>3, <1>4, <1>5

-----------------------------------------------------------------------------
(* What is read for a frozen input *)

LEMMA NotPresent == NoAnchor.code = NoCode /\ NoChain.code = NoCode
  BY DEF NoAnchor, NoChain

\* Some of the anchors, as they are.
LEMMA FreezeIsPast ==
    ASSUME TypeOK, NEW ids \in SUBSET StoredAnchors, NEW rows,
           rows = [id \in AnchorIds |-> IF id \in ids THEN Freeze(anchors[id]) ELSE NoAnchor]
    PROVE  /\ rows \in [AnchorIds -> Anchor]
           /\ \A id \in Present(rows) : PastAnchor(rows[id], anchors[id])
  <1>1. NoAnchor \in Anchor
    BY DEF NoAnchor, Anchor, CertificateStates
  <1>2. ASSUME NEW id \in AnchorIds
        PROVE  Freeze(anchors[id]) \in Anchor /\ PastAnchor(Freeze(anchors[id]), anchors[id])
    BY <1>2, Tables DEF Freeze, Anchor, PastAnchor
  <1>3. rows \in [AnchorIds -> Anchor]
    BY <1>1, <1>2
  <1>4. \A id \in Present(rows) : id \in AnchorIds /\ rows[id] = Freeze(anchors[id])
    BY <1>3, PresentIs, NotPresent
  <1> QED
    BY <1>2, <1>3, <1>4

\* Some of the chains, as they are.
LEMMA PageIsPast ==
    ASSUME TypeOK, NEW ids \in SUBSET StoredChains, NEW rows,
           rows = [id \in ChainIds |-> IF id \in ids THEN chains[id] ELSE NoChain]
    PROVE  /\ rows \in [ChainIds -> Chain] /\ Present(rows) = ids
           /\ \A id \in Present(rows) : PastChain(rows[id], chains[id])
  <1>1. NoChain \in Chain
    BY DEF NoChain, Chain, ChainStates
  <1>2. rows \in [ChainIds -> Chain]
    BY <1>1, Tables
  <1>3. Present(rows) = ids
    BY <1>2, PresentIs, NotPresent, Tables
  <1>4. ASSUME NEW id \in Present(rows) PROVE PastChain(rows[id], chains[id])
    <2>1. rows[id] = chains[id] /\ chains[id] \in Chain
      BY <1>3, Tables
    <2> QED
      BY <2>1 DEF PastChain, Moves, Chain
  <1> QED
    BY <1>2, <1>3, <1>4

\* Of a finite set, the k elements of the lowest ranks are all of it, or k elements.
LEMMA LowRanks ==
    ASSUME NEW S, IsFiniteSet(S), NEW rank \in [S -> Nat], NEW k \in Nat,
           \A c \in S : rank[c] < Cardinality(S),
           \A c, d \in S : rank[c] = rank[d] => c = d
    PROVE  {c \in S : rank[c] < k} = S \/ Cardinality({c \in S : rank[c] < k}) = k
  <1> DEFINE n == Cardinality(S)
             low == {c \in S : rank[c] < k}
  <1>1. n \in Nat
    BY FS_CardinalityType
  <1> HIDE DEF n
  <1>2. CASE n <= k
    BY <1>1, <1>2 DEF n
  <1>3. CASE k < n
    <2>1. /\ IsFiniteSet(0..n-1) /\ Cardinality(0..n-1) = n
          /\ IsFiniteSet(0..k-1) /\ Cardinality(0..k-1) = k
      <3>1. ASSUME NEW m \in Nat PROVE IsFiniteSet(0..m-1) /\ Cardinality(0..m-1) = m
        <4>1. m - 1 \in Int /\ 0 \in Int
          OBVIOUS
        <4>2. IsFiniteSet(0..m-1) /\ Cardinality(0..m-1) = IF 0 > m-1 THEN 0 ELSE (m-1)-0+1
          BY <4>1, FS_Interval
        <4> QED
          BY <4>2
      <3> QED
        BY <1>1, <3>1
    <2>2. rank \in [S -> 0..n-1]
      BY <1>1 DEF n
    <2>3. rank \in Injection(S, 0..n-1)
      BY <2>2 DEF Injection, IsInjective
    <2>4. rank \in Surjection(S, 0..n-1)
      BY <2>1, <2>3, FS_Injection DEF n
    <2>5. \A i \in 0..n-1 : \E c \in S : rank[c] = i
      BY <2>4 DEF Surjection
    <2> DEFINE f == [c \in low |-> rank[c]]
    <2>6. f \in [low -> 0..k-1]
      OBVIOUS
    <2>7. f \in Injection(low, 0..k-1)
      BY <2>6 DEF Injection, IsInjective
    <2>8. \A i \in 0..k-1 : \E c \in low : f[c] = i
      <3> SUFFICES ASSUME NEW i \in 0..k-1 PROVE \E c \in low : f[c] = i
        OBVIOUS
      <3>1. PICK c \in S : rank[c] = i
        BY <1>1, <1>3, <2>5
      <3>2. c \in low
        BY <3>1
      <3> QED
        BY <3>1, <3>2
    <2>9. f \in Surjection(low, 0..k-1)
      BY <2>6, <2>8 DEF Surjection
    <2> HIDE DEF f
    <2>10. Cardinality(low) = k
      BY <2>1, <2>7, <2>9, FS_Injection
    <2> QED
      BY <2>10
  <1> QED
    BY <1>1, <1>2, <1>3

\* The first page is all chains, or full.
LEMMA FirstPageIs ==
    ASSUME CatalogueInv
    PROVE  FirstPage \subseteq StoredChains /\ (FirstPage = StoredChains \/ Cardinality(FirstPage) = PageSize)
  <1>1. IsFiniteSet(StoredChains)
    BY InvParts DEF TablesSound
  <1>2. \A c \in StoredChains : c \in Nat /\ chains[c].until \in Nat
    <2>1. \A c \in StoredChains : c \in ChainIds /\ chains[c] \in Chain
      BY InvParts, Tables
    <2> QED
      BY <2>1, NumbersAssumption DEF Chain
  <1> DEFINE Before(c) == {d \in StoredChains : ListedBefore(d, c)}
             rank == [c \in StoredChains |-> Cardinality(Before(c))]
  <1>3. ASSUME NEW c \in StoredChains
        PROVE  /\ IsFiniteSet(Before(c)) /\ Cardinality(Before(c)) \in Nat
               /\ c \notin Before(c)
    BY <1>1, <1>2, FS_Subset, FS_CardinalityType DEF ListedBefore
  <1>4. ASSUME NEW c \in StoredChains, NEW S \in SUBSET StoredChains, Before(c) \cup {c} \subseteq S
        PROVE  Cardinality(Before(c)) < Cardinality(S)
    <2>1. IsFiniteSet(S) /\ Cardinality(S) \in Nat
      BY <1>1, FS_Subset, FS_CardinalityType
    <2>2. IsFiniteSet(Before(c)) /\ Cardinality(Before(c)) \in Nat /\ c \notin Before(c)
      BY <1>3
    <2> HIDE DEF Before
    <2>3. Cardinality(Before(c) \cup {c}) = Cardinality(Before(c)) + 1
      BY <2>2, FS_AddElement
    <2>4. Cardinality(Before(c) \cup {c}) <= Cardinality(S)
      BY <1>4, <2>1, FS_Subset
    <2> QED
      BY <2>1, <2>2, <2>3, <2>4
  <1>5. rank \in [StoredChains -> Nat]
    BY <1>3
  <1>6. \A c \in StoredChains : rank[c] < Cardinality(StoredChains)
    BY <1>4
  <1>7. ASSUME NEW c \in StoredChains, NEW d \in StoredChains, ListedBefore(c, d)
        PROVE  rank[c] < rank[d]
    <2>1. Before(c) \cup {c} \subseteq Before(d)
      BY <1>2, <1>7 DEF ListedBefore
    <2> QED
      BY <1>4, <2>1
  <1>8. \A c, d \in StoredChains : rank[c] = rank[d] => c = d
    <2> SUFFICES ASSUME NEW c \in StoredChains, NEW d \in StoredChains, rank[c] = rank[d] PROVE c = d
      OBVIOUS
    <2>1. ~ListedBefore(c, d) /\ ~ListedBefore(d, c)
      BY <1>5, <1>7
    <2> QED
      BY <1>2, <2>1 DEF ListedBefore
  <1>9. FirstPage = {c \in StoredChains : rank[c] < PageSize}
    BY DEF FirstPage
  <1> HIDE DEF rank
  <1>10. PageSize \in Nat
    BY NumbersAssumption
  <1>11. {c \in StoredChains : rank[c] < PageSize} = StoredChains
          \/ Cardinality({c \in StoredChains : rank[c] < PageSize}) = PageSize
    BY <1>1, <1>5, <1>6, <1>8, <1>10, LowRanks
  <1> QED
    BY <1>9, <1>11

LEMMA ReadAnchorsKeepsInv ==
    ASSUME CatalogueInv, NEW w \in Workers, ReadAnchors(w)
    PROVE  Sound
  <1>1. TypeOK /\ pc[w] = "read" /\ pc[w] \in Serving /\ req[w].op = "create"
    BY InvParts DEF ReadAnchors, At, Serving
  <1>2. CASE Refuse(w)
    BY <1>1, <1>2, RefuseKeepsInv
  <1>3. CASE ~Refuse(w)
    <2> DEFINE ids == {req[w].id, req[w].new}
               rows == [id \in AnchorIds |-> IF id \in ids THEN Freeze(anchors[id]) ELSE NoAnchor]
               input == [seen[w].input EXCEPT !.anchors = rows]
               record == [seen[w] EXCEPT !.input = input]
    <2>1. ids \subseteq StoredAnchors /\ Read(w, record, "candidates")
      BY <1>3 DEF ReadAnchors
    <2>2. req[w] \in Requests /\ seen[w] \in Seen /\ seen[w].input \in Input
      BY <1>1, Asked
    <2> HIDE DEF ids
    <2>3. rows \in [AnchorIds -> Anchor] /\ \A id \in Present(rows) : PastAnchor(rows[id], anchors[id])
      BY <1>1, <2>1, FreezeIsPast
    <2> HIDE DEF rows
    <2>4. input \in Input /\ input.anchors = rows
      BY <2>2, <2>3 DEF Input
    <2> HIDE DEF input
    <2>5. record \in Seen /\ record.input = input
      BY <2>2, <2>4 DEF Seen
    <2> HIDE DEF record
    <2>6. pc'[w] = "candidates" /\ req'[w] = req[w] /\ seen'[w] = record /\ anchors' = anchors
      BY <1>1, <2>1, WhatIsRead
    <2>7. AnchorsPast(seen[w].input)'
      BY <2>3, <2>4, <2>5, <2>6 DEF AnchorsPast
    <2>8. WorkerSound(w)'
      BY <1>1, <2>2, <2>6, <2>7 DEF WorkerSound, At
    <2> QED
      BY <1>1, <2>1, <2>5, <2>8, ReadKeepsInv DEF Serving
  <1> QED
    BY <1>2, <1>3

LEMMA FindCandidatesKeepsInv ==
    ASSUME CatalogueInv, NEW w \in Workers, FindCandidates(w)
    PROVE  Sound
  <1>1. TypeOK /\ pc[w] = "candidates" /\ pc[w] \in Serving /\ req[w].op = "create"
    BY InvParts DEF FindCandidates, At, Serving
  <1>2. CASE Refuse(w)
    BY <1>1, <1>2, RefuseKeepsInv
  <1>3. CASE ~Refuse(w)
    <2> DEFINE input == [seen[w].input EXCEPT !.candidates = req[w].candidates]
               record == [seen[w] EXCEPT !.input = input]
    <2>1. Read(w, record, "list")
      BY <1>3 DEF FindCandidates
    <2>2. /\ req[w] \in Requests /\ req[w].candidates \in SUBSET ChainIds
          /\ seen[w] \in Seen /\ seen[w].input \in Input
      BY <1>1, Asked
    <2>3. input \in Input /\ input.anchors = seen[w].input.anchors
      BY <2>2 DEF Input
    <2> HIDE DEF input
    <2>4. record \in Seen /\ record.input = input
      BY <2>2, <2>3 DEF Seen
    <2> HIDE DEF record
    <2>5. pc'[w] = "list" /\ req'[w] = req[w] /\ seen'[w] = record /\ anchors' = anchors
      BY <1>1, <2>1, WhatIsRead
    <2>6. AnchorsPast(seen[w].input)
      BY <1>1, InvParts DEF WorkerSound
    <2>7. AnchorsPast(seen[w].input)'
      BY <2>3, <2>4, <2>5, <2>6 DEF AnchorsPast
    <2>8. WorkerSound(w)'
      BY <1>1, <2>2, <2>5, <2>7 DEF WorkerSound, At
    <2> QED
      BY <1>1, <2>1, <2>4, <2>8, ReadKeepsInv DEF Serving
  <1> QED
    BY <1>2, <1>3

LEMMA ListChainsKeepsInv ==
    ASSUME CatalogueInv, NEW w \in Workers, ListChains(w)
    PROVE  Sound
  <1>1. TypeOK /\ pc[w] = "list" /\ pc[w] \in Serving /\ req[w].op = "create"
    BY InvParts DEF ListChains, At, Serving
  <1> DEFINE rows == [id \in ChainIds |-> IF id \in FirstPage THEN chains[id] ELSE NoChain]
             input == [seen[w].input EXCEPT !.chains = rows]
             record == [seen[w] EXCEPT !.listed = StoredChains, !.input = input]
  <1>2. Read(w, record, "services")
    BY DEF ListChains
  <1>3. req[w] \in Requests /\ seen[w] \in Seen /\ seen[w].input \in Input
    BY <1>1, Asked
  <1>4. FirstPage \subseteq StoredChains /\ (FirstPage = StoredChains \/ Cardinality(FirstPage) = PageSize)
    BY FirstPageIs
  <1>5. /\ rows \in [ChainIds -> Chain] /\ Present(rows) = FirstPage
        /\ \A id \in Present(rows) : PastChain(rows[id], chains[id])
    BY <1>1, <1>4, PageIsPast
  <1> HIDE DEF rows
  <1>6. input \in Input /\ input.anchors = seen[w].input.anchors /\ input.chains = rows
    BY <1>3, <1>5 DEF Input
  <1> HIDE DEF input
  <1>7. record \in Seen /\ record.input = input /\ record.listed = StoredChains
    <2>1. StoredChains \subseteq ChainIds
      BY <1>1, Tables
    <2> DEFINE part == [seen[w] EXCEPT !.listed = StoredChains]
    <2>2. part \in Seen /\ part.listed = StoredChains
      BY <1>3, <2>1 DEF Seen
    <2>3. record = [part EXCEPT !.input = input]
      OBVIOUS
    <2> HIDE DEF part, record
    <2> QED
      BY <1>6, <2>2, <2>3 DEF Seen
  <1> HIDE DEF record
  <1>8. pc'[w] = "services" /\ req'[w] = req[w] /\ seen'[w] = record /\ anchors' = anchors /\ chains' = chains
    BY <1>1, <1>2, WhatIsRead
  <1>9. AnchorsPast(seen[w].input)
    BY <1>1, InvParts DEF WorkerSound
  <1>10. AnchorsPast(seen[w].input)'
    BY <1>6, <1>7, <1>8, <1>9 DEF AnchorsPast
  <1>11. ChainsPast(seen[w].input)'
    BY <1>5, <1>6, <1>7, <1>8 DEF ChainsPast
  <1>12. PageExplained(seen[w])'
    BY <1>4, <1>5, <1>6, <1>7, <1>8 DEF PageExplained
  <1>13. WorkerSound(w)'
    BY <1>1, <1>3, <1>8, <1>10, <1>11, <1>12 DEF WorkerSound, At
  <1> QED
    BY <1>1, <1>2, <1>7, <1>13, ReadKeepsInv DEF Serving

\* A service's chain was stored when the services were read: it is on the page, or
\* was committed since, or the page was full.
LEMMA LoadServicesKeepsInv ==
    ASSUME CatalogueInv, NEW w \in Workers, LoadServices(w)
    PROVE  Sound
  <1>1. TypeOK /\ TablesSound /\ pc[w] = "services" /\ pc[w] \in Serving /\ req[w].op = "create"
    BY InvParts DEF LoadServices, At, Serving
  <1>2. CASE Refuse(w)
    BY <1>1, <1>2, RefuseKeepsInv
  <1>3. CASE ~Refuse(w)
    <2> DEFINE old == seen[w].input
               late == StoredChains \ seen[w].listed
               part == [old EXCEPT !.services = services]
               input == [part EXCEPT !.meanwhile = late]
               record == [seen[w] EXCEPT !.input = input]
    <2>1. input.candidates \subseteq Present(input.chains) /\ Read(w, record, "commit")
      BY <1>3 DEF LoadServices
    <2>2. req[w] \in Requests /\ seen[w] \in Seen /\ old \in Input
      BY <1>1, Asked
    <2>3. /\ AnchorsPast(old) /\ ChainsPast(old)
          /\ seen[w].listed \subseteq Present(old.chains) \/ Cardinality(Present(old.chains)) = PageSize
      BY <1>1, InvParts DEF WorkerSound, At, PageExplained
    <2>4. late \in SUBSET ChainIds /\ StoredChains \ late \subseteq seen[w].listed
      BY <1>1, Tables
    <2> HIDE DEF old, late
    <2>5. /\ input \in Input /\ input.anchors = old.anchors /\ input.chains = old.chains
          /\ input.services = services /\ input.meanwhile = late
      <3>1. /\ part \in Input /\ part.anchors = old.anchors /\ part.chains = old.chains
            /\ part.services = services
        BY <1>1, <2>2 DEF Input, TypeOK
      <3> HIDE DEF part
      <3> QED
        BY <2>4, <3>1 DEF Input
    <2> HIDE DEF part, input
    <2>6. record \in Seen /\ record.input = input
      BY <2>2, <2>5 DEF Seen
    <2> HIDE DEF record
    <2>7. pc'[w] = "commit" /\ req'[w] = req[w] /\ seen'[w] = record /\ anchors' = anchors /\ chains' = chains
      BY <1>1, <2>1, WhatIsRead
    <2>8. AnchorsPast(input) /\ ChainsPast(input)
      BY <2>3, <2>5 DEF AnchorsPast, ChainsPast
    <2>9. GapsExplained(input)
      <3> SUFFICES ASSUME NEW s \in ServiceIds, input.services[s] \notin Present(input.chains) \cup {NoId},
                          input.services[s] \notin input.meanwhile
          PROVE  Cardinality(Present(input.chains)) = PageSize
        BY <2>1 DEF GapsExplained
      <3>1. services[s] \in StoredChains \ Present(old.chains) /\ services[s] \notin late
        BY <1>1, <2>5 DEF TablesSound
      <3> QED
        BY <2>3, <2>4, <2>5, <3>1
    <2>10. AnchorsPast(seen[w].input)' /\ ChainsPast(seen[w].input)' /\ GapsExplained(seen[w].input)'
      BY <2>6, <2>7, <2>8, <2>9 DEF AnchorsPast, ChainsPast, GapsExplained
    <2>11. WorkerSound(w)'
      BY <1>1, <2>2, <2>7, <2>10 DEF WorkerSound, At
    <2> QED
      BY <1>1, <2>1, <2>6, <2>11, ReadKeepsInv DEF Serving
  <1> QED
    BY <1>2, <1>3

-----------------------------------------------------------------------------
(* What handlers write *)

\* Who serves finds the database seeded.
LEMMA ServingFindsRows ==
    ASSUME CatalogueInv, NEW w \in Workers, pc[w] \in Serving
    PROVE  StoredAnchors # {}
  BY InvParts DEF ServedAfterSeed

LEMMA StoreAnchorKeepsInv ==
    ASSUME CatalogueInv, NEW w \in Workers, pc[w] \in Serving,
           NEW id \in AnchorIds, NEW row \in Anchor, NEW action \in Actions \cup {"import"},
           StoreAnchor(w, id, row, action), AnchorSound(row, now),
           id \in StoredAnchors => PastAnchor(anchors[id], row)
    PROVE  Sound
  <1>1. TypeOK /\ TablesSound /\ StoredAnchors # {} /\ SeededWhole
    BY InvParts, ServingFindsRows
  <1>2. /\ anchors' = [anchors EXCEPT ![id] = row] /\ Leave(w, "idle")
        /\ audit' = [audit EXCEPT !.anchors[id] = action]
        /\ UNCHANGED <<now, users, chains, services, drawn, inputs, budget>>
    BY DEF StoreAnchor
  <1>3. anchors' \in [AnchorIds -> Anchor] /\ anchors'[id] = row /\ \A o \in AnchorIds \ {id} : anchors'[o] = anchors[o]
    BY <1>1, <1>2 DEF TypeOK
  <1>4. audit' \in Audit /\ audit'.chains = audit.chains
    <2> DEFINE actions == [audit.anchors EXCEPT ![id] = action]
    <2>1. audit.anchors \in [AnchorIds -> Actions \cup {"none", "import"}] /\ audit \in Audit
      BY <1>1 DEF TypeOK, Audit
    <2>2. actions \in [AnchorIds -> Actions \cup {"none", "import"}]
      BY <2>1
    <2>3. audit' = [audit EXCEPT !.anchors = actions]
      BY <1>2
    <2> HIDE DEF actions
    <2> QED
      BY <2>1, <2>2, <2>3 DEF Audit
  <1>5. TypeOK'
    BY <1>1, <1>2, <1>3, <1>4, LeavingIsSound DEF TypeOK
  <1>6. Forward
    <2>1. now \in Nat /\ now' = now
      BY <1>1, <1>2, NumbersAssumption DEF TypeOK
    <2>2. \A o \in StoredAnchors : PastAnchor(anchors[o], anchors'[o])
      BY <1>1, <1>3, Tables DEF PastAnchor
    <2>3. \A o \in StoredChains : chains'[o] = [chains[o] EXCEPT !.state = chains'[o].state]
      <3>1. \A o \in StoredChains : chains[o] \in Chain /\ chains'[o] = chains[o]
        BY <1>1, <1>2, Tables
      <3> QED
        BY <3>1 DEF Chain
    <2>4. \A o \in StoredChains : chains'[o].state = chains[o].state
      BY <1>2
    <2> QED
      BY <2>1, <2>2, <2>3, <2>4 DEF Forward
  <1>7. TablesSound'
    <2>1. \A o \in AnchorIds : AnchorSound(anchors'[o], now')
      BY <1>1, <1>2, <1>3 DEF TablesSound
    <2>2. StoredChains' = StoredChains
      BY <1>2 DEF StoredChains
    <2>3. \A o \in StoredChains : ChainSound(chains'[o], anchors')
      BY <1>1, <1>2, <1>5, <1>6, Tables, ChainsStaySound DEF TablesSound
    <2> QED
      BY <1>1, <1>2, <2>1, <2>2, <2>3 DEF TablesSound
  <1>8. StoredAnchors' # {} /\ SeededWhole'
    BY <1>1, <1>5, <1>6, StoredStays, SeededStays
  <1>9. WorkerSound(w)' /\ ~Inserted(w)' /\ \A v \in Workers \ {w} : Untouched(v)
    BY <1>1, <1>2, LeavingIsSound
  <1>10. KeysDrawn'
    BY <1>2, <1>9, KeysStay DEF StoredChains
  <1>11. CatalogueInv'
    BY <1>2, <1>5, <1>6, <1>7, <1>8, <1>9, <1>10, StepMakesInv
  <1> QED
    BY <1>4, <1>6, <1>11 DEF Sound, Trail

LEMMA CommitAnchorKeepsInv ==
    ASSUME CatalogueInv, NEW w \in Workers, CommitAnchor(w)
    PROVE  Sound
  <1>1. TypeOK /\ pc[w] \in Serving /\ At(w, "commit", "import_anchor")
    BY InvParts DEF CommitAnchor, At, Serving
  <1>2. CASE Refuse(w)
    BY <1>1, <1>2, RefuseKeepsInv
  <1>3. CASE ~Refuse(w)
    <2>1. PICK id \in AnchorIds \ StoredAnchors : StoreAnchor(w, id, seen[w].anchor, "import")
      BY <1>3 DEF CommitAnchor
    <2>2. seen[w].anchor \in Anchor /\ AnchorSound(seen[w].anchor, now)
      BY <1>1, Asked, InvParts DEF WorkerSound
    <2> QED
      BY <1>1, <2>1, <2>2, StoreAnchorKeepsInv
  <1> QED
    BY <1>2, <1>3

\* A lifecycle action moves a row on, whatever has become of it.
LEMMA UpdatedMovesOn ==
    ASSUME NEW row \in Anchor, NEW action \in Actions, NEW t \in Nat,
           row.code # NoCode, AnchorSound(row, t)
    PROVE  /\ Updated(row, action) \in Anchor /\ AnchorSound(Updated(row, action), t)
           /\ PastAnchor(row, Updated(row, action))
  <1>1. CASE action = "revoke"
    <2> DEFINE a == [row EXCEPT !.revoked = TRUE]
               b == [a EXCEPT !.stored = "revoked"]
    <2>1. a \in Anchor /\ a.code = row.code /\ a.cert = row.cert /\ a.revoked = TRUE
      BY DEF Anchor
    <2> HIDE DEF a
    <2>2. b \in Anchor /\ b.code = row.code /\ b.cert = row.cert /\ b.revoked = TRUE /\ b.stored = "revoked"
      BY <2>1 DEF Anchor, CertificateStates
    <2> HIDE DEF b
    <2>3. Updated(row, action) = b
      <3>1. [row EXCEPT !.revoked = TRUE, !.stored = "revoked"] = b
        BY DEF a, b
      <3> QED
        BY <1>1, <3>1 DEF Updated
    <2>4. AnchorSound(b, t)
      <3>1. CalculateCertificateState(t, b.cert.until, b.revoked, Soon) = "revoked"
        BY <2>2 DEF CalculateCertificateState
      <3>2. Severity[b.stored] <= Severity[CalculateCertificateState(t, b.cert.until, b.revoked, Soon)]
        BY <2>2, <3>1, SeverityTypes DEF CertificateStates
      <3> QED
        BY <2>2, <3>2 DEF AnchorSound
    <2> QED
      BY <2>2, <2>3, <2>4 DEF PastAnchor
  <1>2. CASE action # "revoke"
    <2>1. PICK archived \in BOOLEAN : Updated(row, action) = [row EXCEPT !.archived = archived]
      BY <1>2 DEF Updated, Actions
    <2> DEFINE b == [row EXCEPT !.archived = archived]
    <2>2. /\ b \in Anchor /\ b.code = row.code /\ b.cert = row.cert
          /\ b.revoked = row.revoked /\ b.stored = row.stored
      BY DEF Anchor
    <2> HIDE DEF b
    <2>3. AnchorSound(b, t) /\ PastAnchor(row, b)
      BY <2>2 DEF AnchorSound, PastAnchor
    <2> QED
      BY <2>1, <2>2, <2>3 DEF b
  <1> QED
    BY <1>1, <1>2

LEMMA CommitLifecycleKeepsInv ==
    ASSUME CatalogueInv, NEW w \in Workers, CommitLifecycle(w)
    PROVE  Sound
  <1>1. TypeOK /\ TablesSound /\ pc[w] \in Serving /\ At(w, "commit", "lifecycle")
    BY InvParts DEF CommitLifecycle, At, Serving
  <1> DEFINE id == req[w].id
             action == req[w].to
  <1>2. id \in StoredAnchors /\ action \in Actions
    BY <1>1, Asked, InvParts DEF WorkerSound, At
  <1>3. StoreAnchor(w, id, Updated(anchors[id], action), action)
    BY DEF CommitLifecycle
  <1> HIDE DEF id, action
  <1>4. /\ id \in AnchorIds /\ anchors[id] \in Anchor /\ anchors[id].code # NoCode
        /\ AnchorSound(anchors[id], now) /\ now \in Nat
    <2>1. now \in Nat
      BY <1>1, NumbersAssumption DEF TypeOK
    <2> QED
      BY <1>1, <1>2, <2>1, Tables DEF TablesSound
  <1>5. /\ Updated(anchors[id], action) \in Anchor /\ AnchorSound(Updated(anchors[id], action), now)
        /\ PastAnchor(anchors[id], Updated(anchors[id], action))
    BY <1>2, <1>4, UpdatedMovesOn
  <1> QED
    BY <1>1, <1>2, <1>3, <1>4, <1>5, StoreAnchorKeepsInv

\* A chain is stored under the key its transaction holds, or moves on in its state.
LEMMA StoreChainKeepsInv ==
    ASSUME CatalogueInv, NEW w \in Workers, pc[w] \in Serving,
           NEW id \in ChainIds, NEW row \in Chain, NEW before \in ChainStates \cup {"none"},
           StoreChain(w, id, row, before), ChainSound(row, anchors), row.code # NoCode,
           before = IF id \in StoredChains THEN chains[id].state ELSE "none",
           id \notin StoredChains => Inserted(w) /\ id = seen[w].key,
           id \in StoredChains =>
             row = [chains[id] EXCEPT !.state = row.state] /\ CanTransitionChain(chains[id].state, row.state)
    PROVE  Sound
  <1>1. TypeOK /\ TablesSound /\ KeysDrawn /\ StoredAnchors # {} /\ SeededWhole
    BY InvParts, ServingFindsRows
  <1>2. /\ chains' = [chains EXCEPT ![id] = row] /\ Leave(w, "idle")
        /\ audit' = [audit EXCEPT !.chains[id] = <<before, row.state>>]
        /\ UNCHANGED <<now, users, anchors, services, drawn, inputs, budget>>
    BY DEF StoreChain
  <1>3. chains' \in [ChainIds -> Chain] /\ chains'[id] = row /\ \A o \in ChainIds \ {id} : chains'[o] = chains[o]
    BY <1>1, <1>2 DEF TypeOK
  <1>4. /\ audit' \in Audit
        /\ \A o \in ChainIds :
             audit'.chains[o] = IF o = id THEN <<before, row.state>> ELSE audit.chains[o]
    <2> DEFINE Entries == (ChainStates \cup {"none"}) \X (ChainStates \cup {"none"})
               entries == [audit.chains EXCEPT ![id] = <<before, row.state>>]
    <2>1. audit.chains \in [ChainIds -> Entries] /\ audit \in Audit
      BY <1>1 DEF TypeOK, Audit
    <2>2. <<before, row.state>> \in Entries
      BY DEF Chain
    <2> HIDE DEF Entries
    <2>3. /\ entries \in [ChainIds -> Entries]
          /\ \A o \in ChainIds : entries[o] = IF o = id THEN <<before, row.state>> ELSE audit.chains[o]
      BY <2>1, <2>2
    <2>4. audit' = [audit EXCEPT !.chains = entries]
      BY <1>2
    <2> HIDE DEF entries
    <2> QED
      BY <2>1, <2>3, <2>4 DEF Audit, Entries
  <1>5. TypeOK'
    BY <1>1, <1>2, <1>3, <1>4, LeavingIsSound DEF TypeOK
  <1>6. /\ StoredChains' = StoredChains \cup {id} /\ StoredAnchors' = StoredAnchors
        /\ StoredChains \subseteq ChainIds
    <2>1. StoredChains' = StoredChains \cup {id} /\ StoredChains \subseteq ChainIds
      BY <1>1, <1>3, <1>5, Tables, LaterTables
    <2> QED
      BY <1>2, <2>1 DEF StoredAnchors
  <1>7. WorkerSound(w)' /\ ~Inserted(w)' /\ \A v \in Workers \ {w} : Untouched(v)
    BY <1>1, <1>2, LeavingIsSound
  <1>8. Forward
    <2>1. now \in Nat /\ now' = now
      BY <1>1, <1>2, NumbersAssumption DEF TypeOK
    <2>2. \A a \in StoredAnchors : PastAnchor(anchors[a], anchors'[a])
      BY <1>2 DEF PastAnchor
    <2>3. ASSUME NEW o \in StoredChains
          PROVE  /\ chains'[o] = [chains[o] EXCEPT !.state = chains'[o].state]
                 /\ chains'[o].state = chains[o].state \/ CanTransitionChain(chains[o].state, chains'[o].state)
      <3>1. CASE o = id
        BY <1>3, <2>3, <3>1
      <3>2. CASE o # id
        <4>1. chains'[o] = chains[o] /\ chains[o] \in Chain
          BY <1>1, <1>3, <1>6, <3>2, Tables
        <4> QED
          BY <4>1 DEF Chain
      <3> QED
        BY <3>1, <3>2
    <2> QED
      BY <2>1, <2>2, <2>3 DEF Forward
  <1>9. TablesSound'
    <2>1. \A a \in AnchorIds : AnchorSound(anchors'[a], now')
      BY <1>1, <1>2 DEF TablesSound
    <2>2. \A o \in StoredChains' : ChainSound(chains'[o], anchors')
      BY <1>1, <1>2, <1>3, <1>6 DEF TablesSound
    <2>3. IsFiniteSet(StoredChains')
      BY <1>1, <1>6, FS_AddElement DEF TablesSound
    <2>4. \A s \in ServiceIds : services'[s] \in StoredChains' \cup {NoId}
      BY <1>1, <1>2, <1>6 DEF TablesSound
    <2> QED
      BY <2>1, <2>2, <2>3, <2>4 DEF TablesSound
  <1>10. StoredAnchors' # {} /\ SeededWhole'
    BY <1>1, <1>5, <1>6, <1>8, SeededStays
  <1>11. KeysDrawn'
    <2>1. \A o \in StoredChains' : o <= drawn'
      BY <1>1, <1>2, <1>6 DEF KeysDrawn
    <2>2. ASSUME NEW v \in Workers, Inserted(v)'
          PROVE  v # w /\ Inserted(v) /\ seen'[v] = seen[v]
      BY <1>7, <2>2 DEF Untouched, Inserted, At
    <2>3. ASSUME NEW v \in Workers, Inserted(v)'
          PROVE  seen'[v].key \in ChainIds \ StoredChains' /\ seen'[v].key <= drawn'
      BY <1>1, <1>2, <1>6, <2>2, <2>3 DEF KeysDrawn
    <2>4. \A v \in Workers : Inserted(v)' => \A u \in Workers \ {v} : Inserted(u)' => seen'[u].key # seen'[v].key
      BY <1>1, <2>2 DEF KeysDrawn
    <2> QED
      BY <2>1, <2>3, <2>4 DEF KeysDrawn
  <1>12. CatalogueInv'
    BY <1>2, <1>5, <1>7, <1>8, <1>9, <1>10, <1>11, StepMakesInv
  <1>13. Trail
    BY <1>3, <1>4 DEF Trail
  <1> QED
    BY <1>8, <1>12, <1>13 DEF Sound

LEMMA CommitChainKeepsInv ==
    ASSUME CatalogueInv, NEW w \in Workers, CommitChain(w)
    PROVE  Sound
  <1>1. TypeOK /\ pc[w] \in Serving /\ At(w, "commit", "import_chain")
    BY InvParts DEF CommitChain, At, Serving
  <1>2. CASE Refuse(w)
    BY <1>1, <1>2, RefuseKeepsInv
  <1>3. CASE ~Refuse(w)
    <2> DEFINE row == seen[w].chain
               id == seen[w].key
    <2>1. StoreChain(w, id, row, "none")
      BY <1>3 DEF CommitChain
    <2>2. row \in Chain /\ ChainSound(row, anchors) /\ row.code = req[w].code
      <3>1. ChainSound(row, anchors) /\ row.code = req[w].code
        BY <1>1, InvParts DEF WorkerSound, At
      <3>2. seen[w] \in Seen
        BY <1>1 DEF TypeOK
      <3> QED
        BY <3>1, <3>2 DEF Seen
    <2>3. row.code # NoCode
      BY <1>1, <2>2, Asked, NoneAssumption DEF At
    <2>4. Inserted(w) /\ id \in ChainIds \ StoredChains
      BY <1>1, InvParts DEF KeysDrawn, Inserted
    <2> HIDE DEF row
    <2> QED
      BY <1>1, <2>1, <2>2, <2>3, <2>4, StoreChainKeepsInv
  <1> QED
    BY <1>2, <1>3

LEMMA CommitTransitionKeepsInv ==
    ASSUME CatalogueInv, NEW w \in Workers, CommitTransition(w)
    PROVE  Sound
  <1>1. TypeOK /\ TablesSound /\ pc[w] \in Serving /\ At(w, "commit", "transition")
    BY InvParts DEF CommitTransition, At, Serving
  <1>2. CASE Refuse(w)
    BY <1>1, <1>2, RefuseKeepsInv
  <1>3. CASE ~Refuse(w)
    <2> DEFINE id == req[w].id
               to == req[w].to
               row == [chains[id] EXCEPT !.state = to]
    <2>1. chains[id].state = seen[w].chain.state /\ StoreChain(w, id, row, seen[w].chain.state)
      BY <1>3 DEF CommitTransition
    <2>2. id \in StoredChains /\ CanTransitionChain(seen[w].chain.state, to)
      BY <1>1, InvParts DEF WorkerSound
    <2> HIDE DEF id, to
    <2>3. id \in ChainIds /\ chains[id] \in Chain /\ chains[id].code # NoCode /\ ChainSound(chains[id], anchors)
      BY <1>1, <2>2, Tables DEF TablesSound
    <2>4. to \in ChainStates
      BY <2>2 DEF CanTransitionChain, ChainMoves, ChainStates
    <2>5. row \in Chain /\ row.code = chains[id].code /\ row.state = to
      BY <2>3, <2>4 DEF Chain
    <2>6. ChainSound(row, anchors)
      BY <2>3, <2>4, ChainSoundAnyState
    <2>7. row = [chains[id] EXCEPT !.state = row.state]
      BY <2>5
    <2>8. chains[id].state \in ChainStates
      BY <2>3 DEF Chain
    <2> HIDE DEF row
    <2> QED
      BY <1>1, <2>1, <2>2, <2>3, <2>5, <2>6, <2>7, <2>8, StoreChainKeepsInv
  <1> QED
    BY <1>2, <1>3

LEMMA CommitInputKeepsInv ==
    ASSUME CatalogueInv, NEW w \in Workers, CommitInput(w)
    PROVE  Sound
  <1>1. TypeOK /\ pc[w] = "commit" /\ pc[w] \in Serving /\ req[w].op = "create"
    BY InvParts DEF CommitInput, At, Serving
  <1>2. CASE Refuse(w)
    BY <1>1, <1>2, RefuseKeepsInv
  <1>3. CASE ~Refuse(w)
    <2> DEFINE input == seen[w].input
    <2>1. /\ inputs' = inputs \cup {input} /\ Leave(w, "idle")
          /\ UNCHANGED <<now, users, anchors, chains, services, drawn, audit, budget>>
      BY <1>3 DEF CommitInput
    <2>2. input \in Input /\ AnchorsPast(input) /\ ChainsPast(input) /\ GapsExplained(input)
      BY <1>1, Asked, InvParts DEF WorkerSound, At
    <2> HIDE DEF input
    <2>3. TypeOK'
      BY <1>1, <2>1, <2>2, LeavingIsSound DEF TypeOK
    <2>4. now \in Nat /\ now' \in Nat /\ now <= now'
      BY <1>1, <2>1, NumbersAssumption DEF TypeOK
    <2>5. Forward
      BY <2>1, <2>4, StillIsForward
    <2>6. TablesSound'
      BY <2>1, <2>4, StillTables, InvParts DEF TablesSound
    <2>7. StoredAnchors' # {} /\ SeededWhole'
      BY <1>1, <2>1, ServingFindsRows, InvParts DEF StoredAnchors, SeededWhole
    <2>8. WorkerSound(w)' /\ KeysDrawn' /\ \A v \in Workers \ {w} : Untouched(v)
      BY <1>1, <2>1, LeavingIsSound, KeysStay DEF StoredChains
    <2>9. \A new \in inputs' \ inputs : AnchorsPast(new)' /\ ChainsPast(new)' /\ GapsExplained(new)
      BY <2>1, <2>2 DEF AnchorsPast, ChainsPast
    <2>10. CatalogueInv'
      BY <2>3, <2>5, <2>6, <2>7, <2>8, <2>9, StepMakesInv
    <2> QED
      BY <2>1, <2>5, <2>10 DEF Sound, Trail
  <1> QED
    BY <1>2, <1>3

-----------------------------------------------------------------------------
(* Faults, other services and the clock *)

LEMMA CrashKeepsInv ==
    ASSUME CatalogueInv, NEW w \in Workers, Crash(w)
    PROVE  Sound
  <1>1. TypeOK
    BY InvParts
  <1>2. Leave(w, "down") /\ UNCHANGED <<now, users, anchors, chains, services, drawn, inputs, audit>>
    BY DEF Crash, tables
  <1>3. budget' \in [requests : 0..MaxRequests, crashes : 0..MaxCrashes]
    <2>1. budget \in [requests : 0..MaxRequests, crashes : 0..MaxCrashes] /\ budget.crashes > 0
      BY <1>1 DEF TypeOK, Crash
    <2>2. budget.crashes - 1 \in 0..MaxCrashes
      BY <2>1, NumbersAssumption
    <2> QED
      BY <2>1, <2>2 DEF Crash
  <1> QED
    BY <1>1, <1>2, <1>3, LeaveKeepsInv DEF TypeOK

\* No backend takes a step, and no row but a service's changes.
LEMMA ElsewhereKeepsInv ==
    ASSUME CatalogueInv, TypeOK', now' \in Nat, now <= now', \A w \in Workers : Untouched(w),
           UNCHANGED <<anchors, chains, drawn, inputs, audit>>,
           \A s \in ServiceIds : services'[s] \in StoredChains \cup {NoId}
    PROVE  Sound
  <1>1. Forward /\ TablesSound'
    BY StillIsForward, StillTables
  <1>2. SeededWhole'
    BY InvParts DEF SeededWhole, StoredAnchors
  <1>3. KeysDrawn'
    BY KeysStay DEF StoredChains
  <1>4. CatalogueInv'
    BY <1>1, <1>2, <1>3, StepMakesInv
  <1> QED
    BY <1>1, <1>4 DEF Sound, Trail

LEMMA PlaceServiceKeepsInv ==
    ASSUME CatalogueInv, PlaceService
    PROVE  Sound
  <1>1. TypeOK /\ TablesSound
    BY InvParts
  <1>2. PICK s \in ServiceIds, c \in StoredChains : services' = [services EXCEPT ![s] = c]
    BY DEF PlaceService
  <1>3. UNCHANGED <<now, users, anchors, chains, drawn, inputs, audit, pc, req, seen, budget>>
    BY DEF PlaceService
  <1>4. c \in ChainIds
    BY <1>1, Tables
  <1>5. /\ services' \in [ServiceIds -> ChainIds \cup {NoId}]
        /\ \A other \in ServiceIds : services'[other] \in StoredChains \cup {NoId}
    BY <1>1, <1>2, <1>4 DEF TypeOK, TablesSound
  <1>6. TypeOK'
    BY <1>1, <1>3, <1>5 DEF TypeOK
  <1>7. now' \in Nat /\ now <= now'
    BY <1>1, <1>3, NumbersAssumption DEF TypeOK
  <1> QED
    BY <1>3, <1>5, <1>6, <1>7, ElsewhereKeepsInv DEF Untouched

LEMMA TickKeepsInv ==
    ASSUME CatalogueInv, Tick \/ UNCHANGED vars
    PROVE  Sound
  <1>1. TypeOK /\ TablesSound
    BY InvParts
  <1>2. UNCHANGED <<users, anchors, chains, services, drawn, inputs, audit, pc, req, seen, budget>>
    BY DEF Tick, vars, tables
  <1>3. now' \in 0..MaxTime /\ now' \in Nat /\ now <= now'
    <2>1. now \in 0..MaxTime
      BY <1>1 DEF TypeOK
    <2>2. now' = now \/ (now < MaxTime /\ now' = now + 1)
      BY DEF Tick, vars
    <2> QED
      BY <2>1, <2>2, NumbersAssumption
  <1>4. TypeOK'
    BY <1>1, <1>2, <1>3 DEF TypeOK
  <1> QED
    BY <1>1, <1>2, <1>3, <1>4, ElsewhereKeepsInv DEF Untouched, TablesSound

-----------------------------------------------------------------------------
(* The invariant, and what follows from it *)

LEMMA InitMakesInv == Init => CatalogueInv
  <1> SUFFICES ASSUME Init PROVE CatalogueInv
    OBVIOUS
  <1>1. PICK db \in Databases :
          /\ users = db.users /\ anchors = db.anchors /\ chains = db.chains
          /\ services = db.services /\ drawn = db.drawn
    BY DEF Init
  <1>2. /\ db \in Database /\ DatabaseSound(db)
        /\ Present(db.anchors) = {} \/ \E w \in Workers : DemoStored(db.anchors, db.chains, w)
    BY DatabasesAssumption
  <1>3. /\ now = 0 /\ inputs = {}
        /\ audit = [anchors |-> [id \in AnchorIds |-> "none"], chains |-> [id \in ChainIds |-> <<"none", "none">>]]
        /\ pc = [w \in Workers |-> "down"]
        /\ req = [w \in Workers |-> NoRequest]
        /\ seen = [w \in Workers |-> Unread]
        /\ budget = [requests |-> MaxRequests, crashes |-> MaxCrashes]
    BY DEF Init
  <1>4. NoRequest \in Request
    BY DEF NoRequest, Request
  <1>5. Unread \in Seen
    <2>1. NoAnchor \in Anchor
      BY DEF NoAnchor, Anchor, CertificateStates
    <2>2. NoChain \in Chain
      BY DEF NoChain, Chain, ChainStates
    <2>3. Nothing \in Input
      BY <2>1, <2>2 DEF Nothing, Input
    <2> QED
      BY <2>1, <2>2, <2>3, NumbersAssumption DEF Unread, Seen
  <1>6. TypeOK
    <2>1. /\ users \in SUBSET (1..Accounts) /\ anchors \in [AnchorIds -> Anchor]
          /\ chains \in [ChainIds -> Chain] /\ services \in [ServiceIds -> ChainIds \cup {NoId}]
          /\ drawn \in Nat
      BY <1>1, <1>2 DEF Database
    <2>2. audit \in Audit
      BY <1>3 DEF Audit
    <2>3. pc \in [Workers -> Steps]
      BY <1>3 DEF Steps, Starting
    <2>4. now \in 0..MaxTime /\ budget \in [requests : 0..MaxRequests, crashes : 0..MaxCrashes]
      BY <1>3, NumbersAssumption
    <2> QED
      BY <1>3, <1>4, <1>5, <2>1, <2>2, <2>3, <2>4 DEF TypeOK
  <1>7. TablesSound
    BY <1>1, <1>2, <1>3 DEF TablesSound, DatabaseSound, StoredChains
  <1>8. SeededWhole
    BY <1>1, <1>2 DEF SeededWhole, StoredAnchors
  <1>9. \A w \in Workers : pc[w] = "down" /\ req[w].op = "none"
    BY <1>3 DEF NoRequest
  <1>10. ServedAfterSeed
    BY <1>9 DEF ServedAfterSeed, Serving
  <1>11. \A w \in Workers : WorkerSound(w)
    BY <1>9 DEF WorkerSound, At, Serving
  <1>12. KeysDrawn
    BY <1>1, <1>2, <1>9 DEF KeysDrawn, DatabaseSound, StoredChains, Inserted, At
  <1> QED
    BY <1>3, <1>6, <1>7, <1>8, <1>10, <1>11, <1>12 DEF CatalogueInv

LEMMA StepIsSound == CatalogueInv /\ [Next]_vars => Sound
  <1> SUFFICES ASSUME CatalogueInv, [Next]_vars PROVE Sound
    OBVIOUS
  <1>1. ASSUME NEW w \in Workers, Boot(w) PROVE Sound
    BY <1>1, FindAccountKeepsInv, AddAccountKeepsInv, CountAnchorsKeepsInv, SeedDomainKeepsInv DEF Boot
  <1>2. ASSUME NEW w \in Workers, Receive(w) PROVE Sound
    BY <1>2, ReceiveKeepsInv
  <1>3. ASSUME NEW w \in Workers, Handle(w) PROVE Sound
    BY <1>3, CheckAnchorKeepsInv, CommitAnchorKeepsInv, CheckChainKeepsInv, InsertChainKeepsInv, CommitChainKeepsInv,
       ReadRowKeepsInv, CommitLifecycleKeepsInv, CommitTransitionKeepsInv, ReadAnchorsKeepsInv,
       FindCandidatesKeepsInv, ListChainsKeepsInv, LoadServicesKeepsInv, CommitInputKeepsInv DEF Handle
  <1>4. ASSUME NEW w \in Workers, DatabaseFails(w) PROVE Sound
    BY <1>4, RefuseKeepsInv DEF DatabaseFails
  <1>5. ASSUME NEW w \in Workers, Crash(w) PROVE Sound
    BY <1>5, CrashKeepsInv
  <1>6. CASE PlaceService
    BY <1>6, PlaceServiceKeepsInv
  <1>7. CASE Tick \/ UNCHANGED vars
    BY <1>7, TickKeepsInv
  <1> QED
    BY <1>1, <1>2, <1>3, <1>4, <1>5, <1>6, <1>7 DEF Next

LEMMA InvHolds == Spec => []CatalogueInv
  <1>1. CatalogueInv /\ [Next]_vars => CatalogueInv'
    BY StepIsSound DEF Sound
  <1> QED
    BY InitMakesInv, <1>1, PTL DEF Spec

LEMMA RevokedStaysRevoked ==
    ASSUME CatalogueInv, Sound, NEW id \in AnchorIds, anchors[id].revoked
    PROVE  anchors'[id].revoked /\ anchors'[id].stored = "revoked"
  <1>1. id \in StoredAnchors
    BY InvParts, Tables DEF TablesSound, AnchorSound
  <1>2. anchors'[id].revoked
    BY <1>1 DEF Sound, Forward, PastAnchor
  <1>3. AnchorSound(anchors'[id], now')
    BY DEF Sound, CatalogueInv, TablesSound
  <1> QED
    BY <1>2, <1>3 DEF AnchorSound

LEMMA WindowsAreSound == CatalogueInv => WindowsMeanValidity
  <1> SUFFICES ASSUME CatalogueInv PROVE WindowsMeanValidity
    OBVIOUS
  <1>1. ASSUME NEW id \in StoredChains
        PROVE  /\ chains[id].from \in Nat /\ chains[id].until \in Nat
               /\ chains[id].leaf \in Certs
               /\ chains[id].leaf.from <= chains[id].from /\ chains[id].until <= chains[id].leaf.until
               /\ \A t \in Moments : chains[id].from <= t /\ t < chains[id].until =>
                    ValidateChain(anchors[chains[id].anchor].cert, chains[id].leaf, chains[id].others, t)
    <2>1. chains[id] \in Chain
      BY InvParts, Tables
    <2>2. ChainSound(chains[id], anchors)
      BY InvParts DEF TablesSound
    <2> QED
      BY <2>1, <2>2 DEF Chain, ChainSound
  <1>2. ASSUME NEW a \in StoredChains, NEW b \in StoredChains, HasValidOverlap(chains[a], chains[b])
        PROVE  \E t \in Moments : \A id \in {a, b} : chains[id].from <= t /\ t < chains[id].until
    <2>1. \A c \in {a, b}, d \in {a, b} : chains[c].from < chains[d].until
      BY <1>2 DEF HasValidOverlap
    <2>2. PICK c \in {a, b} : \A d \in {a, b} : chains[d].from <= chains[c].from
      BY <1>1
    <2> DEFINE t == chains[c].from
    <2>3. t \in chains[c].leaf.from..chains[c].leaf.until
      BY <1>1, <2>1, CertTypes
    <2>4. t \in Moments
      BY <1>1, <2>3 DEF Moments
    <2> QED
      BY <2>1, <2>2, <2>4
  <1>3. ASSUME NEW a \in StoredChains, NEW b \in StoredChains, NEW t \in Moments,
               \A id \in {a, b} : chains[id].from <= t /\ t < chains[id].until
        PROVE  HasValidOverlap(chains[a], chains[b])
    BY <1>1, <1>3, MomentsAreNumbers DEF HasValidOverlap
  <1> QED
    BY <1>1, <1>2, <1>3 DEF WindowsMeanValidity

-----------------------------------------------------------------------------
(* Theorems *)

\* The tables, the frozen inputs and what backends have read keep their types.
THEOREM CatalogueTypeCorrectness == Spec => []TypeOK
  <1>1. CatalogueInv => TypeOK
    BY DEF CatalogueInv
  <1> QED
    BY InvHolds, <1>1, PTL

\* Whatever lifecycle requests overlap, and however backends die between the read and
\* the update, a revoked anchor stays revoked, in both columns.
THEOREM RevocationsAreFinal == Spec => RevocationIsFinal
  <1>1. CatalogueInv /\ [Next]_vars =>
          [\A id \in AnchorIds :
             anchors[id].revoked => anchors'[id].revoked /\ anchors'[id].stored = "revoked"]_vars
    BY StepIsSound, RevokedStaysRevoked
  <1> QED
    BY <1>1, InvHolds, PTL DEF Spec, RevocationIsFinal

\* The stored state of an anchor never says worse than its dates and its revocation.
THEOREM StoredStatesLag == Spec => []StoredStateLags
  <1>1. CatalogueInv => StoredStateLags
    BY InvParts, Tables DEF TablesSound, AnchorSound, StoredStateLags
  <1> QED
    BY InvHolds, <1>1, PTL

\* The moves of chains compose along their table, and the audit trail has no gap.
THEOREM ChainsLeaveTrail == Spec => ChainTrail
  <1>1. CatalogueInv /\ [Next]_vars =>
          [\A id \in ChainIds :
             /\ id \in StoredChains /\ chains'[id] # chains[id] =>
                  /\ CanTransitionChain(chains[id].state, chains'[id].state)
                  /\ chains'[id] = [chains[id] EXCEPT !.state = chains'[id].state]
             /\ audit'.chains[id] # audit.chains[id] =>
                  audit'.chains[id] =
                    <<IF id \in StoredChains THEN chains[id].state ELSE "none", chains'[id].state>>]_vars
    <2> SUFFICES ASSUME CatalogueInv, [Next]_vars, NEW id \in ChainIds
        PROVE  /\ id \in StoredChains /\ chains'[id] # chains[id] =>
                    /\ CanTransitionChain(chains[id].state, chains'[id].state)
                    /\ chains'[id] = [chains[id] EXCEPT !.state = chains'[id].state]
               /\ audit'.chains[id] # audit.chains[id] =>
                    audit'.chains[id] =
                      <<IF id \in StoredChains THEN chains[id].state ELSE "none", chains'[id].state>>
      OBVIOUS
    <2>1. Forward /\ Trail
      BY StepIsSound DEF Sound
    <2>2. ASSUME id \in StoredChains, chains'[id] # chains[id]
          PROVE  /\ CanTransitionChain(chains[id].state, chains'[id].state)
                 /\ chains'[id] = [chains[id] EXCEPT !.state = chains'[id].state]
      <3>1. /\ chains'[id] = [chains[id] EXCEPT !.state = chains'[id].state]
            /\ chains'[id].state = chains[id].state \/ CanTransitionChain(chains[id].state, chains'[id].state)
        BY <2>1, <2>2 DEF Forward
      <3>2. chains[id] \in Chain
        BY InvParts, Tables
      <3>3. chains'[id].state # chains[id].state
        BY <2>2, <3>1, <3>2 DEF Chain
      <3> QED
        BY <3>1, <3>3
    <2> QED
      BY <2>1, <2>2 DEF Trail
  <1> QED
    BY <1>1, InvHolds, PTL DEF Spec, ChainTrail

\* A stored window means that the chain verifies at all of its times, and Compare
\* finds the overlap of two windows exactly.
THEOREM WindowsAreValid == Spec => []WindowsMeanValidity
  BY InvHolds, WindowsAreSound, PTL

\* What a frozen input says of an anchor or a chain was so, and has only moved on.
THEOREM FrozenInputsStayPast == Spec => []FrozenInputsArePast
  <1>1. CatalogueInv => FrozenInputsArePast
    BY DEF CatalogueInv, FrozenInputsArePast
  <1> QED
    BY InvHolds, <1>1, PTL

\* A frozen input lacks no candidate, and a service's chain only for two reasons, in whatever
\* order the keys were drawn and the transactions committed.
THEOREM FrozenGapsAreExplained == Spec => []FrozenGapsExplained
  <1>1. CatalogueInv => FrozenGapsExplained
    BY DEF CatalogueInv, GapsExplained, FrozenGapsExplained
  <1> QED
    BY InvHolds, <1>1, PTL

\* Any number of backends that start together seed one demonstration, whole.
THEOREM DemoStaysWhole == Spec => []DemoIsWhole
  <1>1. CatalogueInv => DemoIsWhole
    BY DEF CatalogueInv, SeededWhole, DemoStored, DemoIsWhole
  <1> QED
    BY InvHolds, <1>1, PTL

=============================================================================
