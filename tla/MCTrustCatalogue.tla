--------------------------- MODULE MCTrustCatalogue ---------------------------
(* Two backends on an empty database, on one in which the operators keep a    *)
(* root of their own beside the demonstration, or on one with more chains     *)
(* than fit on a page.                                                        *)
EXTENDS TrustCatalogue

CONSTANTS w1, w2, none, legacy, next, own, spare, d1, d2, kRoot, kInter, kLeaf, kStray

MCWorkers == {w1, w2}
MCKeys == {d1, d2, kRoot, kInter, kLeaf, kStray}
MCCodes == {legacy, next, own, spare}

Root(key, until) == [key |-> key, signer |-> key, from |-> 0, until |-> until,
                     ca |-> TRUE, certSign |-> TRUE, serverAuth |-> TRUE]
Leaf(key, signer, until) == [key |-> key, signer |-> signer, from |-> 0, until |-> until,
                             ca |-> FALSE, certSign |-> FALSE, serverAuth |-> TRUE]

\* Valid at 0, expiring at 1.  The first demonstration root has expired by then.
OwnRoot == Root(kRoot, 2)
\* Valid later than its leaf.
Intermediate == [Root(kInter, 2) EXCEPT !.signer = kRoot, !.from = 1]
OwnLeaf == Leaf(kLeaf, kInter, 2)
DirectLeaf == Leaf(kLeaf, kRoot, 2)
\* In a bundle, on no path, and past its end from the start.
Stray == Leaf(kStray, kStray, 0)

DemoKey(w) == IF w = w1 THEN d1 ELSE d2
DemoRoots(w) == <<Root(DemoKey(w), 1), Root(DemoKey(w), 3)>>

MCDemo == [w \in MCWorkers |->
    [ users |-> 1..Accounts,
      anchors |-> [id \in AnchorIds |->
        IF id > 2 THEN NoAnchor
        ELSE [NoAnchor EXCEPT !.code = IF id = 1 THEN legacy ELSE next, !.cert = DemoRoots(w)[id]]],
      chains |-> [id \in ChainIds |->
        IF id > 1 THEN NoChain
        ELSE [ code |-> legacy, anchor |-> 1, leaf |-> Leaf(DemoKey(w), DemoKey(w), 1), others |-> {},
               from |-> 0, until |-> 1, state |-> "validated" ]],
      drawn |-> 1,
      services |-> [s \in ServiceIds |-> 1] ]]

\* Of a chain beside the demonstration's.
LateLeaf == Leaf(d1, d1, 2)

MCCerts == {OwnRoot, Intermediate, OwnLeaf, DirectLeaf, Stray, LateLeaf}
    \cup UNION {{DemoRoots(w)[1], DemoRoots(w)[2], Leaf(DemoKey(w), DemoKey(w), 1)} : w \in MCWorkers}

Empty == [ users |-> {}, anchors |-> [id \in AnchorIds |-> NoAnchor],
           chains |-> [id \in ChainIds |-> NoChain], drawn |-> 0, services |-> [s \in ServiceIds |-> NoId] ]

InUse == [MCDemo[w1] EXCEPT !.anchors[3] = [NoAnchor EXCEPT !.code = own, !.cert = OwnRoot]]

\* More chains than fit on a page: the second is listed last, the first is revoked.
DemoChain(code, leaf, others, until) ==
    [ code |-> code, anchor |-> 2, leaf |-> leaf, others |-> others,
      from |-> 0, until |-> until, state |-> "validated" ]
Stocked == [MCDemo[w1] EXCEPT !.drawn = 4, !.chains[1].state = "revoked",
    !.chains[2] = DemoChain(next, LateLeaf, {}, 2),
    !.chains[3] = DemoChain(own, Leaf(d1, d1, 1), {DemoRoots(w1)[2]}, 1),
    !.chains[4] = DemoChain(spare, Leaf(d1, d1, 1), {Stray}, 0)]

MCDatabases == {Empty, InUse, Stocked}

MCRequests ==
    {[NoRequest EXCEPT !.op = "import_anchor", !.code = own, !.leaf = c] : c \in {OwnRoot, OwnLeaf}}
    \cup {[NoRequest EXCEPT !.op = "import_chain", !.id = 3, !.code = own, !.leaf = OwnLeaf, !.others = {Intermediate}],
           [NoRequest EXCEPT !.op = "import_chain", !.id = 3, !.code = next, !.leaf = DirectLeaf, !.others = {Stray}]}
    \cup {[NoRequest EXCEPT !.op = "lifecycle", !.id = 3, !.to = a] : a \in Actions}
    \cup {[NoRequest EXCEPT !.op = "transition", !.id = 1, !.to = s] : s \in {"deprecated", "revoked"}}
    \cup {[NoRequest EXCEPT !.op = "create", !.id = 1, !.new = 3, !.candidates = c] : c \in {{1}, {1, 2}}}
=============================================================================
