------------------------- MODULE MCTrustPathSimulator -------------------------
(***************************************************************************)
(* Small inputs of TrustPathSimulator: three services over an old and a    *)
(* new chain.                                                              *)
(***************************************************************************)
EXTENDS TrustPathSimulator, TLC

CONSTANTS api, other, old, new

MCServices == 1..3
MCChains == 10..13
MCAnchors == {old, new}
MCLeaves == {api, other}

Window(candidates, simulation) ==
    [ old |-> old, new |-> new, start |-> 2, end |-> 6, simulation |-> simulation,
      candidates |-> candidates ]

Issued(anchor, leaf, from, to) ==
    [ anchor |-> anchor, leaf |-> leaf, from |-> from, to |-> to, valid |-> TRUE,
      state |-> "validated" ]

\* An old chain, a new one for the same leaf, and one for another leaf.
OverlappingChains ==
    (10 :> Issued(old, api, 0, 9)) @@ (11 :> Issued(new, api, 0, 9)) @@ (12 :> Issued(new, other, 0, 9))
DeprecatedChains == [OverlappingChains EXCEPT ![10].state = "deprecated"]
LateChains ==
    (10 :> Issued(old, api, 0, 5)) @@ (11 :> Issued(new, api, 6, 9)) @@ (12 :> Issued(new, api, 0, 9))

Running(chain, trust, deps, state) ==
    [chain |-> chain, trust |-> trust, deps |-> deps, state |-> state]

\* A candidate is not among the chains: no more than 200 of them are read.
IncompleteSnapshot ==
    [ config |-> Window({10, 13}, 3), chains |-> OverlappingChains,
      services |-> 1 :> Running(10, {old, new}, {}, "active") ]

\* Every dependency graph over the services that has no loops, with
\* clients that trust the old anchor only or both, active or not.
MCSnapshots ==
    { [ config |-> Window({10, 11}, simulation),
        chains |-> chains,
        services |-> (1 :> Running(10, {old, new}, d1, state1))
                     @@ (2 :> Running(10, trust2, d2, "active"))
                     @@ (3 :> Running(12, {old, new}, d3, state3)) ] :
        simulation \in {3}, chains \in {OverlappingChains, DeprecatedChains},
        d1 \in SUBSET {2, 3}, d2 \in SUBSET {1, 3}, d3 \in SUBSET {1, 2},
        trust2 \in {{old}, {old, new}},
        state1 \in {"active", "inactive"}, state3 \in {"active", "inactive"} }
    \cup { IncompleteSnapshot }

\* The old chain ends at the time 5, the new one begins at 6.
GapSnapshots ==
    { [ config |-> Window({10, 11}, 4),
        chains |-> LateChains,
        services |-> 1 :> Running(10, {old, new}, {}, "active") ] }

=============================================================================
