----------------------------- MODULE Certificates -----------------------------
(***************************************************************************)
(* What the backend computes about certificates: when one may be a trust   *)
(* anchor, when a bundle verifies under an anchor (x509util/certificate.go)*)
(* and the states derived from dates (constants/certificate_state.go).     *)
(*                                                                         *)
(* A certificate is the record of the fields these decisions look at; two  *)
(* certificates are equal when their fingerprints are.  That a signature   *)
(* checks out is that the signer's key is the issuer's.                    *)
(***************************************************************************)
EXTENDS Naturals, FiniteSets

CertificateOf(Keys) ==
    [ key : Keys, signer : Keys, from : Nat, until : Nat,
      ca         : BOOLEAN,   \* basic constraints
      certSign   : BOOLEAN,   \* key usage
      serverAuth : BOOLEAN ]  \* no extended key usage, or server authentication among them

\* ValidateTrustAnchor: the end of the window is outside it.
ValidateTrustAnchor(c, t) ==
    /\ c.ca /\ c.certSign
    /\ c.from <= t /\ t < c.until
    /\ c.signer = c.key

\* x509.Verify: the end of a certificate's window is still inside it.
UsableAt(c, t) == c.from <= t /\ t <= c.until /\ c.serverAuth

Signed(child, parent) == parent.ca /\ parent.certSign /\ child.signer = parent.key

\* x509.Certificate.Verify: some path leads from the leaf through intermediates of the
\* bundle to the root.  Certificates off that path are not looked at.
Verify(leaf, others, root, t) ==
    \E n \in 1..(Cardinality(others) + 1) :
      \E path \in [1..n -> {leaf} \cup others] :
        /\ path[1] = leaf
        /\ \A i \in 1..n : UsableAt(path[i], t)
        /\ \A i \in 2..n : Signed(path[i - 1], path[i])
        /\ Signed(path[n], root) /\ UsableAt(root, t)

ValidateChain(anchor, leaf, others, t) ==
    ValidateTrustAnchor(anchor, t) /\ Verify(leaf, others, anchor, t)

Narrowest(certificates) ==
    {window \in [from : {c.from : c \in certificates}, until : {c.until : c \in certificates}] :
        \A c \in certificates : c.from <= window.from /\ window.until <= c.until}

\* Fault: the rest of the bundle does not narrow the window.
WindowOfLeaf(anchor, leaf, others) == Narrowest({anchor, leaf})

\* The window a chain is stored with: that of the anchor, narrowed by every
\* certificate of the bundle, whether it is on the path that was verified or not.
WindowOf(anchor, leaf, others) == Narrowest({anchor, leaf} \cup others)

CertificateStates == {"valid", "expiring", "expired", "revoked"}

\* Soon stands for the 90 days before the end.
CalculateCertificateState(now, until, revoked, Soon) ==
    CASE revoked -> "revoked"
      [] ~revoked /\ until <= now -> "expired"
      [] ~revoked /\ now < until /\ until <= now + Soon -> "expiring"
      [] OTHER -> "valid"

\* The order in which a certificate goes through them.
Severity == [state \in CertificateStates |->
    CASE state = "valid" -> 0 [] state = "expiring" -> 1 [] state = "expired" -> 2 [] OTHER -> 3]

ChainStates == {"imported", "validated", "deprecated", "revoked"}

ChainMoves ==
    { <<"imported", "validated">>,   <<"imported", "revoked">>,
      <<"validated", "deprecated">>, <<"validated", "revoked">>,
      <<"deprecated", "revoked">> }

CanTransitionChain(from, to) == <<from, to>> \in ChainMoves

\* has_valid_overlap of CertificateChainService.Compare.
HasValidOverlap(a, b) ==
    \A start \in {a.from, b.from}, end \in {a.until, b.until} : start < end

=============================================================================
