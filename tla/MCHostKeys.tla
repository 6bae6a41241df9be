----------------------------- MODULE MCHostKeys -----------------------------
(* One wildcard pattern over the hosts; files with nothing, with a pin, with *)
(* a revoked key under the wildcard, and with a certificate authority.       *)
EXTENDS HostKeys, TLC

CONSTANTS h1, h2, k1, k2, star

MCPatterns == Hosts \cup {star}
MCCovers == [p \in MCPatterns |-> IF p = star THEN Hosts ELSE {p}]

Line(p, m, k) == [patterns |-> p, marker |-> m, key |-> k, full |-> TRUE]
MCFiles == {{},
            {Line(star, "none", k1), Line(star, "revoked", k1)},
            {Line(star, "revoked", k2)},
            {Line(star, "ca", k1)}}
            \cup {{Line(h, "none", k1), Line(h, "revoked", k2)} : h \in Hosts}

\* The application pins one key of a host; first uses may have pinned another.
MCEdits == {[host |-> h1, key |-> k1]}

Symmetry == Permutations(Handlers)
=============================================================================
