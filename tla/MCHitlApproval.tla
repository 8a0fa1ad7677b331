--------------------------- MODULE MCHitlApproval ---------------------------
\* Small instances of HitlApproval.
EXTENDS HitlApproval, TLC

CONSTANTS r1, r2, r3, t1, t2, k1

MCRequests == {r1, r2, r3}
MCPair     == {r1, r2}

\* r1 and r2 are retries with one key; r3 uses the same key on another token.
MCTokenOf  == (r1 :> t1) @@ (r2 :> t1) @@ (r3 :> t2)
MCKeyOf    == [r \in MCRequests |-> k1]

\* Two retries of one token.
MCPairTokenOf == [r \in MCPair |-> t1]
MCPairKeyOf   == [r \in MCPair |-> k1]

\* The two retries of t1 are interchangeable.
MCSymmetry == Permutations({r1, r2})

=============================================================================
