----------------------------- MODULE MCSpendCap -----------------------------
\* Small instances of SpendCap: requests of cost 1 and 2 against caps of 2
\* and 3, so that some pairs fit a cap and some do not.
EXTENDS SpendCap, TLC

CONSTANTS r1, r2

MCRequests == {r1, r2}
MCCost     == (r1 :> 2) @@ (r2 :> 1)

=============================================================================
