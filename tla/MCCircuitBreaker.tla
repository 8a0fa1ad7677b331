--------------------------- MODULE MCCircuitBreaker ---------------------------
\* Small instances of CircuitBreaker: one target, or two of the same priority
\* and weight; requests sent to the target's own URL, or to a path below it.
EXTENDS CircuitBreaker, TLC

CONSTANTS a, b, aPath, bPath, svc, r1, r2

MCSoleUrls == {a}
MCPairUrls == {a, b}
MCPathUrls == {a, b, aPath, bPath}
MCAllUrls  == {a, b, bPath, svc}

MCRequests == {r1, r2}

MCSingle == <<[url |-> a, weight |-> 100, priority |-> 1]>>
MCPair   == <<[url |-> a, weight |-> 1, priority |-> 1],
              [url |-> b, weight |-> 1, priority |-> 1]>>

MCSame  == [i \in Index |-> Upstreams[i].url]
MCPaths == [i \in Index |-> IF i = 1 THEN aPath ELSE bPath]

MCHalf  == [i \in Index |-> IF i = 1 THEN a ELSE bPath]

MCService == {svc}

MCFirst == {{1}}
MCBoth  == {{1, 2}}
MCMixed == {{1, 2}, {2}}

=============================================================================
