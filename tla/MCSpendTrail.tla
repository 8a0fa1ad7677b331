---------------------------- MODULE MCSpendTrail ----------------------------
\* A stream on its own, in one dialect or another; an answer with small
\* or large bodies on its own; or two plain ones against a budget that a third has
\* half used up before.
EXTENDS SpendTrail

CONSTANTS r1, r2, r3, low

Of(a, b) == [r \in Requests |-> IF r = r1 THEN a ELSE IF r = r2 THEN b ELSE "none"]

Stream(dialect) ==
    [kinds  |-> Of(dialect, "none"),
     sizes  |-> Of("none", "none"),
     alerts |-> {},
     month  |-> LastMonth]

Plain(size) ==
    [Stream("openai") EXCEPT !.kinds = Of("plain", "none"), !.sizes = Of(size, "none")]

Capped ==
    [kinds  |-> Of("plain", "plain"),
     sizes  |-> Of("none", "none"),
     alerts |-> Alerts,
     month  |-> 1]

\* A month that has no partition.
Late == [Stream("openai") EXCEPT !.kinds = Of("plain", "none"), !.month = LastMonth + 1]

LateArrivals == {Late}

MCArrivals == {Stream(d) : d \in Dialects \ {"gemini"}} \cup
              {Plain("small"), Plain("large"), Capped, Late}

GeminiArrivals == {Stream("gemini")}

MCWarnAt == [a \in Alerts |-> 1]

MCCapAt == [a \in Alerts |-> 2]

=============================================================================
