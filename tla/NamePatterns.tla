---------------------------- MODULE NamePatterns ----------------------------
(***************************************************************************)
(* The three matchers of names of models and tools: glob_match of the      *)
(* policy engine (middleware/engine/operators.rs), which backtracks, one   *)
(* iteration a step; glob_match of utils.rs; and model_matches of          *)
(* middleware/model_access.rs. A name is a sequence of characters, of      *)
(* which "A" stands for the letters that are not lower case.               *)
(***************************************************************************)
EXTENDS Naturals, Sequences, SequencesExt, FiniteSetsExt

CONSTANTS
    Patterns, Texts, \* what is matched
    MaxRounds,       \* GLOB_MAX_ITERATIONS
    MaxDepth         \* MAX_DEPTH of utils.rs

\* The limits are numbers.
LimitsAssumption == MaxRounds \in Nat /\ MaxDepth \in Nat

\* What a pattern means: its characters stand for consecutive parts of the
\* text, "*" for any, "?" for one character, another for itself.
Denotes(pattern, text) ==
    \E cut \in [1..(Len(pattern) + 1) -> 0..Len(text)] :
        /\ cut[1] = 0
        /\ cut[Len(pattern) + 1] = Len(text)
        /\ \A i \in DOMAIN pattern :
              IF pattern[i] = "*" THEN cut[i] <= cut[i + 1]
              ELSE /\ cut[i + 1] = cut[i] + 1
                   /\ pattern[i] \in {"?", text[cut[i + 1]]}

Lower(name) == [i \in DOMAIN name |-> IF name[i] = "A" THEN "a" ELSE name[i]]

\* glob_match of utils.rs: no case, and calls no deeper than MaxDepth.
MatchesLower(pattern, text) ==
    LET ps == Lower(pattern)
        ts == Lower(text)
        match[i \in 1..(Len(ps) + 1), j \in 1..(Len(ts) + 1), depth \in 0..(MaxDepth + 1)] ==
            LET more == j <= Len(ts)
            IN  /\ depth <= MaxDepth
                /\ IF i > Len(ps) THEN ~more
                   ELSE IF ps[i] = "*"
                   THEN match[i + 1, j, depth + 1] \/ (more /\ match[i, j + 1, depth + 1])
                   ELSE more /\ ps[i] \in {"?", ts[j]} /\ match[i + 1, j + 1, depth + 1]
    IN  match[1, 1, 0]

-----------------------------------------------------------------------------
\* model_matches: the parts between the stars are found one after the other.

NoMatch == <<"no match">>

\* The n + 1 parts of a pattern with n stars.
Parts(pattern) ==
    LET stars == SetToSortSeq({i \in DOMAIN pattern : pattern[i] = "*"}, <)
        edge  == <<0>> \o stars \o <<Len(pattern) + 1>>
    IN  [k \in 1..(Len(stars) + 1) |-> SubSeq(pattern, edge[k] + 1, edge[k + 1] - 1)]

\* The text after the first occurrence of the part.
AfterPart(rest, part) ==
    LET at == {i \in 0..(Len(rest) - Len(part)) :
                  SubSeq(rest, i + 1, i + Len(part)) = part}
    IN  IF rest = NoMatch \/ at = {} THEN NoMatch
        ELSE SubSeq(rest, Min(at) + Len(part) + 1, Len(rest))

\* Mutant: the last part is looked for like the others, not at the end.
ModelMatches_Anywhere(model, pattern) ==
    LET parts == Parts(Lower(pattern))
        name  == Lower(model)
    IN  IF Len(parts) = 1 THEN name = parts[1]
        ELSE /\ IsPrefix(parts[1], name)
             /\ FoldLeft(AfterPart, SubSeq(name, Len(parts[1]) + 1, Len(name)), Tail(parts))
                    # NoMatch

ModelMatches(model, pattern) ==
    LET parts == Parts(Lower(pattern))
        name  == Lower(model)
        rest  == FoldLeft(AfterPart, SubSeq(name, Len(parts[1]) + 1, Len(name)),
                          SubSeq(parts, 2, Len(parts) - 1))
    IN  IF Len(parts) = 1 THEN name = parts[1]
        ELSE IsPrefix(parts[1], name) /\ rest # NoMatch /\ IsSuffix(Last(parts), rest)

-----------------------------------------------------------------------------
\* glob_match of the policy engine.

VARIABLES
    pattern, text,
    p, t,    \* the next character of each
    stack,   \* where each star so far began
    rounds,
    matched

vars == <<pattern, text, p, t, stack, rounds, matched>>

Init ==
    /\ pattern \in Patterns
    /\ text \in Texts
    /\ p = 1
    /\ t = 1
    /\ stack = <<>>
    /\ rounds = 0
    /\ matched = "open"

Answer(b) ==
    /\ matched' = IF b THEN "yes" ELSE "no"
    /\ UNCHANGED <<pattern, text, p, t, stack>>

Shortcuts == {<<"*">>, <<"/", "*">>}

Shortcut ==
    /\ matched = "open"
    /\ pattern \in Shortcuts
    /\ Answer(TRUE)
    /\ UNCHANGED rounds

Round ==
    /\ matched = "open"
    /\ pattern \notin Shortcuts
    /\ rounds < MaxRounds
    /\ rounds' = rounds + 1

TooLong ==
    /\ matched = "open"
    /\ pattern \notin Shortcuts
    /\ rounds = MaxRounds
    /\ Answer(FALSE)
    /\ UNCHANGED rounds

AtStar == p <= Len(pattern) /\ pattern[p] = "*"

Fits == p <= Len(pattern) /\ t <= Len(text) /\ pattern[p] \in {"?", text[t]}

AtEnd == p > Len(pattern) /\ t > Len(text)

Star ==
    /\ Round
    /\ AtStar
    /\ p' = p + 1
    /\ stack' = Append(stack, [p |-> p', t |-> t])
    /\ UNCHANGED <<pattern, text, t, matched>>

Advance ==
    /\ Round
    /\ ~AtStar
    /\ Fits
    /\ p' = p + 1
    /\ t' = t + 1
    /\ UNCHANGED <<pattern, text, stack, matched>>

Finish ==
    /\ Round
    /\ AtEnd
    /\ Answer(TRUE)

\* Mutant: the star is forgotten after it has taken one more character.
Backtrack_Once ==
    /\ Round
    /\ ~AtStar /\ ~Fits /\ ~AtEnd
    /\ IF stack = <<>> \/ Last(stack).t > Len(text) THEN Answer(FALSE)
       ELSE /\ p' = Last(stack).p
            /\ t' = Last(stack).t + 1
            /\ stack' = Front(stack)
            /\ UNCHANGED <<pattern, text, matched>>

\* The last star takes one more character.
Backtrack ==
    /\ Round
    /\ ~AtStar /\ ~Fits /\ ~AtEnd
    /\ IF stack = <<>> \/ Last(stack).t > Len(text) THEN Answer(FALSE)
       ELSE /\ p' = Last(stack).p
            /\ t' = Last(stack).t + 1
            /\ stack' = [stack EXCEPT ![Len(stack)].t = t']
            /\ UNCHANGED <<pattern, text, matched>>

Next == Shortcut \/ TooLong \/ Star \/ Advance \/ Finish \/ Backtrack

Spec == Init /\ [][Next]_vars

-----------------------------------------------------------------------------
\* The answer of the engine is what the pattern means, though it only ever
\* goes back to the last star; but for "/*", and for what takes too long.
EngineAgrees ==
    matched # "open" /\ pattern # <<"/", "*">> /\ rounds < MaxRounds
        => (matched = "yes") = Denotes(pattern, text)

\* A pattern without "?" means the same where targets are chosen by it (and
\* policies checked) and where requests are admitted by it, but for names that
\* are too long for the one.
MatchersAgree ==
    "?" \notin ToSet(pattern) =>
        LET means == Denotes(Lower(pattern), Lower(text))
        IN  /\ ModelMatches(text, pattern) = means
            /\ Len(pattern) + Len(text) <= MaxDepth => MatchesLower(pattern, text) = means

\* The matchers mean the same by a pattern.
PatternsMean == EngineAgrees /\ MatchersAgree

\* A "?" means the same at both places (loadbalancer.rs:60 allows it).
CheckedAsConfigured == MatchesLower(pattern, text) = ModelMatches(text, pattern)

\* "/*" matches what begins with "/".
SlashMatchesSlash == matched = "yes" => Denotes(pattern, text)

=============================================================================
