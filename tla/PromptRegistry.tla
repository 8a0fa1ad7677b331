--------------------------- MODULE PromptRegistry ---------------------------
(***************************************************************************)
(* One prompt with its versions and release labels                         *)
(* (store/postgres/prompts.rs, api/prompt_handlers.rs). Each request       *)
(* publishes a version or deploys a label, in a transaction of PostgreSQL  *)
(* at READ COMMITTED: a statement sees the rows committed when it began,   *)
(* waits for the rows other transactions have locked, and goes on with     *)
(* what they left in them. A deploy locks the versions its first statement *)
(* sees until it commits, so what it writes is applied at the commit.      *)
(***************************************************************************)
EXTENDS Naturals, FiniteSets, FiniteSetsExt

CONSTANTS
    Publishers, \* requests to POST /prompts/:id/versions
    Deployers,  \* requests to POST /prompts/:id/deploy
    Labels,     \* release labels
    None

\* What the constants must be.
ConstantsAssumption == IsFiniteSet(Publishers) /\ None \notin Nat

Numbers == 1..Cardinality(Publishers)

VARIABLES
    active,  \* is_active of the prompt
    count,   \* versions 1..count are committed
    labels,  \* the labels of each version
    ppc,     \* where each publication is
    number,  \* the version it inserts
    dpc,     \* where each deploy is
    ask,     \* the label it moves and the version it moves it to
    seen,    \* how many versions its first statement sees
    current, \* history: where the deploy of each label that committed last put it
    passed,  \* history: deploys overtaken by one to a version they do not see
    crossed  \* history: labels whose last deploy was so overtaken

row     == <<active, count, labels>>
publish == <<ppc, number>>
history == <<current, passed, crossed>>
vars    == <<row, publish, dpc, ask, seen, history>>

Init ==
    /\ active = TRUE
    /\ count = 0
    /\ labels = [v \in Numbers |-> {}]
    /\ ppc = [p \in Publishers |-> "new"]
    /\ number = [p \in Publishers |-> 0]
    /\ dpc = [d \in Deployers |-> "new"]
    /\ ask \in [Deployers -> [label : Labels, version : Numbers]]
    /\ seen = [d \in Deployers |-> 0]
    /\ current = [l \in Labels |-> None]
    /\ passed = {}
    /\ crossed = {}

-----------------------------------------------------------------------------
\* Publication

CheckPublish(p) ==
    /\ ppc[p] = "new"
    /\ ppc' = [ppc EXCEPT ![p] = IF active THEN "checked" ELSE "refused"]
    /\ UNCHANGED <<row, number, dpc, ask, seen, history>>

\* The FOR UPDATE lock on the prompt's row is held until the end.
Locked == \E p \in Publishers : ppc[p] \in {"locked", "inserted"}

LockPrompt(p) ==
    /\ ppc[p] = "checked"
    /\ ~Locked
    /\ ppc' = [ppc EXCEPT ![p] = "locked"]
    /\ UNCHANGED <<row, number, dpc, ask, seen, history>>

InsertVersion(p) ==
    /\ ppc[p] = "locked"
    /\ number' = [number EXCEPT ![p] = count + 1]
    /\ ppc' = [ppc EXCEPT ![p] = "inserted"]
    /\ UNCHANGED <<row, dpc, ask, seen, history>>

CommitVersion(p) ==
    /\ ppc[p] = "inserted"
    /\ count' = number[p]
    /\ ppc' = [ppc EXCEPT ![p] = "published"]
    /\ UNCHANGED <<active, labels, number, dpc, ask, seen, history>>

\* A store that fails, or a client that goes: the transaction is rolled back.
AbortPublish(p) ==
    /\ ppc[p] \in {"checked", "locked", "inserted"}
    /\ ppc' = [ppc EXCEPT ![p] = "failed"]
    /\ UNCHANGED <<row, number, dpc, ask, seen, history>>

-----------------------------------------------------------------------------
\* Deploys

CheckDeploy(d) ==
    /\ dpc[d] = "new"
    /\ dpc' = [dpc EXCEPT ![d] = IF active THEN "checked" ELSE "refused"]
    /\ UNCHANGED <<row, publish, ask, seen, history>>

\* The first statement begins.
BeginDeploy(d) ==
    /\ dpc[d] = "checked"
    /\ seen' = [seen EXCEPT ![d] = count]
    /\ dpc' = [dpc EXCEPT ![d] = "waiting"]
    /\ UNCHANGED <<row, publish, ask, history>>

\* Mutant: the label is taken from older versions only.
Cleared_Older(d) == 1..ask[d].version - 1

\* The versions that the first statement takes the label from.
Cleared(d) == 1..seen[d]

\* The versions a deploy has locked.
RowsOf(d) == IF dpc[d] = "cleared" THEN Cleared(d) ELSE {}

Free(d, rows) == \A e \in Deployers \ {d} : RowsOf(e) \cap rows = {}

\* It has every version it sees, and takes the label from them.
ClearLabel(d) ==
    /\ dpc[d] = "waiting"
    /\ Free(d, Cleared(d))
    /\ dpc' = [dpc EXCEPT ![d] = "cleared"]
    /\ UNCHANGED <<row, publish, ask, seen, history>>

Exists(d) == ask[d].version <= count

\* The label goes to the version asked for, if that exists by now. The deploy
\* is committed in either case.
CommitDeploy(d) ==
    LET label  == ask[d].label
        target == IF Exists(d) THEN ask[d].version ELSE None
    IN  /\ dpc[d] = "cleared"
        /\ Free(d, {ask[d].version})
        /\ labels' = [v \in Numbers |->
                         CASE v = target -> labels[v] \cup {label}
                           [] v # target /\ v \in Cleared(d) -> labels[v] \ {label}
                           [] OTHER -> labels[v]]
        /\ dpc' = [dpc EXCEPT ![d] = IF Exists(d) THEN "deployed" ELSE "missing"]
        /\ current' = [current EXCEPT ![label] = target]
        /\ passed' = passed \cup
               {e \in Deployers \ {d} : /\ dpc[e] \in {"waiting", "cleared"}
                                        /\ ask[e].label = label
                                        /\ target # None
                                        /\ target > seen[e]}
        /\ crossed' = IF d \in passed THEN crossed \cup {label}
                                      ELSE crossed \ {label}
        /\ UNCHANGED <<active, count, publish, ask, seen>>

\* A store that fails, a deadlock on the versions, or a client that goes.
AbortDeploy(d) ==
    /\ dpc[d] \in {"checked", "waiting", "cleared"}
    /\ dpc' = [dpc EXCEPT ![d] = "failed"]
    /\ UNCHANGED <<row, publish, ask, seen, history>>

-----------------------------------------------------------------------------
\* DELETE /prompts/:id; its UPDATE waits for the lock of a publication.
DeletePrompt ==
    /\ active
    /\ ~Locked
    /\ active' = FALSE
    /\ UNCHANGED <<count, labels, publish, dpc, ask, seen, history>>

Labelled(l) == {v \in 1..count : l \in labels[v]}

\* get_prompt_for_render by label: the highest version that has it.
Rendered(l) == IF active /\ Labelled(l) # {} THEN Max(Labelled(l)) ELSE None

Next ==
    \/ \E p \in Publishers :
          \/ CheckPublish(p) \/ LockPrompt(p) \/ InsertVersion(p)
          \/ CommitVersion(p) \/ AbortPublish(p)
    \/ \E d \in Deployers :
          \/ CheckDeploy(d) \/ BeginDeploy(d) \/ ClearLabel(d)
          \/ CommitDeploy(d) \/ AbortDeploy(d)
    \/ DeletePrompt

Spec == Init /\ [][Next]_vars

-----------------------------------------------------------------------------
\* Properties

\* prompts.rs: "atomically move a label to a specific version". What a label
\* renders is where the deploy that committed last put it, and nothing if its
\* target was missing: a label is never on two versions, whatever runs at
\* once. The one exception is a deploy that another overtakes with a version
\* published after the first had begun, which it does not see and so leaves.
DeployedIsRendered ==
    active => \A l \in Labels \ crossed : Rendered(l) = current[l]

\* The same without the exception.
LastDeployWins == active => \A l \in Labels : Rendered(l) = current[l]

\* A deploy that answers 404 leaves the label where it was.
MissingKeepsLabel ==
    [][\A d \in Deployers :
          dpc'[d] = "missing" /\ dpc[d] # "missing" => labels' = labels]_vars

=============================================================================
