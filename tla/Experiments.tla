----------------------------- MODULE Experiments -----------------------------
(***************************************************************************)
(* A/B experiments (api/experiment_handlers.rs): policies whose name has a *)
(* prefix and whose one rule splits requests among variants by weight      *)
(* (proxy/handler/core.rs, Action::Split). Results are counted from audit  *)
(* rows by the name of the experiment. The policies' own handlers can      *)
(* change the same rows: see PolicyAdmin.                                  *)
(***************************************************************************)
EXTENDS Naturals, Sequences, SequencesExt, FiniteSets

CONSTANTS
    Tasks,     \* handlers and requests, each of them once
    Workloads, \* what the tasks do: [Tasks -> Jobs]
    Wrap,      \* weights and their sums are numbers below it (2^32)
    ListLimit, \* how many policies a listing has, the newest first
    None

VARIABLES
    rows,    \* the policies, in the order of their creation
    audits,  \* rows of requests that were assigned
    job, pc,
    read,    \* what a handler has read, or the variant a request has got
    answer,
    meddled, \* history: a policy's own handler has changed an experiment
    crossed  \* history: updates that such a change has overtaken, or one of them

vars == <<rows, audits, job, pc, read, answer, meddled, crossed>>

\* What a task begins as.
WorkloadsAssumption ==
    \A w \in Workloads : \A t \in Tasks :
        w[t].do \in {"request", "create", "update", "stop", "list", "get", "results", "series", "edit"}

\* A rule: its condition, the experiment it names, the weights of its variants.
Rule(when, experiment, weights) == [when |-> when, experiment |-> experiment, weights |-> weights]

Init ==
    /\ rows = <<>>
    /\ audits = {}
    /\ job \in Workloads
    /\ pc = [t \in Tasks |-> job[t].do]
    /\ read = [t \in Tasks |-> None]
    /\ answer = [t \in Tasks |-> None]
    /\ meddled = FALSE
    /\ crossed = {}

Under(t, stage) == pc[t] = stage

Go(t, stage) == pc' = [pc EXCEPT ![t] = stage]

\* What a handler answers, and for results the rows it has counted.
Reply(t, kind, named, own) ==
    /\ answer' = [answer EXCEPT ![t] = [is |-> kind, named |-> named, own |-> own]]
    /\ Go(t, "over")

Answer(t, kind) == Reply(t, kind, {}, {})

-----------------------------------------------------------------------------
\* Action::Split

Sum(weights) == FoldLeft(LAMBDA sum, w : (sum + w) % Wrap, 0, weights)

\* The first variant whose cumulative weight is above the bucket.
Chosen(weights, bucket) ==
    LET reached == {v \in DOMAIN weights : bucket < Sum(SubSeq(weights, 1, v))}
    IN  IF reached = {} THEN 1 ELSE CHOOSE v \in reached : \A u \in reached : v <= u

\* A request reads the policies of its token; the last split that matches it
\* and has weights is the one that is recorded.
Assign(t) ==
    /\ Under(t, "request")
    /\ \E matching \in SUBSET {i \in DOMAIN rows : rows[i].active} :
          /\ \A i \in DOMAIN rows : rows[i].active /\ rows[i].rule.when = "always" => i \in matching
          /\ LET splits == {i \in matching : Sum(rows[i].rule.weights) # 0}
             IN  \/ splits = {} /\ Go(t, "over") /\ UNCHANGED read
                 \/ \E i \in splits : \E bucket \in 0..Sum(rows[i].rule.weights) - 1 :
                       /\ \A j \in splits : j <= i
                       /\ read' = [read EXCEPT ![t] =
                              [of |-> t, by |-> i, experiment |-> rows[i].rule.experiment,
                               variant |-> Chosen(rows[i].rule.weights, bucket)]]
                       /\ Go(t, "record")
    /\ UNCHANGED <<rows, audits, job, answer, meddled, crossed>>

\* The audit row of the request, written when it has been answered.
Record(t) ==
    /\ Under(t, "record")
    /\ audits' = audits \cup {read[t]}
    /\ Go(t, "over")
    /\ UNCHANGED <<rows, job, read, answer, meddled, crossed>>

-----------------------------------------------------------------------------
\* The handlers of experiments.

\* UNIQUE (project_id, name), stopped policies included.
Taken(name) == \E i \in DOMAIN rows : rows[i].name = name

\* create_experiment: two variants at least, each with a weight.
Create(t) ==
    /\ Under(t, "create")
    /\ IF /\ Len(job[t].weights) >= 2
          /\ \A v \in DOMAIN job[t].weights : job[t].weights[v] # 0
          /\ ~Taken(job[t].name)
       THEN /\ rows' = Append(rows, [name |-> job[t].name, active |-> TRUE,
                                     rule |-> Rule(job[t].when, job[t].name, job[t].weights)])
            /\ Answer(t, "running")
       ELSE UNCHANGED rows /\ Answer(t, "refused")
    /\ UNCHANGED <<audits, job, read, meddled, crossed>>

\* Policy i is in a listing.
Listed(i) == i \in DOMAIN rows /\ i > Len(rows) - ListLimit

\* update_experiment reads the policy; the weights are not looked at.
Find(t) ==
    /\ Under(t, "update")
    /\ IF Listed(job[t].id) /\ rows[job[t].id].active /\ Len(job[t].weights) >= 2
       THEN /\ read' = [read EXCEPT ![t] = rows[job[t].id]]
            /\ Go(t, "write")
            /\ UNCHANGED answer
       ELSE UNCHANGED read /\ Answer(t, "refused")
    /\ UNCHANGED <<rows, audits, job, meddled, crossed>>

\* "Preserve the original condition when updating"
Renewed(t) == Rule(read[t].rule.when, read[t].name, job[t].weights)

\* Updates of policy i that have read it and not yet written.
Overtaken(i) == {t \in Tasks : Under(t, "write") /\ job[t].id = i}

\* and replaces its rules, if it is active still.
Write(t) ==
    /\ Under(t, "write")
    /\ IF rows[job[t].id].active
       THEN /\ rows' = [rows EXCEPT ![job[t].id].rule = Renewed(t)]
            /\ crossed' = crossed \cup IF t \in crossed THEN Overtaken(job[t].id) ELSE {}
            /\ Answer(t, "running")
       ELSE UNCHANGED <<rows, crossed>> /\ Answer(t, "refused")
    /\ UNCHANGED <<audits, job, read, meddled>>

\* stop_experiment: delete_policy
Stop(t) ==
    /\ Under(t, "stop")
    /\ IF job[t].id \in DOMAIN rows /\ rows[job[t].id].active
       THEN rows' = [rows EXCEPT ![job[t].id].active = FALSE] /\ Answer(t, "stopped")
       ELSE UNCHANGED rows /\ Answer(t, "refused")
    /\ UNCHANGED <<audits, job, read, meddled, crossed>>

\* list_experiments
List(t) ==
    /\ Under(t, "list")
    /\ Reply(t, "listed", {i \in DOMAIN rows : Listed(i) /\ rows[i].active}, {})
    /\ UNCHANGED <<rows, audits, job, read, meddled, crossed>>

\* get_experiment, get_experiment_results, get_experiment_timeseries: the name
\* of the policy, stopped or not,
Look(t) ==
    /\ pc[t] \in {"get", "results", "series"}
    /\ IF Listed(job[t].id)
       THEN read' = [read EXCEPT ![t] = rows[job[t].id].name] /\ Go(t, "count") /\ UNCHANGED answer
       ELSE UNCHANGED read /\ Answer(t, "refused")
    /\ UNCHANGED <<rows, audits, job, meddled, crossed>>

\* then the audit rows of that name, of the last hours for a series. "own" is
\* kept for the properties: those that the policy has assigned.
Tally(t) ==
    /\ Under(t, "count")
    /\ \E recent \in SUBSET audits :
          /\ job[t].do # "series" => recent = audits
          /\ LET own == {a \in recent : a.by = job[t].id}
             IN  \/ Reply(t, "counted", {a \in recent : a.experiment = read[t]}, own)
                 \/ job[t].do = "get" /\ Reply(t, "counted", {}, own)
                 \/ job[t].do # "get" /\ Answer(t, "failed")
    /\ UNCHANGED <<rows, audits, job, read, meddled, crossed>>

\* PUT /policies/:id with other rules or another name, which must be free.
Meddle(t) ==
    /\ Under(t, "edit")
    /\ LET i == job[t].id
       IN  IF i \in DOMAIN rows /\ rows[i].active /\ (job[t].name = rows[i].name \/ ~Taken(job[t].name))
           THEN /\ rows' = [rows EXCEPT ![i].name = job[t].name, ![i].rule.when = job[t].when]
                /\ Answer(t, "changed")
                /\ meddled' = TRUE
                /\ crossed' = crossed \cup Overtaken(i)
           ELSE UNCHANGED <<rows, meddled, crossed>> /\ Answer(t, "refused")
    /\ UNCHANGED <<audits, job, read>>

Next ==
    \E t \in Tasks :
        \/ Assign(t) \/ Record(t)
        \/ Create(t) \/ Find(t) \/ Write(t) \/ Stop(t) \/ List(t) \/ Look(t) \/ Tally(t)
        \/ Meddle(t)

Spec == Init /\ [][Next]_vars

-----------------------------------------------------------------------------
Total(weights) == FoldLeft(LAMBDA sum, w : sum + w, 0, weights)

\* Of the buckets of a split each variant has as many as its weight.
Exact(weights) ==
    \A v \in DOMAIN weights :
        Cardinality({b \in 0..Sum(weights) - 1 : Chosen(weights, b) = v}) = weights[v]

SplitExact ==
    \A i \in DOMAIN rows : Total(rows[i].rule.weights) \in 1..Wrap - 1 => Exact(rows[i].rule.weights)

\* What is counted for an experiment is what its policy has assigned, however
\* experiments are stopped, created and updated meanwhile, unless a policy was
\* given another name by the policies' own handler.
ResultsOwn ==
    \A t \in Tasks :
        Under(t, "over") /\ job[t].do \in {"results", "series"} /\ ~meddled
            => answer[t].named = answer[t].own

\* An experiment that was stopped stays so, and its condition is what it was,
\* but for a change by the policies' own handler and an update that crossed it.
Preserved ==
    [][\A i \in DOMAIN rows :
          /\ ~rows[i].active => ~rows'[i].active
          /\ rows'[i].rule.when # rows[i].rule.when =>
                \E t \in Tasks : \/ Under(t, "edit") /\ ~Under(t, "edit")'
                                 \/ t \in crossed /\ Under(t, "write") /\ ~Under(t, "write")']_vars

\* experiment_handlers.rs:397: "Preserve the original condition when updating"
ConditionKept ==
    [][\A i \in DOMAIN rows :
          rows'[i].rule.when # rows[i].rule.when =>
                \E t \in Tasks : Under(t, "edit") /\ ~Under(t, "edit")']_vars

\* models/policy.rs:325: "relative weights (do not need to sum to 100)"
WeightsKept == \A i \in DOMAIN rows : Total(rows[i].rule.weights) > 0 => Exact(rows[i].rule.weights)

\* An experiment that runs has variants to choose from.
RunningSplits == \A i \in DOMAIN rows : rows[i].active => Total(rows[i].rule.weights) > 0

\* experiment_handlers.rs:143: "list all running experiments"
AllListed ==
    [][\A t \in Tasks : Under(t, "list") /\ ~Under(t, "list")' =>
          answer'[t].named = {i \in DOMAIN rows : rows[i].active}]_vars

\* An experiment is shown with its results.
ShownWithResults ==
    \A t \in Tasks : Under(t, "over") /\ job[t].do = "get" /\ ~meddled
        => answer[t].named = answer[t].own

\* Results are of one experiment.
NamesApart == \A i, j \in DOMAIN rows :
                  i # j => rows[i].rule.experiment # rows[j].rule.experiment

=============================================================================
