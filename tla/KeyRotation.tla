----------------------------- MODULE KeyRotation -----------------------------
(***************************************************************************)
(* The rotation of credentials (rotation.rs): each gateway process runs a  *)
(* scheduler that reads the longest overdue credentials and gives each a   *)
(* new envelope, in an UPDATE that looks at the version, and then writes a *)
(* row of rotation_log. Processes share the database and nothing else.     *)
(***************************************************************************)
EXTENDS Naturals, Sequences, FiniteSets, SequencesExt

CONSTANTS
    Schedulers,  \* processes
    Credentials,
    Broken,      \* those whose envelope the master key does not open
    Limit,       \* LIMIT of the query
    MaxVersion,  \* bound: rotations of a credential
    MaxFailures  \* bound: failures of the database and restarts

ConstantsAssumption ==
    /\ Broken \subseteq Credentials
    /\ {Limit, MaxVersion, MaxFailures} \subseteq Nat

VARIABLES
    version, active,
    overdue,  \* credentials whose last rotation is too long ago, oldest first
    pc,       \* where each scheduler is with the first of its candidates
    batch,    \* its candidates, with the version it has read
    log,      \* rotation_log, and who wrote it
    failures

vars == <<version, active, overdue, pc, batch, log, failures>>

Init ==
    /\ version = [c \in Credentials |-> 1]
    /\ active = Credentials
    /\ overdue \in SetToAllKPermutations(Credentials)
    /\ pc = [s \in Schedulers |-> "asleep"]
    /\ batch = [s \in Schedulers |-> <<>>]
    /\ log = {}
    /\ failures = 0

First(s) == Head(batch[s])

Go(s, stage) == pc' = [pc EXCEPT ![s] = stage]

\* s goes on to its next candidate, or to sleep.
Next1(s) ==
    /\ batch' = [batch EXCEPT ![s] = Tail(@)]
    /\ Go(s, IF Len(batch[s]) = 1 THEN "asleep" ELSE "decrypt")

Break == failures < MaxFailures /\ failures' = failures + 1

-----------------------------------------------------------------------------
\* find_due_credentials
FindDue(s) ==
    LET due == SelectSeq(overdue, LAMBDA c : c \in active)
    IN  /\ pc[s] = "asleep"
        /\ due # <<>>
        /\ batch' = [batch EXCEPT ![s] =
               [i \in 1..(IF Len(due) < Limit THEN Len(due) ELSE Limit) |->
                   [id |-> due[i], version |-> version[due[i]]]]]
        /\ Go(s, "decrypt")
        /\ UNCHANGED <<version, active, overdue, log, failures>>

\* The secret is decrypted and encrypted with a fresh key. Nothing reads the
\* cache entry that is invalidated then.
Reencrypt(s) ==
    /\ pc[s] = "decrypt"
    /\ Go(s, IF First(s).id \in Broken THEN "failed" ELSE "update")
    /\ UNCHANGED <<version, active, overdue, batch, log, failures>>

\* Mutant: the UPDATE does not look at the version.
Unchanged_Ignored(s) == TRUE

Unchanged(s) == version[First(s).id] = First(s).version

Update(s) ==
    /\ pc[s] = "update"
    /\ LET c == First(s).id
       IN  IF Unchanged(s)
           THEN /\ version' = [version EXCEPT ![c] = First(s).version + 1]
                /\ overdue' = SelectSeq(overdue, LAMBDA d : d # c)
                /\ Go(s, "log")
           ELSE UNCHANGED <<version, overdue>> /\ Go(s, "failed")
    /\ UNCHANGED <<active, batch, log, failures>>

UpdateFails(s) ==
    /\ pc[s] = "update"
    /\ Break
    /\ Go(s, "failed")
    /\ UNCHANGED <<version, active, overdue, batch, log>>

Row(s, new, status) ==
    [by |-> s, credential |-> First(s).id, old |-> First(s).version, new |-> new, status |-> status]

LogSuccess(s) ==
    /\ pc[s] = "log"
    /\ log' = log \cup {Row(s, First(s).version + 1, "success")}
    /\ Next1(s)
    /\ UNCHANGED <<version, active, overdue, failures>>

\* The error of the INSERT makes the whole rotation a failed one.
LogFails(s) ==
    /\ pc[s] = "log"
    /\ Break
    /\ Go(s, "failed")
    /\ UNCHANGED <<version, active, overdue, batch, log>>

\* Best effort.
LogFailure(s) ==
    /\ pc[s] = "failed"
    /\ \/ log' = log \cup {Row(s, First(s).version, "failed")} /\ UNCHANGED failures
       \/ Break /\ UNCHANGED log
    /\ Next1(s)
    /\ UNCHANGED <<version, active, overdue>>

-----------------------------------------------------------------------------
Restart(s) ==
    /\ pc[s] # "asleep"
    /\ Break
    /\ batch' = [batch EXCEPT ![s] = <<>>]
    /\ Go(s, "asleep")
    /\ UNCHANGED <<version, active, overdue, log>>

Delete(c) ==
    /\ c \in active
    /\ active' = active \ {c}
    /\ UNCHANGED <<version, overdue, pc, batch, log, failures>>

FallDue(c) ==
    /\ c \notin ToSet(overdue)
    /\ version[c] <= MaxVersion
    /\ overdue' = Append(overdue, c)
    /\ UNCHANGED <<version, active, pc, batch, log, failures>>

Rotate(s) == Reencrypt(s) \/ Update(s) \/ LogSuccess(s) \/ LogFailure(s)

Next ==
    \/ \E s \in Schedulers :
          FindDue(s) \/ Rotate(s) \/ UpdateFails(s) \/ LogFails(s) \/ Restart(s)
    \/ \E c \in Credentials : Delete(c) \/ FallDue(c)

Spec == Init /\ [][Next]_vars

\* A scheduler that runs goes on and looks again after its interval.
FairSpec == Spec /\ \A s \in Schedulers : WF_vars(Rotate(s)) /\ WF_vars(FindDue(s))

-----------------------------------------------------------------------------
\* Properties

\* rotation.rs: "version check prevents concurrent rotation". However many
\* processes rotate a credential, the log has one success for each version at
\* most, and none of a version that the credential has not reached.
SuccessIsOwn ==
    \A a \in log : a.status = "success" =>
        /\ a.new <= version[a.credential]
        /\ \A b \in log : (b.status = "success" /\ b.credential = a.credential /\ b.old = a.old) => a = b

\* As long as fewer credentials are broken than one cycle takes, every other
\* one that is overdue is rotated or deleted.
OverdueRotated ==
    Cardinality(Broken) < Limit =>
        \A c \in Credentials \ Broken : c \in ToSet(overdue) ~> (c \notin ToSet(overdue) \/ c \notin active)

\* Old keys are replaced, and each version of a key by one rotation only.
OverdueRotatedOnce == [][SuccessIsOwn']_vars /\ OverdueRotated

\* A failure in the log is of a credential that kept its version.
FailedIsUnchanged ==
    [][\A a \in log' \ log : a.status = "failed" => version[a.credential] = a.old]_vars

=============================================================================
