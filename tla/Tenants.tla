------------------------------- MODULE Tenants -------------------------------
(***************************************************************************)
(* Organizations, their projects and their users: a login that is made     *)
(* known to the gateway (store/postgres/users.rs, sync_user_from_supabase),*)
(* the handlers of projects and users (api/handlers/projects.rs, users.rs).*)
(* Each statement of a handler is a step; none of them is in a             *)
(* transaction. The organization and the user that a login inserts are     *)
(* named by its task.                                                      *)
(***************************************************************************)
EXTENDS Naturals, FiniteSets, Functions

CONSTANTS
    Tasks,     \* handlers, each of them once
    Workloads, \* what the tasks do: [Tasks -> Jobs]
    People,    \* who logs in: an identity and a mail address
    Org,       \* the organization there is at first, with a project of that name
    ProjectOf, \* the project that a task inserts
    Founder,   \* its user, who is one of the people
    MaxFailures, \* bound
    None

VARIABLES
    orgs,     \* organizations
    projects, \* from projects to their organization
    users,    \* from users to [person, org, linked, role, last]
    job,
    pc,
    found,    \* the user that a task has read
    answered, \* from logins to the user they were told, or None
    crossed,  \* deletions before which another project was deleted
    failures

vars == <<orgs, projects, users, job, pc, found, answered, crossed, failures>>

Roles == {"admin", "member", "viewer"}

Projects == {Org} \cup Range(ProjectOf)

Jobs ==
    [do : {"login"}, person : People]
    \cup [do : {"create"}, org : {Org}]
    \cup [do : {"delete"}, project : Projects]
    \cup [do : {"select"}, project : Projects, user : {Founder, None}]
    \cup [do : {"role"}, user : {Founder}, role : Roles]

\* Every insertion gets a fresh name: that of a project is no organization's,
\* that of a user not the founder's.
NamesAssumption ==
    /\ DOMAIN ProjectOf = Tasks /\ IsInjective(ProjectOf)
    /\ Range(ProjectOf) \cap ({Org} \cup Tasks) = {}
    /\ Founder \notin Tasks
    /\ Workloads \subseteq [Tasks -> Jobs]

\* "linked" says whether the row has the identity of the person.
User(person, org, role, linked) ==
    [person |-> person, org |-> org, role |-> role, linked |-> linked, last |-> None]

Init ==
    /\ orgs = {Org}
    /\ projects = [p \in {Org} |-> Org]
    /\ \E linked \in BOOLEAN :
          users = [u \in {Founder} |-> User(Founder, Org, "member", linked)]
    /\ job \in Workloads
    /\ pc = [t \in Tasks |-> job[t].do]
    /\ found = [t \in Tasks |-> None]
    /\ answered = [t \in Tasks |-> None]
    /\ crossed = {}
    /\ failures = 0

-----------------------------------------------------------------------------
Go(t, stage) == pc' = [pc EXCEPT ![t] = stage]

Under(t, stage) == pc[t] = stage

\* A handler ends with an answer about a user.
Answer(t, u) ==
    /\ answered' = [answered EXCEPT ![t] = u]
    /\ Go(t, "over")

\* The statement fails, or the client goes before it is sent.
Fail(t) ==
    /\ pc[t] # "over"
    /\ failures < MaxFailures
    /\ failures' = failures + 1
    /\ Go(t, "over")
    /\ UNCHANGED <<orgs, projects, users, job, found, answered, crossed>>

-----------------------------------------------------------------------------
\* sync_user_from_supabase

\* Users by identity: those whose row has it.
Identified(person) == {u \in DOMAIN users : users[u].person = person /\ users[u].linked}

\* Users by mail address, which is a person's own.
Addressed(person) == {u \in DOMAIN users : users[u].person = person}

\* get_user_by_supabase_id
FindByIdentity(t) ==
    /\ Under(t, "login")
    /\ LET known == Identified(job[t].person)
       IN  \/ /\ known # {}
              /\ found' = [found EXCEPT ![t] = CHOOSE u \in known : TRUE]
              /\ Go(t, "update")
           \/ known = {} /\ Go(t, "byMail") /\ UNCHANGED found
    /\ UNCHANGED <<orgs, projects, users, job, answered, crossed, failures>>

\* get_user_by_email
FindByMail(t) ==
    /\ Under(t, "byMail")
    /\ LET known == Addressed(job[t].person)
       IN  \/ /\ known # {}
              /\ found' = [found EXCEPT ![t] = CHOOSE u \in known : TRUE]
              /\ Go(t, "update")
           \/ known = {} /\ Go(t, "org") /\ UNCHANGED found
    /\ UNCHANGED <<orgs, projects, users, job, answered, crossed, failures>>

\* update_user_login
UpdateLogin(t) ==
    /\ Under(t, "update")
    /\ users' = [users EXCEPT ![found[t]].linked = TRUE]
    /\ Answer(t, found[t])
    /\ UNCHANGED <<orgs, projects, job, found, crossed, failures>>

\* create_organization_for_user
CreateOrg(t) ==
    /\ Under(t, "org")
    /\ orgs' = orgs \cup {t}
    /\ Go(t, "project")
    /\ UNCHANGED <<projects, users, job, found, answered, crossed, failures>>

Inserted(f, key, value) == [k \in DOMAIN f \cup {key} |-> IF k = key THEN value ELSE f[k]]

\* create_project_for_org
CreateFirst(t) ==
    /\ Under(t, "project")
    /\ projects' = Inserted(projects, ProjectOf[t], t)
    /\ Go(t, "user")
    /\ UNCHANGED <<orgs, users, job, found, answered, crossed, failures>>

\* Mutant: the columns of the address and the identity are not unique.
CreateUser_Again(t) ==
    /\ Under(t, "user")
    /\ users' = Inserted(users, t, User(job[t].person, t, "admin", TRUE))
    /\ Go(t, "last")
    /\ UNCHANGED <<orgs, projects, job, found, answered, crossed, failures>>

\* create_user_from_supabase_as_admin: where another login of the person was
\* faster the row is refused, and the organization stays.
CreateUser(t) ==
    /\ Under(t, "user")
    /\ \/ /\ Addressed(job[t].person) = {}
          /\ users' = Inserted(users, t, User(job[t].person, t, "admin", TRUE))
          /\ Go(t, "last")
       \/ Addressed(job[t].person) # {} /\ Go(t, "over") /\ UNCHANGED users
    /\ UNCHANGED <<orgs, projects, job, found, answered, crossed, failures>>

\* update_user_last_project: a project that is gone is refused by its key.
SetFirst(t) ==
    /\ Under(t, "last")
    /\ \/ /\ ProjectOf[t] \in DOMAIN projects
          /\ users' = [users EXCEPT ![t].last = ProjectOf[t]]
          /\ Answer(t, t)
       \/ ProjectOf[t] \notin DOMAIN projects /\ Go(t, "over") /\ UNCHANGED <<users, answered>>
    /\ UNCHANGED <<orgs, projects, job, found, crossed, failures>>

-----------------------------------------------------------------------------
\* The handlers, called with a key of the organization that there was first.

CreateProject(t) ==
    /\ Under(t, "create")
    /\ projects' = Inserted(projects, ProjectOf[t], job[t].org)
    /\ Go(t, "over")
    /\ UNCHANGED <<orgs, users, job, found, answered, crossed, failures>>

Own == {p \in DOMAIN projects : projects[p] = Org}

\* Deleting a project also clears it where it is a user's last.
RemoveProject(t) ==
    /\ projects' = [p \in DOMAIN projects \ {job[t].project} |-> projects[p]]
    /\ users' = [u \in DOMAIN users |->
                    IF users[u].last = job[t].project THEN [users[u] EXCEPT !.last = None]
                    ELSE users[u]]
    /\ crossed' = crossed \cup {d \in Tasks \ {t} : pc[d] = "remove"}

\* Mutant: the projects of the organization are not counted.
CountProjects_Not(t) ==
    /\ Under(t, "delete")
    /\ Go(t, "remove")
    /\ UNCHANGED <<orgs, projects, users, job, found, answered, crossed, failures>>

\* delete_project: "users must always have at least one"
CountProjects(t) ==
    /\ Under(t, "delete")
    /\ Go(t, IF Cardinality(Own) <= 1 THEN "over" ELSE "remove")
    /\ UNCHANGED <<orgs, projects, users, job, found, answered, crossed, failures>>

\* Approvals, services and prompts of the project refuse its deletion, which
\* is a failure; a project of others is not found.
DeleteProject(t) ==
    /\ Under(t, "remove")
    /\ \/ job[t].project \in Own /\ RemoveProject(t)
       \/ job[t].project \notin Own /\ UNCHANGED <<projects, users, crossed>>
    /\ Go(t, "over")
    /\ UNCHANGED <<orgs, job, found, answered, failures>>

\* Mutant: whose the project is does not matter.
Belongs_ToAnyone(t) ==
    /\ Under(t, "select")
    /\ Go(t, IF job[t].project \in DOMAIN projects THEN "who" ELSE "over")
    /\ UNCHANGED <<orgs, projects, users, job, found, answered, crossed, failures>>

\* update_last_project, project_belongs_to_org
Belongs(t) ==
    /\ Under(t, "select")
    /\ Go(t, IF job[t].project \in Own THEN "who" ELSE "over")
    /\ UNCHANGED <<orgs, projects, users, job, found, answered, crossed, failures>>

\* The caller, or with the admin key a user of the organization.
Who(t) ==
    /\ Under(t, "who")
    /\ found' = [found EXCEPT ![t] =
                    IF job[t].user # None THEN job[t].user
                    ELSE CHOOSE u \in DOMAIN users : users[u].org = Org]
    /\ Go(t, "write")
    /\ UNCHANGED <<orgs, projects, users, job, answered, crossed, failures>>

\* update_user_last_project
WriteLast(t) ==
    /\ Under(t, "write")
    /\ users' = IF job[t].project \in DOMAIN projects
                THEN [users EXCEPT ![found[t]].last = job[t].project] ELSE users
    /\ Go(t, "over")
    /\ UNCHANGED <<orgs, projects, job, found, answered, crossed, failures>>

\* update_user_role: the user is read, then written.
ReadUser(t) ==
    /\ Under(t, "role")
    /\ Go(t, IF users[job[t].user].org = Org THEN "change" ELSE "over")
    /\ UNCHANGED <<orgs, projects, users, job, found, answered, crossed, failures>>

ChangeRole(t) ==
    /\ Under(t, "change")
    /\ users' = [users EXCEPT ![job[t].user].role = job[t].role]
    /\ Go(t, "over")
    /\ UNCHANGED <<orgs, projects, job, found, answered, crossed, failures>>

Next ==
    \E t \in Tasks :
        \/ FindByIdentity(t) \/ FindByMail(t) \/ UpdateLogin(t)
        \/ CreateOrg(t) \/ CreateFirst(t) \/ CreateUser(t) \/ SetFirst(t)
        \/ CreateProject(t) \/ CountProjects(t) \/ DeleteProject(t)
        \/ Belongs(t) \/ Who(t) \/ WriteLast(t) \/ ReadUser(t) \/ ChangeRole(t)
        \/ Fail(t)

Spec == Init /\ [][Next]_vars

-----------------------------------------------------------------------------
\* Logins of one person are told the same account, however they overlap and
\* whatever of them fails.
OneAccount ==
    \A t, d \in Tasks :
        /\ answered[t] # None /\ answered[d] # None
        /\ job[t].person = job[d].person
        => answered[t] = answered[d]

\* The last project of a user is one of the user's organization.
LastIsOwn ==
    \A u \in DOMAIN users :
        users[u].last # None =>
            users[u].last \in DOMAIN projects /\ projects[users[u].last] = users[u].org

\* An organization loses its last project only by deletions that overlap.
LastProjectOnlyByRace ==
    [][Own # {} /\ Own' = {} => \E t \in crossed : Under(t, "remove") /\ ~Under(t, "remove")']_vars

\* projects.rs:116: "users must always have at least one" project.
ProjectsStay == \A u \in DOMAIN users : \E p \in DOMAIN projects : projects[p] = users[u].org

\* api/mod.rs:98: "each org has a default project with the same ID as the org"
DefaultProjectExists == \A u \in DOMAIN users : users[u].org \in DOMAIN projects

\* A login that is over leaves an organization only with its user.
NoEmptyOrgs ==
    \A o \in orgs : (o \in Tasks => pc[o] = "over") => \E u \in DOMAIN users : users[u].org = o

=============================================================================
