------------------------------ MODULE McpTools ------------------------------
(***************************************************************************)
(* The tools of one MCP server: as its provider offers them, as the        *)
(* registry in memory has them (mcp/registry.rs), and as the table         *)
(* mcp_server_tools keeps them for listings and for the next start         *)
(* (store/postgres/mcp.rs). Handlers of api/mcp_handlers.rs register,      *)
(* refresh, list and delete; the table is written tool by tool, in no      *)
(* transaction, after the registry. How the registry's locks are waited    *)
(* for is left to McpRegistry: here what happens under one is one step.    *)
(***************************************************************************)
EXTENDS Naturals

CONSTANTS
    Tasks,       \* handlers, each of them once
    Workloads,   \* what the tasks may be: [Tasks -> Jobs]
    Offers,      \* what the provider may offer: functions from names to schemas
    MaxChanges,  \* bound: how often it changes that
    MaxRestarts, \* bound
    None

\* An offer is a function.
OffersAssumption == \A o \in Offers : o = [n \in DOMAIN o |-> o[n]]

\* "with": whether the request brings a key or OAuth credentials.
Jobs == [kind : {"register", "discover", "refresh", "list", "delete"}, with : BOOLEAN]

VARIABLES
    demands,  \* what the provider asks of its callers
    offered,
    changes,
    memory,   \* the server in the registry, or None
    grant,    \* the token manager has a token for it
    row,      \* its row of mcp_servers, or None
    table,    \* its rows of mcp_server_tools
    job,
    pc,
    taken,    \* the tools that a task got from the provider
    left,     \* names of those it has still to write
    answer,   \* what a listing answers
    hindered, \* a writing was dropped, failed, or met another
    restarts

vars == <<demands, offered, changes, memory, grant, row, table, job, pc, taken, left, answer,
          hindered, restarts>>

NoTools == <<>>

Init ==
    /\ demands \in {"nothing", "key", "oauth"}
    /\ offered \in Offers
    /\ changes = 0
    /\ job \in Workloads
    /\ pc = [t \in Tasks |-> "start"]
    /\ taken = [t \in Tasks |-> NoTools]
    /\ left = [t \in Tasks |-> {}]
    /\ answer = [t \in Tasks |-> None]
    /\ hindered = FALSE
    /\ restarts = 0
    /\ IF \E t \in Tasks : job[t].kind \in {"register", "discover"}
       THEN memory = None /\ row = None /\ table = NoTools /\ grant = FALSE
       ELSE /\ memory = [tools |-> offered, status |-> "Connected",
                         auth |-> CASE demands = "nothing" -> "none"
                                    [] demands = "key"     -> "bearer"
                                    [] demands = "oauth"   -> "oauth2"]
            /\ row = [client |-> demands = "oauth", status |-> "Connected"]
            /\ table = offered
            /\ grant = (demands = "oauth")

-----------------------------------------------------------------------------
Does(t, kind) == job[t].kind = kind

At(t, stage) == pc[t] = stage

Go(t, stage) == pc' = [pc EXCEPT ![t] = stage]

\* t has changed the registry and not yet finished with the table.
Writing(t) == pc[t] \in {"row", "clear", "write"}

\* The provider accepts what a client sends: nothing, a key, or the token of
\* the manager, without which it sends nothing at all.
Accepts(auth) ==
    CASE demands = "nothing" -> auth # "oauth2" \/ grant
      [] demands = "key"     -> auth = "bearer"
      [] demands = "oauth"   -> auth = "oauth2" /\ grant

\* t gets the tools and puts them into the registry.
Take(t, auth) ==
    /\ memory' = [tools |-> offered, status |-> "Connected", auth |-> auth]
    /\ taken' = [taken EXCEPT ![t] = offered]
    /\ hindered' = (hindered \/ \E u \in Tasks \ {t} : Writing(u))

\* A key is for a manual registration; what it leads to is "bearer".
Register(t) ==
    /\ At(t, "start")
    /\ Does(t, "register")
    /\ \/ LET auth == IF job[t].with THEN "bearer" ELSE "none"
          IN  Accepts(auth) /\ Take(t, auth) /\ Go(t, "row")
       \/ Go(t, "over") /\ UNCHANGED <<memory, taken, hindered>>
    /\ UNCHANGED <<demands, offered, changes, grant, row, table, job, left, answer, restarts>>

\* register_with_discovery asks whether OAuth is required. If so it takes a
\* token and stores it, before it knows whether the server can be used.
Discover(t) ==
    /\ At(t, "start")
    /\ Does(t, "discover")
    /\ \/ demands = "oauth" /\ job[t].with /\ grant' = TRUE /\ Go(t, "oauth2")
       \/ Go(t, "none") /\ UNCHANGED grant
       \/ Go(t, "over") /\ UNCHANGED grant
    /\ UNCHANGED <<demands, offered, changes, memory, row, table, job, taken, left, answer,
                   hindered, restarts>>

Connect(t) ==
    /\ pc[t] \in {"oauth2", "none"}
    /\ \/ Accepts(pc[t]) /\ Take(t, pc[t]) /\ Go(t, "row")
       \/ Go(t, "over") /\ UNCHANGED <<memory, taken, hindered>>
    /\ UNCHANGED <<demands, offered, changes, grant, row, table, job, left, answer, restarts>>

\* A row has the credentials of an OAuth client that was discovered, of which the
\* secret is never read back, and neither a key nor a token.
NewRow(t) == [client |-> Does(t, "discover") /\ job[t].with, status |-> "Connected"]

\* A failure is logged.
InsertRow(t) ==
    /\ At(t, "row")
    /\ row' \in {None, NewRow(t)}
    /\ Go(t, "clear")
    /\ UNCHANGED <<demands, offered, changes, memory, grant, table, job, taken, left, answer,
                   hindered, restarts>>

-----------------------------------------------------------------------------
\* cache_mcp_tools, one statement at a time; an error ends it and is logged.

\* What a writing goes on with.
After(t) == IF Does(t, "refresh") THEN "status" ELSE "over"

\* Mutant: the table is written over and not cleared first.
ClearTools_Skipped(t) ==
    /\ At(t, "clear")
    /\ left' = [left EXCEPT ![t] = DOMAIN taken[t]]
    /\ Go(t, IF left'[t] = {} THEN After(t) ELSE "write")
    /\ UNCHANGED <<demands, offered, changes, memory, grant, row, table, job, taken, answer,
                   hindered, restarts>>

ClearTools(t) ==
    /\ At(t, "clear")
    /\ table' = NoTools
    /\ left' = [left EXCEPT ![t] = DOMAIN taken[t]]
    /\ Go(t, IF left'[t] = {} THEN After(t) ELSE "write")
    /\ UNCHANGED <<demands, offered, changes, memory, grant, row, job, taken, answer, hindered,
                   restarts>>

\* A name that is there is written over.
With(tools, n, schema) ==
    [m \in DOMAIN tools \cup {n} |-> IF m = n THEN schema ELSE tools[m]]

\* A tool needs the row of its server.
WriteTool(t) ==
    /\ At(t, "write")
    /\ row # None
    /\ \E n \in left[t] :
          /\ table' = With(table, n, taken[t][n])
          /\ left' = [left EXCEPT ![t] = @ \ {n}]
    /\ Go(t, IF left'[t] = {} THEN After(t) ELSE "write")
    /\ UNCHANGED <<demands, offered, changes, memory, grant, row, job, taken, answer, hindered,
                   restarts>>

\* The database fails, or there is no row.
WritingFails(t) ==
    /\ pc[t] \in {"clear", "write"}
    /\ Go(t, After(t))
    /\ hindered' = TRUE
    /\ UNCHANGED <<demands, offered, changes, memory, grant, row, table, job, taken, left, answer,
                   restarts>>

\* update_mcp_server_status; its result is not looked at.
UpdateStatus(t) ==
    /\ At(t, "status")
    /\ row' = IF row = None THEN None ELSE [row EXCEPT !.status = "Connected"]
    /\ Go(t, "over")
    /\ UNCHANGED <<demands, offered, changes, memory, grant, table, job, taken, left, answer,
                   hindered, restarts>>

-----------------------------------------------------------------------------
\* verify_server_access: the other operations need the row.
Check(t) ==
    /\ At(t, "start")
    /\ job[t].kind \in {"refresh", "list", "delete"}
    /\ \/ row # None /\ Go(t, job[t].kind)
       \/ Go(t, "over")
    /\ UNCHANGED <<demands, offered, changes, memory, grant, row, table, job, taken, left, answer,
                   hindered, restarts>>

\* McpRegistry::refresh. That it failed is not written to the table.
Refresh(t) ==
    /\ At(t, "refresh")
    /\ \/ memory # None /\ Accepts(memory.auth) /\ Take(t, memory.auth) /\ Go(t, "clear")
       \/ /\ memory' = IF memory = None THEN None ELSE [memory EXCEPT !.status = "Error"]
          /\ Go(t, "over")
          /\ UNCHANGED <<taken, hindered>>
    /\ UNCHANGED <<demands, offered, changes, grant, row, table, job, left, answer, restarts>>

\* The table is listed, or the registry when there is nothing in the table.
List(t) ==
    /\ At(t, "list")
    /\ \/ /\ table # NoTools
          /\ answer' = [answer EXCEPT ![t] = table]
          /\ Go(t, "over")
       \/ table = NoTools /\ Go(t, "fallback") /\ UNCHANGED answer
    /\ UNCHANGED <<demands, offered, changes, memory, grant, row, table, job, taken, left,
                   hindered, restarts>>

ListMemory(t) ==
    /\ At(t, "fallback")
    /\ answer' = [answer EXCEPT ![t] = IF memory = None THEN None ELSE memory.tools]
    /\ Go(t, "over")
    /\ UNCHANGED <<demands, offered, changes, memory, grant, row, table, job, taken, left,
                   hindered, restarts>>

\* unregister forgets the token of a server that it finds.
Unregister(t) ==
    /\ At(t, "delete")
    /\ memory' = None
    /\ grant' = (grant /\ memory = None)
    /\ Go(t, "deleting")
    /\ UNCHANGED <<demands, offered, changes, row, table, job, taken, left, answer, hindered,
                   restarts>>

\* The tools go with the row (ON DELETE CASCADE).
DeleteRow(t) ==
    /\ At(t, "deleting")
    /\ \/ row' = None /\ table' = NoTools
       \/ UNCHANGED <<row, table>>
    /\ Go(t, "over")
    /\ UNCHANGED <<demands, offered, changes, memory, grant, job, taken, left, answer, hindered,
                   restarts>>

-----------------------------------------------------------------------------
\* The client of t goes.
Drop(t) ==
    /\ pc[t] \notin {"start", "over"}
    /\ Go(t, "over")
    /\ hindered' = (hindered \/ Writing(t))
    /\ UNCHANGED <<demands, offered, changes, memory, grant, row, table, job, taken, left, answer,
                   restarts>>

\* The provider offers other tools.
Change ==
    /\ changes < MaxChanges
    /\ changes' = changes + 1
    /\ offered' \in Offers \ {offered}
    /\ UNCHANGED <<demands, memory, grant, row, table, job, pc, taken, left, answer, hindered,
                   restarts>>

\* register_from_persisted: the client of a row with a client's id uses OAuth,
\* any other nothing, for keys and tokens are not kept.
Persisted(tools) ==
    [tools |-> tools, status |-> "Disconnected", auth |-> IF row.client THEN "oauth2" ELSE "none"]

\* The process starts anew. Tools that cannot be loaded are passed over.
Restart ==
    /\ restarts < MaxRestarts
    /\ restarts' = restarts + 1
    /\ grant' = FALSE
    /\ pc' = [t \in Tasks |-> IF At(t, "start") THEN "start" ELSE "over"]
    /\ memory' \in IF row = None THEN {None} ELSE {Persisted(tools) : tools \in {table, NoTools}}
    /\ hindered' = \/ hindered
                   \/ \E t \in Tasks : Writing(t)
                   \/ memory' # None /\ memory'.tools # table
    /\ UNCHANGED <<demands, offered, changes, row, table, job, taken, left, answer>>

Next ==
    \/ \E t \in Tasks :
          \/ Register(t) \/ Discover(t) \/ Connect(t) \/ InsertRow(t)
          \/ ClearTools(t) \/ WriteTool(t) \/ WritingFails(t) \/ UpdateStatus(t)
          \/ Check(t) \/ Refresh(t) \/ List(t) \/ ListMemory(t) \/ Unregister(t) \/ DeleteRow(t)
          \/ Drop(t)
    \/ Change \/ Restart

Spec == Init /\ [][Next]_vars

-----------------------------------------------------------------------------
\* When no writing is under way, the table has the tools of the registry, and
\* the next start will find what this one offers to models, unless a writing
\* failed, was dropped or met another. The registry is changed under its lock,
\* the table after it, statement by statement.
ToolsKept ==
    memory # None /\ row # None /\ ~hindered /\ (\A t \in Tasks : ~Writing(t))
        => table = memory.tools

\* mcp_handlers.rs:462: "List cached tools for a server": all of them.
ListedWhole == \A t \in Tasks : answer[t] # None => answer[t] \in Offers

\* A server that is restored can be used again (registry.rs:552).
RestoredWorks == [][restarts' # restarts /\ memory' # None => Accepts(memory.auth)']_vars

\* A token is only kept for a server that is registered or being so.
TokensOwned == grant => memory # None \/ \E t \in Tasks : At(t, "oauth2")

=============================================================================
