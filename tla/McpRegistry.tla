---------------------------- MODULE McpRegistry ----------------------------
(***************************************************************************)
(* The registry of MCP servers (mcp/registry.rs): a map of servers and an  *)
(* index of their names, each behind an RwLock of tokio, which serves its  *)
(* queue in order. The API registers, refreshes and removes servers        *)
(* (api/mcp_handlers.rs) and keeps them in the table mcp_servers, from     *)
(* which a restart restores them; the proxy puts their tools into requests *)
(* and calls them for the model (middleware/mcp.rs). A handler is dropped  *)
(* where it waits when its client goes, and its locks are let go.          *)
(***************************************************************************)
EXTENDS Naturals, Sequences, SequencesExt, TLAPS

CONSTANTS
    Servers,     \* ids
    Names,
    name,        \* of each server; the index has them of all projects
    project,     \* of each server
    Tasks,       \* handlers, each of them once
    Workloads,   \* what the tasks may be: [Tasks -> Jobs]
    MaxRestarts, \* bound
    None

\* A task is an operation of the API on a server, or of the proxy on the name
\* that this server has, for the server's project.
Jobs == [kind : {"register", "delete", "refresh", "inject", "execute"}, server : Servers]

Locks == {"servers", "index"}

VARIABLES
    servers,  \* the status of each server in the map, or None
    index,    \* the id of each name, or None
    rows,     \* the table mcp_servers
    held,     \* the tasks that hold each lock
    queue,    \* those that wait for it
    job,      \* what each task does
    pc,
    found,    \* the id that a call has found in the index
    restarts

vars == <<servers, index, rows, held, queue, job, pc, found, restarts>>

Init ==
    /\ \E present \in SUBSET Servers :
          /\ servers = [s \in Servers |-> IF s \in present THEN "Connected" ELSE None]
          /\ rows = present
          /\ index \in [Names -> present \cup {None}]
          /\ \A n \in Names :
                IF index[n] = None THEN \A s \in present : name[s] # n ELSE name[index[n]] = n
    /\ held = [l \in Locks |-> {}]
    /\ queue = [l \in Locks |-> <<>>]
    /\ job \in Workloads
    /\ \A t \in Tasks : job[t].kind = "register" => job[t].server \notin rows
    /\ pc = [t \in Tasks |-> "start"]
    /\ found = [t \in Tasks |-> None]
    /\ restarts = 0

-----------------------------------------------------------------------------
\* The locks

Does(t, kind) == job[t].kind = kind

Target(t) == job[t].server

Reads(t) == Does(t, "inject") \/ Does(t, "execute")

At(t, stage) == pc[t] = stage

Go(t, stage) == pc' = [pc EXCEPT ![t] = stage]

\* t is the first to wait for l and l is free for it.
Granted(t, l) ==
    /\ At(t, l)
    /\ Head(queue[l]) = t
    /\ \A h \in held[l] : Reads(t) /\ Reads(h)

\* Wait for a lock.
Wait(t, l) ==
    /\ Go(t, l)
    /\ queue' = [queue EXCEPT ![l] = Append(@, t)]

Leave(t, l) == queue' = [queue EXCEPT ![l] = Tail(@)]

\* From one lock to the next.
Pass(t, l, m) ==
    /\ Go(t, m)
    /\ queue' = [queue EXCEPT ![l] = Tail(@), ![m] = Append(@, t)]

Hold(t, l) == held' = [held EXCEPT ![l] = @ \cup {t}]

LetGo(t) == held' = [l \in Locks |-> held[l] \ {t}]

\* In the map and the index nothing changes.
Registry == <<servers, index>>

-----------------------------------------------------------------------------
\* register_with_client, behind register_mcp_server: the handshake goes over
\* the network; each map is locked for one insertion.
Handshake(t) ==
    /\ At(t, "start")
    /\ Does(t, "register")
    /\ \/ Wait(t, "servers")
       \/ Go(t, "over") /\ UNCHANGED queue
    /\ UNCHANGED <<Registry, rows, held, job, found, restarts>>

\* Mutant: the map stays locked while the index is waited for.
AddServer_Holding(t) ==
    /\ Does(t, "register")
    /\ Granted(t, "servers")
    /\ servers' = [servers EXCEPT ![Target(t)] = "Connected"]
    /\ Hold(t, "servers")
    /\ Pass(t, "servers", "index")
    /\ UNCHANGED <<index, rows, job, found, restarts>>

AddServer(t) ==
    /\ Does(t, "register")
    /\ Granted(t, "servers")
    /\ servers' = [servers EXCEPT ![Target(t)] = "Connected"]
    /\ Pass(t, "servers", "index")
    /\ UNCHANGED <<index, rows, held, job, found, restarts>>

AddName(t) ==
    /\ Does(t, "register")
    /\ Granted(t, "index")
    /\ index' = [index EXCEPT ![name[Target(t)]] = Target(t)]
    /\ Leave(t, "index")
    /\ LetGo(t)
    /\ Go(t, "storing")
    /\ UNCHANGED <<servers, rows, job, found, restarts>>

\* An insertion that fails is logged and passed over.
StoreServer(t) ==
    /\ Does(t, "register")
    /\ At(t, "storing")
    /\ rows' \in {rows, rows \cup {Target(t)}}
    /\ Go(t, "over")
    /\ UNCHANGED <<Registry, held, queue, job, found, restarts>>

-----------------------------------------------------------------------------
\* delete_mcp_server and refresh_mcp_server look at the table first.
Verify(t) ==
    /\ At(t, "start")
    /\ Does(t, "delete") \/ Does(t, "refresh")
    /\ \/ Target(t) \in rows /\ Wait(t, "servers")
       \/ Go(t, "over") /\ UNCHANGED queue
    /\ UNCHANGED <<Registry, rows, held, job, found, restarts>>

\* unregister keeps the map locked until the index is done.
RemoveServer(t) ==
    /\ Does(t, "delete")
    /\ Granted(t, "servers")
    /\ IF servers[Target(t)] = None
       THEN Leave(t, "servers") /\ Go(t, "storing") /\ UNCHANGED <<servers, held>>
       ELSE /\ servers' = [servers EXCEPT ![Target(t)] = None]
            /\ Hold(t, "servers")
            /\ Pass(t, "servers", "index")
    /\ UNCHANGED <<index, rows, job, found, restarts>>

\* The name goes, whichever server it stands for.
RemoveName(t) ==
    /\ Does(t, "delete")
    /\ Granted(t, "index")
    /\ index' = [index EXCEPT ![name[Target(t)]] = None]
    /\ Leave(t, "index")
    /\ LetGo(t)
    /\ Go(t, "storing")
    /\ UNCHANGED <<servers, rows, job, found, restarts>>

DeleteRow(t) ==
    /\ Does(t, "delete")
    /\ At(t, "storing")
    /\ rows' \in {rows, rows \ {Target(t)}}
    /\ Go(t, "over")
    /\ UNCHANGED <<Registry, held, queue, job, found, restarts>>

\* refresh asks the server for its tools under the lock of the map.
AskTools(t) ==
    /\ Does(t, "refresh")
    /\ Granted(t, "servers")
    /\ Leave(t, "servers")
    /\ IF servers[Target(t)] = None
       THEN Go(t, "over") /\ UNCHANGED held
       ELSE Go(t, "network") /\ Hold(t, "servers")
    /\ UNCHANGED <<Registry, rows, job, found, restarts>>

\* What is cached in the table after that is not modelled.
TakeTools(t) ==
    /\ Does(t, "refresh")
    /\ At(t, "network")
    /\ \E status \in {"Connected", "Error"} : servers' = [servers EXCEPT ![Target(t)] = status]
    /\ LetGo(t)
    /\ Go(t, "over")
    /\ UNCHANGED <<index, rows, queue, job, found, restarts>>

-----------------------------------------------------------------------------
\* get_openai_tools_by_name and execute_tool begin with the index.
AskIndex(t) ==
    /\ At(t, "start")
    /\ Reads(t)
    /\ Wait(t, "index")
    /\ UNCHANGED <<Registry, rows, held, job, found, restarts>>

\* The index stays locked until the tools have been read.
FindTools(t) ==
    /\ Does(t, "inject")
    /\ Granted(t, "index")
    /\ Hold(t, "index")
    /\ Pass(t, "index", "servers")
    /\ UNCHANGED <<Registry, rows, job, found, restarts>>

\* get_openai_tools. What it returns is put into the request.
ReadTools(t) ==
    /\ Does(t, "inject")
    /\ Granted(t, "servers")
    /\ Leave(t, "servers")
    /\ LetGo(t)
    /\ Go(t, "over")
    /\ UNCHANGED <<Registry, rows, job, found, restarts>>

\* The index is not locked any more when the map is waited for.
FindServer(t) ==
    /\ Does(t, "execute")
    /\ Granted(t, "index")
    /\ found' = [found EXCEPT ![t] = index[name[Target(t)]]]
    /\ IF found'[t] = None THEN Leave(t, "index") /\ Go(t, "over")
       ELSE Pass(t, "index", "servers")
    /\ UNCHANGED <<Registry, rows, held, job, restarts>>

Callable(t) ==
    /\ project[found[t]] = project[Target(t)]
    /\ servers[found[t]] = "Connected"

\* Mutant: the lock is let go before the server is called.
CallTool_Unlocked(t) ==
    /\ Does(t, "execute")
    /\ Granted(t, "servers")
    /\ Leave(t, "servers")
    /\ Go(t, IF Callable(t) THEN "network" ELSE "over")
    /\ UNCHANGED <<Registry, rows, held, job, found, restarts>>

\* The tool is called under the lock of the map.
CallTool(t) ==
    /\ Does(t, "execute")
    /\ Granted(t, "servers")
    /\ Leave(t, "servers")
    /\ IF Callable(t)
       THEN Go(t, "network") /\ Hold(t, "servers")
       ELSE Go(t, "over") /\ UNCHANGED held
    /\ UNCHANGED <<Registry, rows, job, found, restarts>>

ToolAnswers(t) ==
    /\ Does(t, "execute")
    /\ At(t, "network")
    /\ LetGo(t)
    /\ Go(t, "over")
    /\ UNCHANGED <<Registry, rows, queue, job, found, restarts>>

-----------------------------------------------------------------------------
\* The client of t goes, and t is dropped where it is.
Drop(t) ==
    /\ pc[t] \notin {"start", "over"}
    /\ Go(t, "over")
    /\ LetGo(t)
    /\ queue' = [l \in Locks |-> Remove(queue[l], t)]
    /\ UNCHANGED <<Registry, rows, job, found, restarts>>

\* The process starts anew: the map and the index are those of the table, in
\* the order of its rows, with every server "Disconnected".
Restart ==
    /\ restarts < MaxRestarts
    /\ restarts' = restarts + 1
    /\ servers' = [s \in Servers |-> IF s \in rows THEN "Disconnected" ELSE None]
    /\ index' \in [Names -> rows \cup {None}]
    /\ \A n \in Names :
          IF index'[n] = None THEN \A s \in rows : name[s] # n ELSE name[index'[n]] = n
    /\ held' = [l \in Locks |-> {}]
    /\ queue' = [l \in Locks |-> <<>>]
    /\ pc' = [t \in Tasks |-> IF At(t, "start") THEN "start" ELSE "over"]
    /\ UNCHANGED <<rows, job, found>>

Step(t) ==
    \/ Handshake(t) \/ AddServer(t) \/ AddName(t) \/ StoreServer(t)
    \/ Verify(t) \/ RemoveServer(t) \/ RemoveName(t) \/ DeleteRow(t)
    \/ AskTools(t) \/ TakeTools(t)
    \/ AskIndex(t) \/ FindTools(t) \/ ReadTools(t)
    \/ FindServer(t) \/ CallTool(t) \/ ToolAnswers(t)

Next == (\E t \in Tasks : Step(t) \/ Drop(t)) \/ Restart

\* Tasks are scheduled, and a call over the network ends by its timeout of
\* 30 s. That a client goes is not relied on.
Spec == Init /\ [][Next]_vars /\ \A t \in Tasks : WF_vars(Step(t))

-----------------------------------------------------------------------------
TypeOK ==
    /\ servers \in [Servers -> {"Connected", "Disconnected", "Error", None}]
    /\ index \in [Names -> Servers \cup {None}]
    /\ rows \subseteq Servers
    /\ held \in [Locks -> SUBSET Tasks]
    /\ \A l \in Locks : ToSet(queue[l]) = {t \in Tasks : At(t, l)}

\* While a tool is called, its server is registered, connected and of the
\* caller's project: the id comes from an index of all projects that has been
\* unlocked since, and a removal may run at any time.
CallsOwnServer == \A t \in Tasks : Does(t, "execute") /\ At(t, "network") => Callable(t)

\* A removal that holds the map and waits for the index, and a request that
\* holds the index and waits for the map.
Crossed ==
    \E t, u \in Tasks :
        /\ Does(t, "delete") /\ At(t, "index")
        /\ Does(u, "inject") /\ At(u, "servers")

\* Again and again no task is under way, so none waits for ever, unless a
\* removal and a request have crossed: the locks are held over the network and
\* over each other, in two orders, by five operations.
HangsOnlyCrossed == []<>(Crossed \/ \A t \in Tasks : At(t, "start") \/ At(t, "over"))

\* The same without the exception, which does not hold.
TasksFinish == []<>(\A t \in Tasks : At(t, "start") \/ At(t, "over"))

\* registry.rs:552: "The server will be lazily reconnected on the first tool
\* call".
ReconnectsOnCall ==
    [][\A t \in Tasks :
          CallTool(t) /\ project[found[t]] = project[Target(t)] /\ servers[found[t]] = "Disconnected"
              => At(t, "network")']_vars

-----------------------------------------------------------------------------
\* Proof that a tool is called on the caller's own server, for any servers,
\* names, projects and tasks.

\* Who is on the network holds the map, and who holds the map to change it is
\* alone with it.
MapInv ==
    /\ pc = [t \in Tasks |-> pc[t]]
    /\ found = [t \in Tasks |-> found[t]]
    /\ held = [l \in Locks |-> held[l]]
    /\ \A t \in Tasks : At(t, "network") => t \in held["servers"]
    /\ \A t, u \in held["servers"] : t = u \/ (Reads(t) /\ Reads(u))
    /\ CallsOwnServer

\* A step of t that changes nothing that a call of another task rests on.
Moves(t) ==
    /\ job' = job
    /\ pc' = [pc EXCEPT ![t] = pc'[t]]
    /\ found' = [found EXCEPT ![t] = found'[t]]
    /\ \/ held' = held
       \/ held' = [l \in Locks |-> held[l] \ {t}]
       \/ held' = [held EXCEPT !["index"] = @ \cup {t}]

\* One that is not on the network afterwards keeps the invariant, if it leaves
\* the map alone or nobody else is on the network.
LEMMA MovesKeep ==
  ASSUME MapInv, NEW t \in Tasks, Moves(t), pc'[t] # "network",
         servers' = servers \/ \A u \in Tasks \ {t} : ~At(u, "network")
  PROVE  MapInv'
<1>1. /\ \A l \in Locks : held'[l] \subseteq held[l] \cup {t}
      /\ \A l \in Locks : held[l] \subseteq held'[l] \cup {t}
      /\ held'["servers"] \subseteq held["servers"]
      /\ held' = [l \in Locks |-> held'[l]]
  BY DEF MapInv, Moves, Locks
<1>2. /\ pc' = [u \in Tasks |-> pc'[u]] /\ found' = [u \in Tasks |-> found'[u]]
      /\ \A u \in Tasks \ {t} : pc'[u] = pc[u] /\ found'[u] = found[u]
  BY DEF MapInv, Moves
<1>3. ASSUME NEW u \in Tasks, At(u, "network")' PROVE u \in held'["servers"]
  BY <1>1, <1>2, <1>3 DEF MapInv, At, Locks
<1>4. ASSUME NEW u \in held'["servers"], NEW v \in held'["servers"]
      PROVE  u = v \/ (Reads(u)' /\ Reads(v)')
  BY <1>1 DEF MapInv, Moves, Reads, Does
<1>5. ASSUME NEW u \in Tasks, Does(u, "execute")', At(u, "network")' PROVE Callable(u)'
  <2>1. u # t /\ At(u, "network") /\ found'[u] = found[u]
    BY <1>2, <1>5 DEF At
  <2>2. servers' = servers
    BY <2>1
  <2>3. Callable(u)
    BY <1>5, <2>1 DEF MapInv, CallsOwnServer, Moves, Does
  <2>. QED
    BY <2>1, <2>2, <2>3 DEF Callable, Target, Moves
<1>. QED
  BY <1>1, <1>2, <1>3, <1>4, <1>5 DEF MapInv, CallsOwnServer

\* To be granted the map for a change is to be alone with it.
LEMMA GrantedAlone ==
  ASSUME MapInv, NEW t \in Tasks, ~Reads(t), Granted(t, "servers")
  PROVE  held["servers"] = {} /\ \A u \in Tasks : ~At(u, "network")
BY DEF MapInv, Granted

\* So is to hold it for one.
LEMMA HolderAlone ==
  ASSUME MapInv, NEW t \in Tasks, ~Reads(t), t \in held["servers"]
  PROVE  \A u \in Tasks \ {t} : ~At(u, "network")
BY DEF MapInv

\* A step of t that goes on with the map, alone or among readers.
LEMMA HoldKeeps ==
  ASSUME MapInv, NEW t \in Tasks, job' = job, found' = found, Hold(t, "servers"), Granted(t, "servers"),
         NEW stage, Go(t, stage),
         servers' = servers \/ ~Reads(t),
         stage = "network" /\ Does(t, "execute") => Callable(t)'
  PROVE  MapInv'
<1>1. /\ held' = [l \in Locks |-> held'[l]]
      /\ held'["servers"] = held["servers"] \cup {t}
  BY DEF MapInv, Hold, Locks
<1>2. /\ pc' = [u \in Tasks |-> pc'[u]] /\ found' = [u \in Tasks |-> found'[u]]
      /\ pc'[t] = stage
      /\ \A u \in Tasks \ {t} : pc'[u] = pc[u]
  BY DEF MapInv, Go
<1>3. ASSUME NEW u \in Tasks, At(u, "network")' PROVE u \in held'["servers"]
  BY <1>1, <1>2, <1>3 DEF MapInv, At
<1>4. ASSUME NEW u \in held'["servers"], NEW v \in held'["servers"]
      PROVE  u = v \/ (Reads(u)' /\ Reads(v)')
  <2>1. \A w \in Tasks : Reads(w)' <=> Reads(w)
    BY DEF Reads, Does
  <2>2. \A h \in held["servers"] : Reads(t) /\ Reads(h)
    BY DEF Granted
  <2>. QED
    BY <1>1, <2>2 DEF MapInv, Reads, Does
<1>5. ASSUME NEW u \in Tasks, Does(u, "execute")', At(u, "network")' PROVE Callable(u)'
  <2>1. CASE u = t
    BY <1>2, <1>5, <2>1 DEF At, Does
  <2>2. CASE u # t
    <3>1. At(u, "network")
      BY <1>2, <1>5, <2>2 DEF At
    <3>2. servers' = servers
      BY <3>1, GrantedAlone
    <3>3. Callable(u)
      BY <1>5, <3>1 DEF MapInv, CallsOwnServer, Does
    <3>. QED
      BY <3>2, <3>3 DEF Callable, Target
  <2>. QED
    BY <2>1, <2>2
<1>. QED
  BY <1>1, <1>2, <1>3, <1>4, <1>5 DEF MapInv, CallsOwnServer

\* Registration, removal and the refresh of tools.
LEMMA AdminKeeps ==
  ASSUME MapInv, NEW t \in Tasks,
         \/ Handshake(t) \/ AddServer(t) \/ AddName(t) \/ StoreServer(t)
         \/ Verify(t) \/ RemoveServer(t) \/ RemoveName(t) \/ DeleteRow(t)
         \/ AskTools(t) \/ TakeTools(t)
  PROVE  MapInv'
<1>0. pc \in [Tasks -> {pc[u] : u \in Tasks}] /\ found \in [Tasks -> {found[u] : u \in Tasks}]
  BY DEF MapInv
<1>. USE DEF Go, Wait, Leave, Pass, LetGo, Registry
<1>1. CASE Handshake(t)
  BY <1>0, <1>1, MovesKeep DEF Handshake, Moves
<1>2. CASE AddServer(t)
  <2>1. ~Reads(t)
    BY <1>2 DEF AddServer, Reads, Does
  <2>2. Moves(t) /\ pc'[t] # "network"
    BY <1>0, <1>2 DEF AddServer, Moves
  <2>. QED
    BY <1>2, <2>1, <2>2, MovesKeep, GrantedAlone DEF AddServer
<1>3. CASE AddName(t) \/ StoreServer(t) \/ RemoveName(t) \/ DeleteRow(t)
  BY <1>0, <1>3, MovesKeep DEF AddName, StoreServer, RemoveName, DeleteRow, Moves
<1>4. CASE Verify(t)
  BY <1>0, <1>4, MovesKeep DEF Verify, Moves
<1>5. CASE RemoveServer(t)
  <2>1. ~Reads(t) /\ Granted(t, "servers") /\ job' = job /\ found' = found
    BY <1>5 DEF RemoveServer, Reads, Does
  <2>2. CASE servers[Target(t)] = None
    BY <1>0, <1>5, <2>2, MovesKeep DEF RemoveServer, Moves
  <2>3. CASE servers[Target(t)] # None
    <3>1. Hold(t, "servers") /\ Go(t, "index")
      BY <1>5, <2>3 DEF RemoveServer
    <3>. QED
      BY <2>1, <3>1, HoldKeeps
  <2>. QED
    BY <2>2, <2>3
<1>6. CASE AskTools(t)
  <2>1. ~Does(t, "execute") /\ Granted(t, "servers") /\ job' = job /\ found' = found /\ servers' = servers
    BY <1>6 DEF AskTools, Does
  <2>2. CASE servers[Target(t)] = None
    BY <1>0, <1>6, <2>2, MovesKeep DEF AskTools, Moves
  <2>3. CASE servers[Target(t)] # None
    <3>1. Hold(t, "servers") /\ Go(t, "network")
      BY <1>6, <2>3 DEF AskTools
    <3>. QED
      BY <2>1, <3>1, HoldKeeps
  <2>. QED
    BY <2>2, <2>3
<1>7. CASE TakeTools(t)
  <2>1. ~Reads(t) /\ t \in held["servers"]
    BY <1>7 DEF TakeTools, Reads, Does, MapInv
  <2>2. Moves(t) /\ pc'[t] # "network"
    BY <1>0, <1>7 DEF TakeTools, Moves
  <2>. QED
    BY <2>1, <2>2, MovesKeep, HolderAlone
<1>. QED
  BY <1>1, <1>2, <1>3, <1>4, <1>5, <1>6, <1>7

\* The tools of a request, the call of one, and a client that goes.
LEMMA ProxyKeeps ==
  ASSUME MapInv, NEW t \in Tasks,
         \/ AskIndex(t) \/ FindTools(t) \/ ReadTools(t)
         \/ FindServer(t) \/ CallTool(t) \/ ToolAnswers(t) \/ Drop(t)
  PROVE  MapInv'
<1>0. pc \in [Tasks -> {pc[u] : u \in Tasks}] /\ found \in [Tasks -> {found[u] : u \in Tasks}]
  BY DEF MapInv
<1>. USE DEF Go, Wait, Leave, Pass, LetGo, Registry
<1>1. CASE AskIndex(t)
  BY <1>0, <1>1, MovesKeep DEF AskIndex, Moves
<1>2. CASE FindTools(t)
  BY <1>0, <1>2, MovesKeep DEF FindTools, Moves, Hold
<1>3. CASE ReadTools(t) \/ ToolAnswers(t) \/ Drop(t)
  BY <1>0, <1>3, MovesKeep DEF ReadTools, ToolAnswers, Drop, Moves
<1>4. CASE FindServer(t)
  BY <1>0, <1>4, MovesKeep DEF FindServer, Moves
<1>5. CASE CallTool(t)
  <2>1. Granted(t, "servers") /\ job' = job /\ found' = found /\ servers' = servers
    BY <1>5 DEF CallTool
  <2>2. CASE Callable(t)
    <3>1. Hold(t, "servers") /\ Go(t, "network")
      BY <1>5, <2>2 DEF CallTool
    <3>2. Callable(t)'
      BY <2>1, <2>2 DEF Callable, Target
    <3>. QED
      BY <2>1, <3>1, <3>2, HoldKeeps
  <2>3. CASE ~Callable(t)
    BY <1>0, <1>5, <2>3, MovesKeep DEF CallTool, Moves
  <2>. QED
    BY <2>2, <2>3
<1>. QED
  BY <1>1, <1>2, <1>3, <1>4, <1>5

\* The invariant holds throughout, restarts included.
LEMMA MapInvariant == Spec => []MapInv
<1>1. Init => MapInv
  BY DEF Init, MapInv, CallsOwnServer, At, Locks
<1>2. MapInv /\ [Next]_vars => MapInv'
  <2>1. ASSUME MapInv, Restart PROVE MapInv'
    BY <2>1 DEF Restart, MapInv, CallsOwnServer, At, Locks
  <2>2. ASSUME MapInv, UNCHANGED vars PROVE MapInv'
    BY <2>2 DEF vars, MapInv, CallsOwnServer, Callable, Target, Does, At, Reads
  <2>. QED
    BY <2>1, <2>2, AdminKeeps, ProxyKeeps DEF Next, Step
<1>. QED
  BY <1>1, <1>2, PTL DEF Spec

\* While a model's tool is called, whoever registers, refreshes or removes
\* servers meanwhile, the server is the caller's and is connected.
THEOREM CallsStayOwn == Spec => []CallsOwnServer
<1>1. MapInv => CallsOwnServer
  BY DEF MapInv
<1>. QED
  BY <1>1, MapInvariant, PTL

=============================================================================
