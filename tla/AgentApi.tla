------------------------------ MODULE AgentApi ------------------------------
(***************************************************************************)
(* agentClient::updateApi: what the backends that collect one agent learn  *)
(* from its /api/swagger.json.  createRessources finds or inserts the      *)
(* names of each path (resource, host, service) and keeps one              *)
(* ressourceClient per path; createTables creates the data tables and adds *)
(* missing columns.  The backends share the tables and nothing else, and   *)
(* each statement is a step of its own.                                    *)
(***************************************************************************)
EXTENDS Integers, Sequences, FiniteSets

CONSTANTS
    Backends,    \* processes that collect the agent
    Names,       \* path -> <<[kind, name], ...>>: its resource, host and service
    Swaggers,    \* documents the agent may serve: [ref, cols], see IsSwagger
    None,        \* no table, no type
    MaxChanges,  \* bound: new documents on the agent
    MaxMishaps   \* bound: ends of a process, failed statements and requests

Kinds == {"ressource", "host", "service"}
Paths == DOMAIN Names

\* ref: the definition each path returns; cols: the columns of each definition
IsSwagger(s) ==
    /\ DOMAIN s.ref \subseteq Paths
    /\ \A p \in DOMAIN s.ref : s.ref[p] \in DOMAIN s.cols

\* The order in which createRessources looks up the names of a path
Order == <<"ressource", "host", "service">>

ASSUME ApiAssumption ==
    /\ {MaxChanges, MaxMishaps} \subseteq Nat
    /\ \A p \in Paths : /\ Len(Names[p]) \in {2, 3}
                        /\ \A i \in 1..Len(Names[p]) : Names[p][i].kind = Order[i]
    /\ \A s \in Swaggers : IsSwagger(s)

Definitions == UNION {DOMAIN s.cols : s \in Swaggers}
Columns     == UNION {UNION {s.cols[d] : d \in DOMAIN s.cols} : s \in Swaggers}

VARIABLES
    agent,    \* the document the agent serves
    names,    \* c$ressources, h$hosts, s$services: [kind, parent, name, type, id]
    links,    \* h$ressources and s$ressources: <<kind of owner, owner, resource>>
    tables,   \* columns of each table d$<definition>, or None
    backend,  \* memory and place of each backend, see Off
    changes, crashes, faults

db     == <<names, links, tables>>
bounds == <<changes, crashes, faults>>
vars   == <<agent, db, backend, bounds>>

Empty == [ref |-> <<>>, cols |-> <<>>]
NoIds == [k \in Kinds |-> 0]

\* api, clients (the vector ressources) and misled (a client without an address)
\* are members; the rest says where the thread is: todo holds the paths or
\* definitions left, path and step the name in hand, ids the ids found so far,
\* table and cols the definition in hand and its columns left.  In a client,
\* fresh tells whether its pointer def points into what api holds now.
Off == [pc |-> "off", api |-> Empty, clients |-> {}, misled |-> FALSE, todo |-> {},
        path |-> None, step |-> 0, ids |-> NoIds, table |-> None, cols |-> {}]

Init ==
    /\ agent \in Swaggers
    /\ names = {} /\ links = {} /\ tables = [d \in Definitions |-> None]
    /\ backend = [b \in Backends |-> Off]
    /\ changes = 0 /\ crashes = 0 /\ faults = 0

Become(b, state) == backend' = [backend EXCEPT ![b] = state]
At(b, p)         == backend[b].pc = p
Works            == UNCHANGED faults
Fault            == crashes + faults < MaxMishaps /\ faults' = faults + 1

(***************************************************************************)
(* The agent, and the life of a process                                    *)
(***************************************************************************)
AgentChanges ==
    /\ changes < MaxChanges /\ changes' = changes + 1
    /\ agent' \in Swaggers \ {agent}
    /\ UNCHANGED <<db, backend, crashes, faults>>

Crash(b) ==
    /\ ~ At(b, "off")
    /\ crashes + faults < MaxMishaps /\ crashes' = crashes + 1
    /\ Become(b, Off)
    /\ UNCHANGED <<agent, db, changes, faults>>

\* init(): when its select fails the client is made all the same, with an empty
\* address, and ready is set, so that nothing repeats the select
Start(b) ==
    /\ At(b, "off")
    /\ \/ Works /\ Become(b, [Off EXCEPT !.pc = "swagger"])
       \/ Fault /\ Become(b, [Off EXCEPT !.pc = "swagger", !.misled = TRUE])
    /\ UNCHANGED <<agent, db, changes, crashes>>

(***************************************************************************)
(* updateApi: the document.  It is parsed into api, where the clients' def *)
(* points, and what was there is destroyed.                                *)
(***************************************************************************)
Parsed(b, s) ==
    [backend[b] EXCEPT !.api = s,
                       !.clients = {[c EXCEPT !.fresh = FALSE] : c \in @}]

\* The next path, or after the last the definitions
Onward(me) ==
    IF me.todo = {}
    THEN [me EXCEPT !.pc = "tables", !.todo = DOMAIN me.api.cols,
                    !.path = None, !.step = 0, !.ids = NoIds]
    ELSE LET p == CHOOSE q \in me.todo : TRUE IN
         [me EXCEPT !.pc = "have", !.path = p, !.step = 1, !.todo = @ \ {p}, !.ids = NoIds]

\* The agent's document; or JSON without paths, the reply of an agent in trouble
Fetch(b) ==
    /\ At(b, "swagger") /\ ~ backend[b].misled
    /\ \E s \in {agent, Empty} :
          /\ IF s = agent THEN Works ELSE Fault
          /\ Become(b, Onward([Parsed(b, s) EXCEPT !.todo = DOMAIN s.ref]))
    /\ UNCHANGED <<agent, db, changes, crashes>>

\* getJSON fails and updateApi returns.  No answer, or an answer that is no JSON,
\* leaves api as it was; JSON that breaks off has overwritten it already.
FetchFails(b) ==
    /\ At(b, "swagger")
    /\ IF backend[b].misled THEN Works ELSE Fault
    /\ \/ Become(b, [backend[b] EXCEPT !.pc = "collect"])
       \/ ~ backend[b].misled /\ Become(b, [Parsed(b, Empty) EXCEPT !.pc = "collect"])
    /\ UNCHANGED <<agent, db, changes, crashes>>

(***************************************************************************)
(* createRessources: one path after the other                              *)
(***************************************************************************)
Name(b) == Names[backend[b].path][backend[b].step]
Ref(b)  == backend[b].api.ref[backend[b].path]

\* Deviation: a table without its unique index
TakenNever(b) == FALSE

\* Names are looked up alone, those of services within their host; the unique
\* index of c$ressources has the data type in it as well
Parent(b)  == IF Name(b).kind = "service" THEN backend[b].ids["host"] ELSE 0
Type(b)    == IF Name(b).kind = "ressource" THEN Ref(b) ELSE None
Matches(b) == {r \in names : r.kind = Name(b).kind /\ r.name = Name(b).name /\ r.parent = Parent(b)}
Taken(b)   == \E r \in Matches(b) : r.type = Type(b)

\* have...(): a failed statement counts as no
Have(b) ==
    /\ At(b, "have")
    /\ \/ Works /\ Become(b, [backend[b] EXCEPT !.pc = IF Matches(b) # {} THEN "ident" ELSE "insert"])
       \/ Fault /\ Become(b, [backend[b] EXCEPT !.pc = "insert"])
    /\ UNCHANGED <<agent, db, changes, crashes>>

\* The insert fails on a name that is there by now, and for a host without id
Row(b) ==
    IF Taken(b) \/ (Name(b).kind = "service" /\ Parent(b) = 0) THEN {}
    ELSE {[kind |-> Name(b).kind, parent |-> Parent(b), name |-> Name(b).name, type |-> Type(b),
           id |-> 1 + Cardinality({r \in names : r.kind = Name(b).kind})]}

Insert(b) ==
    /\ At(b, "insert")
    /\ \/ Works /\ names' = names \cup Row(b)
       \/ Fault /\ UNCHANGED names
    /\ Become(b, [backend[b] EXCEPT !.pc = "ident"])
    /\ UNCHANGED <<agent, links, tables, changes, crashes>>

\* A path whose resource has no id is left after its host was looked up too
Leaves(b, ids) == Name(b).kind = "host" /\ ids["ressource"] = 0

Identified(b, id) ==
    LET ids == [backend[b].ids EXCEPT ![Name(b).kind] = id]
        me  == [backend[b] EXCEPT !.ids = ids]
    IN  IF Leaves(b, ids) THEN Onward(me)
        ELSE IF me.step = Len(Names[me.path]) THEN [me EXCEPT !.pc = "link"]
        ELSE [me EXCEPT !.pc = "have", !.step = @ + 1]

\* get...(): the id of a row, whichever comes first, or 0 after a failed select
Ident(b) ==
    /\ At(b, "ident")
    /\ \/ Works /\ \E r \in Matches(b) : Become(b, Identified(b, r.id))
       \/ Fault /\ Become(b, Identified(b, 0))
    /\ UNCHANGED <<agent, db, changes, crashes>>

\* No row at all: the code reads the first of none, and the process ends
IdentDies(b) ==
    /\ At(b, "ident") /\ Matches(b) = {}
    /\ Become(b, Off)
    /\ UNCHANGED <<agent, db, bounds>>

Owner(b)   == IF Len(Names[backend[b].path]) = 3 THEN "service" ELSE "host"
OwnerId(b) == backend[b].ids[Owner(b)]

\* Deviation: resources of services go under their host
LinkRowHost(b) == <<"host", backend[b].ids["host"], backend[b].ids["ressource"]>>

LinkRow(b) == <<Owner(b), OwnerId(b), backend[b].ids["ressource"]>>

Mine(b) == {c \in backend[b].clients : c.path = backend[b].path}
New(b)  == [path |-> backend[b].path, owner |-> OwnerId(b), resid |-> backend[b].ids["ressource"],
            table |-> Ref(b), cols |-> backend[b].api.cols[Ref(b)], fresh |-> TRUE]

\* Deviation: a client that is there keeps its definition
UpdatedNew(b) == IF Mine(b) = {} THEN {New(b)} ELSE Mine(b)

\* updateDefs on every client of the path, or a new client if there is none
Updated(b) ==
    IF Mine(b) = {} THEN {New(b)}
    ELSE {[c EXCEPT !.cols = New(b).cols, !.fresh = TRUE] : c \in Mine(b)}

\* Insert into h$ressources or s$ressources, where the owner must exist
Link(b) ==
    /\ At(b, "link")
    /\ \/ Works /\ links' = IF OwnerId(b) = 0 THEN links ELSE links \cup {LinkRow(b)}
       \/ Fault /\ UNCHANGED links
    /\ Become(b, Onward([backend[b] EXCEPT !.clients = (@ \ Mine(b)) \cup Updated(b)]))
    /\ UNCHANGED <<agent, names, tables, changes, crashes>>

(***************************************************************************)
(* createTables: one definition and one column after the other             *)
(***************************************************************************)
\* The next column, or the next definition after the last
Columned(me) == [me EXCEPT !.pc = IF me.cols = {} THEN "tables" ELSE "columns"]

HaveTable(b) ==
    /\ At(b, "tables") /\ backend[b].todo # {}
    /\ LET d  == CHOOSE x \in backend[b].todo : TRUE
           me == [backend[b] EXCEPT !.todo = @ \ {d}, !.table = d, !.cols = backend[b].api.cols[d]]
       IN  \/ Works /\ Become(b, IF tables[d] = None THEN [me EXCEPT !.pc = "create"] ELSE Columned(me))
           \/ Fault /\ Become(b, [me EXCEPT !.pc = "create"])
    /\ UNCHANGED <<agent, db, changes, crashes>>

\* A table that is there by now makes the create fail
CreateTable(b) ==
    /\ At(b, "create")
    /\ \/ Works /\ tables' = [tables EXCEPT ![backend[b].table] = IF @ = None THEN backend[b].cols ELSE @]
       \/ Fault /\ UNCHANGED tables
    /\ Become(b, [backend[b] EXCEPT !.pc = "tables", !.cols = {}])
    /\ UNCHANGED <<agent, names, links, changes, crashes>>

\* Deviation: only whether the table is there is looked at
HasColumnAny(b, c) == TRUE

HasColumn(b, c) == c \in tables[backend[b].table]

HaveColumn(b) ==
    /\ At(b, "columns")
    /\ LET c == CHOOSE x \in backend[b].cols : TRUE IN
          \/ /\ Works /\ HasColumn(b, c)
             /\ Become(b, Columned([backend[b] EXCEPT !.cols = @ \ {c}]))
          \/ /\ IF HasColumn(b, c) THEN Fault ELSE Works
             /\ Become(b, [backend[b] EXCEPT !.pc = "alter"])
    /\ UNCHANGED <<agent, db, changes, crashes>>

AddColumn(b) ==
    /\ At(b, "alter")
    /\ LET c == CHOOSE x \in backend[b].cols : TRUE IN
          /\ \/ Works /\ tables' = [tables EXCEPT ![backend[b].table] = @ \cup {c}]
             \/ Fault /\ UNCHANGED tables
          /\ Become(b, Columned([backend[b] EXCEPT !.cols = @ \ {c}]))
    /\ UNCHANGED <<agent, names, links, changes, crashes>>

\* Clients of paths that are gone are erased
Kept(b) == {c \in backend[b].clients : c.path \in DOMAIN backend[b].api.ref}

TablesDone(b) ==
    /\ At(b, "tables") /\ backend[b].todo = {}
    /\ Become(b, [backend[b] EXCEPT !.pc = "collect", !.clients = Kept(b), !.table = None])
    /\ UNCHANGED <<agent, db, bounds>>

\* Six collects, in which every client reads its def and inserts into its table,
\* then updateApi again
Collected(b) ==
    /\ At(b, "collect")
    /\ Become(b, [backend[b] EXCEPT !.pc = "swagger"])
    /\ UNCHANGED <<agent, db, bounds>>

Update(b) ==
    \/ Start(b) \/ Fetch(b) \/ FetchFails(b)
    \/ Have(b) \/ Insert(b) \/ Ident(b) \/ IdentDies(b) \/ Link(b)
    \/ HaveTable(b) \/ CreateTable(b)
    \/ HaveColumn(b) \/ AddColumn(b) \/ TablesDone(b) \/ Collected(b)

Next == AgentChanges \/ \E b \in Backends : Crash(b) \/ Update(b)

Spec == Init /\ [][Next]_vars

\* The thread of an agent never leaves its loop, and systemd restarts a process
FairSpec == Spec /\ \A b \in Backends : WF_vars(Update(b))

(***************************************************************************)
(* Properties                                                              *)
(***************************************************************************)
Clients == [path : Paths, owner : Nat, resid : Nat \ {0}, table : Definitions,
            cols : SUBSET Columns, fresh : BOOLEAN]

\* Types; a client always has a resource id (the continue at resid == 0)
TypeOK ==
    /\ agent \in Swaggers
    /\ \A r \in names : r.kind \in Kinds /\ r.id \in 1..Cardinality(names)
    /\ \A k \in links : k[2] # 0 /\ k[3] # 0
    /\ \A d \in Definitions : tables[d] # None => tables[d] \subseteq Columns
    /\ \A b \in Backends :
          /\ backend[b].api \in Swaggers \cup {Empty}
          /\ backend[b].clients \subseteq Clients
          /\ backend[b].todo \subseteq Paths \cup Definitions

\* When a collect reads the definitions of its resources none of them is in a
\* document that was parsed over, unless a request or a statement failed since
\* (agentClient.cpp:190 parses over them, line 69 renews them path by path), and the
\* resources are those of the document, one client each (lines 73, 196)
DefsAlive ==
    faults = 0 => \A b \in Backends : At(b, "collect") =>
        /\ \A c \in backend[b].clients : c.fresh
        /\ {c.path : c \in backend[b].clients} = DOMAIN backend[b].api.ref
        /\ Cardinality(backend[b].clients) = Cardinality(DOMAIN backend[b].api.ref)

\* The resource of the client is in c$ressources under two data types
TwoTypes(c) ==
    \E r1, r2 \in names : /\ r1.kind = "ressource" /\ r2.kind = "ressource" /\ r1.id = c.resid
                           /\ r1.name = r2.name /\ r1.type # r2.type

\* Backends that found or inserted the names of a path at the same time agree on
\* its ids, or writers of one resource would fill different rows: owners always,
\* resources unless their definition changed and c$ressources has both
SameIds ==
    \A b1, b2 \in Backends : \A c1 \in backend[b1].clients, c2 \in backend[b2].clients :
        c1.path = c2.path =>
            /\ c1.owner = c2.owner \/ 0 \in {c1.owner, c2.owner}
            /\ c1.resid = c2.resid \/ (TwoTypes(c1) /\ TwoTypes(c2))

\* Data of a resource is tied by a foreign key to the row of h$ressources or
\* s$ressources: a client that collects has it, unless a statement failed
Linked ==
    faults = 0 => \A b \in Backends : \A c \in backend[b].clients :
        <<IF Len(Names[c.path]) = 3 THEN "service" ELSE "host", c.owner, c.resid>> \in links

\* What a backend should know of the agent when it collects.  A path that moved
\* to another definition still goes to the old table, a client made with owner 0
\* keeps it, and of two rows of a resource only the one found is ever linked.
Knows(b) ==
    /\ {c.path : c \in backend[b].clients} = DOMAIN agent.ref
    /\ \A c \in backend[b].clients :
          \/ c.owner = 0 \/ c.table # agent.ref[c.path] \/ TwoTypes(c)
          \/ /\ c.fresh /\ c.cols = agent.cols[c.table]
             /\ tables[c.table] # None /\ c.cols \subseteq tables[c.table]
             /\ <<IF Len(Names[c.path]) = 3 THEN "service" ELSE "host", c.owner, c.resid>> \in links

\* Once the agent, the network and the database behave, every backend comes to
\* know the agent and has every column it inserts into, however the updates of
\* several backends with different documents interleaved; but for one whose
\* init() lost its select
Settles == \A b \in Backends : <>[](At(b, "collect") => backend[b].misled \/ Knows(b))
=============================================================================
