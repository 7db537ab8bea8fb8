--------------------------- MODULE AgentApiProofs ---------------------------
(***************************************************************************)
(* Theorems about AgentApi, for any documents, names, backends and bounds: *)
(* type correctness; that backends agree on the ids of a path; that a      *)
(* client that collects is linked; and that its definition is alive.       *)
(***************************************************************************)
EXTENDS AgentApi, FiniteSetTheorems, TLAPS

-----------------------------------------------------------------------------
(***************************************************************************)
(* The memory of a backend: what the place of the thread says of it        *)
(***************************************************************************)
Places == {"off", "swagger", "have", "insert", "ident", "link",
           "tables", "create", "columns", "alter", "collect"}

States == [pc : Places, api : Swaggers \cup {Empty}, clients : SUBSET Clients,
           misled : BOOLEAN, todo : SUBSET (Paths \cup Definitions),
           path : Paths \cup {None}, step : Nat, ids : [Kinds -> Nat],
           table : Definitions \cup {None}, cols : SUBSET Columns]

\* In createRessources the path in hand is one of the document, and a resource
\* without id does not get past its host
Naming(me) ==
    me.pc \in {"have", "insert", "ident", "link"} =>
        /\ me.path \in DOMAIN me.api.ref /\ me.todo \subseteq DOMAIN me.api.ref
        /\ me.step \in 1..Len(Names[me.path])
        /\ me.pc = "link" \/ me.step = 3 => me.ids["ressource"] # 0

\* In createTables the definition in hand is one of the document
Tabling(me) ==
    me.pc \in {"tables", "create", "columns", "alter"} =>
        /\ me.todo \subseteq DOMAIN me.api.cols
        /\ me.pc # "tables" => me.table \in DOMAIN me.api.cols
        /\ me.pc \in {"columns", "alter"} => me.cols # {}

Sound(me) == me \in States /\ Naming(me) /\ Tabling(me)

\* A document without paths is no exception
LEMMA SwaggerFacts ==
    ASSUME NEW s \in Swaggers \cup {Empty}
    PROVE  /\ DOMAIN s.ref \subseteq Paths
           /\ \A p \in DOMAIN s.ref : s.ref[p] \in DOMAIN s.cols
           /\ DOMAIN s.cols \subseteq Definitions
           /\ \A d \in DOMAIN s.cols : s.cols[d] \subseteq Columns
<1>1. CASE s \in Swaggers
  <2>1. IsSwagger(s)
    BY <1>1, ApiAssumption
  <2>2. DOMAIN s.cols \subseteq Definitions /\ \A d \in DOMAIN s.cols : s.cols[d] \subseteq Columns
    BY <1>1 DEF Definitions, Columns
  <2> QED
    BY <2>1, <2>2 DEF IsSwagger
<1>2. CASE s = Empty
  <2>1. DOMAIN s.ref = {} /\ DOMAIN s.cols = {}
    BY <1>2 DEF Empty
  <2> QED
    BY <2>1
<1> QED
  BY <1>1, <1>2

\* A path has a resource and a host, and a service or none
LEMMA PathFacts ==
    ASSUME NEW p \in Paths
    PROVE  /\ Len(Names[p]) \in {2, 3}
           /\ Names[p][1].kind = "ressource" /\ Names[p][2].kind = "host"
           /\ Len(Names[p]) = 3 => Names[p][3].kind = "service"
BY ApiAssumption DEF Order

LEMMA KindFacts == "ressource" \in Kinds /\ "host" \in Kinds /\ "service" \in Kinds
BY DEF Kinds

\* The next path, or the definitions: nothing but the place changes
LEMMA OnwardFacts ==
    ASSUME NEW me \in States, me.todo \subseteq DOMAIN me.api.ref
    PROVE  /\ Sound(Onward(me))
           /\ Onward(me).clients = me.clients /\ Onward(me).api = me.api
           /\ Onward(me).misled = me.misled /\ Onward(me).ids = NoIds
           /\ \/ me.todo = {} /\ Onward(me).pc = "tables"
              \/ /\ Onward(me).pc = "have" /\ Onward(me).step = 1
                 /\ me.todo = Onward(me).todo \cup {Onward(me).path}
<1>1. NoIds \in [Kinds -> Nat]
  BY DEF NoIds
<1>2. me.api \in Swaggers \cup {Empty}
  BY DEF States
<1>3. DOMAIN me.api.ref \subseteq Paths /\ DOMAIN me.api.cols \subseteq Definitions
  BY <1>2, SwaggerFacts
<1>4. CASE me.todo = {}
  <2>1. Onward(me) = [me EXCEPT !.pc = "tables", !.todo = DOMAIN me.api.cols,
                                !.path = None, !.step = 0, !.ids = NoIds]
    BY <1>4 DEF Onward
  <2>2. Onward(me) \in States
    <3>1. DOMAIN me.api.cols \in SUBSET (Paths \cup Definitions) /\ "tables" \in Places /\ 0 \in Nat
      BY <1>3 DEF Places
    <3> QED
      BY <1>1, <2>1, <3>1 DEF States
  <2> QED
    BY <1>4, <2>1, <2>2 DEF Sound, Naming, Tabling, States
<1>5. CASE me.todo # {}
  <2> DEFINE p == CHOOSE q \in me.todo : TRUE
  <2>1. p \in me.todo /\ p \in Paths
    BY <1>3, <1>5
  <2>2. Onward(me) = [me EXCEPT !.pc = "have", !.path = p, !.step = 1, !.todo = @ \ {p}, !.ids = NoIds]
    BY <1>5 DEF Onward
  <2> HIDE DEF p
  <2>3. Onward(me) \in States
    <3>1. p \in Paths \cup {None} /\ "have" \in Places /\ 1 \in Nat
      BY <2>1 DEF Places
    <3>2. me.todo \ {p} \in SUBSET (Paths \cup Definitions)
      BY DEF States
    <3> QED
      BY <1>1, <2>2, <3>1, <3>2 DEF States
  <2>4. 1 \in 1..Len(Names[p])
    BY <2>1, PathFacts
  <2> QED
    BY <2>1, <2>2, <2>3, <2>4 DEF Sound, Naming, Tabling, States
<1> QED
  BY <1>4, <1>5

-----------------------------------------------------------------------------
(***************************************************************************)
(* The name tables, and the ids a backend took from them                   *)
(***************************************************************************)
\* Rows of services have their host for parent; no two rows have the same key
NamesOK(ns) ==
    /\ IsFiniteSet(ns)
    /\ \A r \in ns : /\ r.kind \in Kinds /\ r.id \in 1..Cardinality(ns) /\ r.parent \in Nat
                     /\ r.kind = "service" <=> r.parent # 0
                     /\ r.kind # "ressource" => r.type = None
    /\ \A r1, r2 \in ns : (/\ r1.kind = r2.kind /\ r1.parent = r2.parent
                           /\ r1.name = r2.name /\ r1.type = r2.type) => r1 = r2

IsName(ns, kind, parent, name, id) ==
    \E r \in ns : r.kind = kind /\ r.parent = parent /\ r.name = name /\ r.id = id

\* Each id found so far is 0 or that of a row with the name in hand
FoundIds(me, ns) ==
    LET n == Names[me.path] IN
    me.pc \in {"have", "insert", "ident", "link"} =>
        /\ me.ids["ressource"] = 0 \/ IsName(ns, "ressource", 0, n[1].name, me.ids["ressource"])
        /\ me.ids["host"] = 0 \/ IsName(ns, "host", 0, n[2].name, me.ids["host"])
        /\ me.ids["service"] = 0
             \/ (Len(n) = 3 /\ IsName(ns, "service", me.ids["host"], n[3].name, me.ids["service"]))
        /\ me.step \in {1, 2} => me.ids["service"] = 0

\* o is the id of the host, or of the service of the host, that owns path p
OwnerRow(p, ns, o) ==
    IF Len(Names[p]) = 3
    THEN \E h \in Nat : IsName(ns, "host", 0, Names[p][2].name, h)
                         /\ IsName(ns, "service", h, Names[p][3].name, o)
    ELSE IsName(ns, "host", 0, Names[p][2].name, o)

ClientOK(c, ns) ==
    /\ IsName(ns, "ressource", 0, Names[c.path][1].name, c.resid)
    /\ c.owner = 0 \/ OwnerRow(c.path, ns, c.owner)

Rooted(me, ns) == FoundIds(me, ns) /\ \A c \in me.clients : ClientOK(c, ns)

\* Columns are only added to a table that is there
Tabled(me, ts) == me.pc \in {"columns", "alter"} => ts[me.table] \subseteq Columns

TablesOK(ts) == DOMAIN ts = Definitions /\ \A d \in Definitions : ts[d] # None => ts[d] \subseteq Columns

MeOK(me, ns, ts) == Sound(me) /\ Rooted(me, ns) /\ Tabled(me, ts)

ApiInv ==
    /\ agent \in Swaggers /\ crashes \in Nat /\ faults \in Nat
    /\ NamesOK(names) /\ TablesOK(tables)
    /\ \A k \in links : k[2] # 0 /\ k[3] # 0
    /\ DOMAIN backend = Backends /\ \A b \in Backends : MeOK(backend[b], names, tables)

\* Rows are never removed
LEMMA RootedStays ==
    ASSUME NEW me, NEW ns, NEW ms, ns \subseteq ms, Rooted(me, ns) PROVE Rooted(me, ms)
<1>1. \A k, par, n, id : IsName(ns, k, par, n, id) => IsName(ms, k, par, n, id)
  BY DEF IsName
<1>2. FoundIds(me, ms)
  BY <1>1 DEF Rooted, FoundIds
<1>3. \A c : ClientOK(c, ns) => ClientOK(c, ms)
  BY <1>1 DEF ClientOK, OwnerRow
<1> QED
  BY <1>2, <1>3 DEF Rooted

\* A step in which b becomes me, and the tables only grow
LEMMA Becomes ==
    ASSUME ApiInv, NEW b \in Backends, NEW me, Become(b, me), MeOK(me, names', tables'),
           agent' \in Swaggers, faults' \in Nat, crashes' \in Nat,
           names \subseteq names', NamesOK(names'), TablesOK(tables'),
           \A d \in Definitions : tables[d] \subseteq Columns => tables'[d] \subseteq Columns,
           \A k \in links' : k[2] # 0 /\ k[3] # 0
    PROVE  ApiInv'
<1>1. ASSUME NEW c \in Backends, c # b PROVE MeOK(backend'[c], names', tables')
  <2>1. backend'[c] = backend[c] /\ MeOK(backend[c], names, tables)
    BY <1>1 DEF Become, ApiInv
  <2>2. Rooted(backend[c], names')
    BY <2>1, RootedStays DEF MeOK
  <2>3. Tabled(backend[c], tables')
    <3>1. SUFFICES ASSUME backend[c].pc \in {"columns", "alter"} PROVE tables'[backend[c].table] \subseteq Columns
      BY DEF Tabled
    <3>2. backend[c].table \in DOMAIN backend[c].api.cols /\ backend[c].api \in Swaggers \cup {Empty}
      BY <2>1, <3>1 DEF MeOK, Sound, Tabling, States
    <3>3. backend[c].table \in Definitions
      BY <3>2, SwaggerFacts
    <3> QED
      BY <2>1, <3>1, <3>3 DEF MeOK, Tabled
  <2> QED
    BY <2>1, <2>2, <2>3 DEF MeOK
<1>2. DOMAIN backend' = Backends /\ backend'[b] = me
  BY DEF Become, ApiInv
<1> QED
  BY <1>1, <1>2 DEF ApiInv

\* A backend that is off, or between two updates, knows nothing of a path in hand
LEMMA OffOK == ASSUME NEW ns, NEW ts PROVE MeOK(Off, ns, ts)
<1>1. Off \in States
  <2>1. NoIds \in [Kinds -> Nat] /\ "off" \in Places /\ 0 \in Nat /\ FALSE \in BOOLEAN
    BY DEF NoIds, Places
  <2> QED
    BY <2>1 DEF Off, States
<1>2. Off.pc = "off" /\ Off.clients = {}
  BY DEF Off
<1> QED
  BY <1>1, <1>2 DEF MeOK, Sound, Naming, Tabling, Rooted, FoundIds, Tabled

\* After Onward the ids in hand are none
LEMMA OnwardOK ==
    ASSUME NEW me \in States, me.todo \subseteq DOMAIN me.api.ref, NEW ns, NEW ts,
           \A c \in me.clients : ClientOK(c, ns)
    PROVE  MeOK(Onward(me), ns, ts)
<1>1. \A k \in Kinds : NoIds[k] = 0
  BY DEF NoIds
<1>2. FoundIds(Onward(me), ns)
  BY <1>1, OnwardFacts, KindFacts DEF FoundIds
<1>3. Tabled(Onward(me), ts)
  BY OnwardFacts DEF Tabled
<1> QED
  BY <1>2, <1>3, OnwardFacts DEF MeOK, Rooted

-----------------------------------------------------------------------------
(***************************************************************************)
(* One lemma per action, or per group of actions with the same effects     *)
(***************************************************************************)
\* A step of b that leaves the tables alone
LEMMA OnlyBecomes ==
    ASSUME ApiInv, NEW b \in Backends, NEW me, Become(b, me), MeOK(me, names, tables),
           UNCHANGED <<agent, names, links, tables>>, crashes' \in Nat, Works \/ Fault
    PROVE  ApiInv'
<1>1. faults' \in Nat
  BY DEF ApiInv, Works, Fault
<1> QED
  BY <1>1, Becomes DEF ApiInv

LEMMA LifeApi ==
    ASSUME ApiInv, NEW b \in Backends, Crash(b) \/ IdentDies(b) PROVE ApiInv'
<1>1. Become(b, Off) /\ UNCHANGED <<agent, names, links, tables, faults>> /\ crashes' \in Nat
  BY DEF Crash, IdentDies, ApiInv, db, bounds
<1> QED
  BY <1>1, OffOK, OnlyBecomes DEF Works

\* A place without a path or a definition in hand
LEMMA IdleOK ==
    ASSUME NEW me, NEW ns, NEW ts, me \in States, \A c \in me.clients : ClientOK(c, ns),
           NEW p \in {"swagger", "collect"}
    PROVE  MeOK([me EXCEPT !.pc = p], ns, ts)
<1> DEFINE nx == [me EXCEPT !.pc = p]
<1>1. p \in Places
  BY DEF Places
<1>2. nx \in States /\ nx.pc = p /\ nx.clients = me.clients
  BY <1>1 DEF States
<1> HIDE DEF nx
<1>3. MeOK(nx, ns, ts)
  BY <1>2 DEF MeOK, Sound, Naming, Tabling, Rooted, FoundIds, Tabled
<1> QED
  BY <1>3 DEF nx

LEMMA StartApi ==
    ASSUME ApiInv, NEW b \in Backends, Start(b) PROVE ApiInv'
<1>1. UNCHANGED <<agent, names, links, tables, crashes>> /\ crashes' \in Nat
  BY DEF Start, ApiInv, db
<1>2. ASSUME NEW m \in BOOLEAN
      PROVE  MeOK([Off EXCEPT !.pc = "swagger", !.misled = m], names, tables)
  <2> DEFINE me == [Off EXCEPT !.pc = "swagger", !.misled = m]
  <2>1. Off \in States /\ "swagger" \in Places
    BY OffOK DEF MeOK, Sound, Places
  <2>2. me \in States
    BY <2>1 DEF States
  <2>3. me.pc = "swagger" /\ me.clients = {}
    BY DEF Off
  <2> HIDE DEF me
  <2>4. MeOK(me, names, tables)
    BY <2>2, <2>3 DEF MeOK, Sound, Naming, Tabling, Rooted, FoundIds, Tabled
  <2> QED
    BY <2>4 DEF me
<1>3. CASE Works /\ Become(b, [Off EXCEPT !.pc = "swagger"])
  <2>1. Off \in States /\ Off.clients = {}
    BY OffOK DEF MeOK, Sound, Off
  <2>2. MeOK([Off EXCEPT !.pc = "swagger"], names, tables)
    BY <2>1, IdleOK
  <2> QED
    BY <1>1, <1>3, <2>2, OnlyBecomes
<1>4. CASE Fault /\ Become(b, [Off EXCEPT !.pc = "swagger", !.misled = TRUE])
  BY <1>1, <1>2, <1>4, OnlyBecomes
<1> QED
  BY <1>3, <1>4 DEF Start

\* The document replaces the one the clients point into
LEMMA ParsedFacts ==
    ASSUME ApiInv, NEW b \in Backends, NEW s \in Swaggers \cup {Empty}
    PROVE  /\ Parsed(b, s) \in States /\ Parsed(b, s).api = s
           /\ Parsed(b, s).misled = backend[b].misled
           /\ \A c \in Parsed(b, s).clients : ClientOK(c, names)
           /\ Parsed(b, s).clients = {[c EXCEPT !.fresh = FALSE] : c \in backend[b].clients}
<1>1. backend[b] \in States /\ \A c \in backend[b].clients : ClientOK(c, names)
  BY DEF ApiInv, MeOK, Sound, Rooted
<1> DEFINE cs == {[c EXCEPT !.fresh = FALSE] : c \in backend[b].clients}
<1>2. \A c \in Clients : /\ [c EXCEPT !.fresh = FALSE] \in Clients
                         /\ [c EXCEPT !.fresh = FALSE].path = c.path
                         /\ [c EXCEPT !.fresh = FALSE].owner = c.owner
                         /\ [c EXCEPT !.fresh = FALSE].resid = c.resid
  BY DEF Clients
<1>3. backend[b].clients \subseteq Clients
  BY <1>1 DEF States
<1>4. cs \subseteq Clients /\ \A c \in cs : ClientOK(c, names)
  <2>1. ASSUME NEW c \in backend[b].clients, NEW d, d = [c EXCEPT !.fresh = FALSE]
        PROVE  d \in Clients /\ ClientOK(d, names)
    <3>1. ClientOK(c, names) /\ c \in Clients
      BY <1>1, <1>3
    <3>2. d \in Clients /\ d.path = c.path /\ d.owner = c.owner /\ d.resid = c.resid
      BY <1>2, <2>1, <3>1
    <3> QED
      BY <3>1, <3>2 DEF ClientOK
  <2> QED
    BY <2>1
<1>5. Parsed(b, s) = [backend[b] EXCEPT !.api = s, !.clients = cs]
  <2>1. backend[b] = [backend[b] EXCEPT !.api = backend[b].api]
    BY <1>1 DEF States
  <2> QED
    BY <1>1 DEF Parsed, States
<1> HIDE DEF cs
<1>6. Parsed(b, s) \in States /\ Parsed(b, s).api = s /\ Parsed(b, s).clients = cs
      /\ Parsed(b, s).misled = backend[b].misled
  BY <1>1, <1>4, <1>5 DEF States
<1> QED
  BY <1>4, <1>6 DEF cs

LEMMA FetchApi ==
    ASSUME ApiInv, NEW b \in Backends, Fetch(b) PROVE ApiInv'
<1>1. PICK s \in {agent, Empty} :
         /\ IF s = agent THEN Works ELSE Fault
         /\ Become(b, Onward([Parsed(b, s) EXCEPT !.todo = DOMAIN s.ref]))
  BY DEF Fetch
<1>2. s \in Swaggers \cup {Empty} /\ UNCHANGED <<agent, names, links, tables, crashes>> /\ crashes' \in Nat
  BY DEF Fetch, ApiInv, db
<1> DEFINE me == [Parsed(b, s) EXCEPT !.todo = DOMAIN s.ref]
<1>3. DOMAIN s.ref \in SUBSET (Paths \cup Definitions)
  BY <1>2, SwaggerFacts
<1>4. me \in States /\ me.todo = DOMAIN me.api.ref /\ me.clients = Parsed(b, s).clients
  BY <1>2, <1>3, ParsedFacts DEF States
<1> HIDE DEF me
<1>5. MeOK(Onward(me), names, tables)
  BY <1>2, <1>4, ParsedFacts, OnwardOK
<1> QED
  BY <1>1, <1>2, <1>5, OnlyBecomes DEF me

LEMMA FetchFailsApi ==
    ASSUME ApiInv, NEW b \in Backends, FetchFails(b) PROVE ApiInv'
<1>1. /\ UNCHANGED <<agent, names, links, tables, crashes>> /\ crashes' \in Nat
      /\ Works \/ Fault
      /\ \/ Become(b, [backend[b] EXCEPT !.pc = "collect"])
         \/ Become(b, [Parsed(b, Empty) EXCEPT !.pc = "collect"])
  BY DEF FetchFails, ApiInv, db
<1>2. backend[b] \in States /\ \A c \in backend[b].clients : ClientOK(c, names)
  BY DEF ApiInv, MeOK, Sound, Rooted
<1>3. MeOK([backend[b] EXCEPT !.pc = "collect"], names, tables)
  BY <1>2, IdleOK
<1>4. MeOK([Parsed(b, Empty) EXCEPT !.pc = "collect"], names, tables)
  BY ParsedFacts, IdleOK
<1> QED
  BY <1>1, <1>3, <1>4, OnlyBecomes

LEMMA CollectedApi ==
    ASSUME ApiInv, NEW b \in Backends, Collected(b) PROVE ApiInv'
<1>1. /\ UNCHANGED <<agent, names, links, tables, crashes>> /\ crashes' \in Nat /\ Works
      /\ Become(b, [backend[b] EXCEPT !.pc = "swagger"])
  BY DEF Collected, ApiInv, db, bounds, Works
<1>2. backend[b] \in States /\ \A c \in backend[b].clients : ClientOK(c, names)
  BY DEF ApiInv, MeOK, Sound, Rooted
<1>3. MeOK([backend[b] EXCEPT !.pc = "swagger"], names, tables)
  BY <1>2, IdleOK
<1> QED
  BY <1>1, <1>3, OnlyBecomes

\* From one question about a name to the next
LEMMA AskOK ==
    ASSUME NEW me, NEW ns, NEW ts, MeOK(me, ns, ts), me.pc \in {"have", "insert"},
           NEW p \in {"insert", "ident"}
    PROVE  MeOK([me EXCEPT !.pc = p], ns, ts)
<1> DEFINE nx == [me EXCEPT !.pc = p]
<1>1. p \in Places /\ me \in States
  BY DEF Places, MeOK, Sound
<1>2. /\ nx \in States /\ nx.pc = p /\ nx.clients = me.clients /\ nx.api = me.api
      /\ nx.path = me.path /\ nx.todo = me.todo /\ nx.step = me.step /\ nx.ids = me.ids
  BY <1>1 DEF States
<1> HIDE DEF nx
<1>3. MeOK(nx, ns, ts)
  BY <1>2 DEF MeOK, Sound, Naming, Tabling, Rooted, FoundIds, Tabled
<1> QED
  BY <1>3 DEF nx

LEMMA HaveApi == ASSUME ApiInv, NEW b \in Backends, Have(b) PROVE ApiInv'
<1>1. /\ UNCHANGED <<agent, names, links, tables, crashes>> /\ crashes' \in Nat
      /\ Works \/ Fault
      /\ backend[b].pc = "have" /\ MeOK(backend[b], names, tables)
  BY DEF Have, At, ApiInv, db
<1>2. PICK p \in {"insert", "ident"} : Become(b, [backend[b] EXCEPT !.pc = p])
  BY DEF Have
<1>3. MeOK([backend[b] EXCEPT !.pc = p], names, tables)
  BY <1>1, AskOK
<1> QED
  BY <1>1, <1>2, <1>3, OnlyBecomes

\* The name in hand: its kind is that of the step
LEMMA HandFacts ==
    ASSUME ApiInv, NEW b \in Backends, backend[b].pc \in {"have", "insert", "ident", "link"}
    PROVE  /\ backend[b] \in States /\ backend[b].path \in Paths
           /\ backend[b].path \in DOMAIN backend[b].api.ref
           /\ backend[b].api \in Swaggers \cup {Empty}
           /\ backend[b].step \in 1..Len(Names[backend[b].path])
           /\ Name(b) = Names[backend[b].path][backend[b].step]
           /\ \/ backend[b].step = 1 /\ Name(b).kind = "ressource"
              \/ backend[b].step = 2 /\ Name(b).kind = "host"
              \/ /\ backend[b].step = 3 /\ Name(b).kind = "service"
                 /\ Len(Names[backend[b].path]) = 3
           /\ \A k \in Kinds : backend[b].ids[k] \in Nat
<1>1. /\ backend[b] \in States /\ Naming(backend[b])
  BY DEF ApiInv, MeOK, Sound
<1>2. backend[b].path \in DOMAIN backend[b].api.ref /\ backend[b].api \in Swaggers \cup {Empty}
      /\ backend[b].step \in 1..Len(Names[backend[b].path])
      /\ backend[b].ids \in [Kinds -> Nat]
  BY <1>1 DEF Naming, States
<1>3. backend[b].path \in Paths
  BY <1>2, SwaggerFacts
<1>4. Name(b) = Names[backend[b].path][backend[b].step]
  BY DEF Name
<1>5. \/ backend[b].step = 1 /\ Name(b).kind = "ressource"
      \/ backend[b].step = 2 /\ Name(b).kind = "host"
      \/ /\ backend[b].step = 3 /\ Name(b).kind = "service"
         /\ Len(Names[backend[b].path]) = 3
  <2>0. \A n \in {2, 3} : \A i \in 1..n : i \in {1, 2, 3} /\ (i = 3 => n = 3)
    OBVIOUS
  <2>1. Len(Names[backend[b].path]) \in {2, 3}
    BY <1>3, PathFacts
  <2>2. backend[b].step \in {1, 2, 3} /\ (backend[b].step = 3 => Len(Names[backend[b].path]) = 3)
    BY <1>2, <2>0, <2>1
  <2> QED
    BY <1>3, <1>4, <2>2, PathFacts
<1> QED
  BY <1>1, <1>2, <1>3, <1>4, <1>5

\* The unique indexes: a row is inserted only where there is none of its key
LEMMA RowNames ==
    ASSUME ApiInv, NEW b \in Backends, backend[b].pc = "insert"
    PROVE  NamesOK(names \cup Row(b))
<1> DEFINE same == {r \in names : r.kind = Name(b).kind}
           new  == [kind |-> Name(b).kind, parent |-> Parent(b), name |-> Name(b).name,
                    type |-> Type(b), id |-> 1 + Cardinality(same)]
<1>1. NamesOK(names)
  BY DEF ApiInv
<1>2. CASE Row(b) = {}
  <2>1. names \cup {} = names
    OBVIOUS
  <2> QED
    BY <1>1, <1>2, <2>1
<1>3. CASE Row(b) # {}
  <2>1. ~ Taken(b) /\ (Name(b).kind = "service" => Parent(b) # 0) /\ Row(b) = {new}
    BY <1>3 DEF Row
  <2>2. /\ Name(b).kind \in Kinds /\ Parent(b) \in Nat
        /\ Name(b).kind = "service" <=> Parent(b) # 0
        /\ Name(b).kind # "ressource" => Type(b) = None
    BY <2>1, HandFacts, KindFacts DEF Parent, Type
  <2>3. IsFiniteSet(same) /\ Cardinality(same) <= Cardinality(names) /\ IsFiniteSet(names)
    BY <1>1, FS_Subset DEF NamesOK
  <2>4. Cardinality(same) \in Nat /\ Cardinality(names) \in Nat
    BY <2>3, FS_CardinalityType
  <2> DEFINE n == Cardinality(same)
  <2> HIDE DEF same
  <2>5. /\ new.kind = Name(b).kind /\ new.parent = Parent(b) /\ new.name = Name(b).name
        /\ new.type = Type(b) /\ new.id = 1 + Cardinality(same)
    OBVIOUS
  <2>6. PICK r0 : r0 = new
    OBVIOUS
  <2> HIDE DEF new
  <2>7. \A r \in names : ~ (/\ r.kind = r0.kind /\ r.parent = r0.parent
                            /\ r.name = r0.name /\ r.type = r0.type)
    BY <2>1, <2>5, <2>6 DEF Taken, Matches
  <2>8. IsFiniteSet(names \cup {r0}) /\ Cardinality(names \cup {r0}) = Cardinality(names) + 1
    BY <2>3, <2>7, FS_AddElement
  <2>9. \A r \in names \cup {r0} : r.id \in 1..Cardinality(names \cup {r0})
    <3>1. r0.id \in 1..(Cardinality(names) + 1)
      BY <2>3, <2>4, <2>5, <2>6
    <3>2. \A r \in names : r.id \in 1..(Cardinality(names) + 1)
      BY <1>1, <2>4 DEF NamesOK
    <3> QED
      BY <2>8, <3>1, <3>2
  <2>10. NamesOK(names \cup {r0})
    BY <1>1, <2>2, <2>5, <2>6, <2>7, <2>8, <2>9 DEF NamesOK
  <2> QED
    BY <2>1, <2>6, <2>10
<1> QED
  BY <1>2, <1>3

LEMMA InsertApi == ASSUME ApiInv, NEW b \in Backends, Insert(b) PROVE ApiInv'
<1>1. /\ UNCHANGED <<agent, links, tables, crashes>> /\ crashes' \in Nat
      /\ \/ Works /\ names' = names \cup Row(b)
         \/ Fault /\ names' = names
      /\ backend[b].pc = "insert" /\ MeOK(backend[b], names, tables)
      /\ Become(b, [backend[b] EXCEPT !.pc = "ident"])
  BY DEF Insert, At, ApiInv
<1>2. names \subseteq names' /\ NamesOK(names') /\ faults' \in Nat
  BY <1>1, RowNames DEF ApiInv, Works, Fault
<1>3. MeOK([backend[b] EXCEPT !.pc = "ident"], names, tables)
  BY <1>1, AskOK
<1>4. MeOK([backend[b] EXCEPT !.pc = "ident"], names', tables')
  BY <1>1, <1>2, <1>3, RootedStays DEF MeOK
<1> QED
  BY <1>1, <1>2, <1>4, Becomes DEF ApiInv

\* get...(): id is that of a row with the name in hand, or 0
LEMMA IdentifiedOK ==
    ASSUME ApiInv, NEW b \in Backends, backend[b].pc = "ident", NEW id \in Nat,
           id = 0 \/ \E r \in Matches(b) : r.id = id
    PROVE  MeOK(Identified(b, id), names, tables)
<1> DEFINE old == backend[b]
           kind == Name(b).kind
           ids == [old.ids EXCEPT ![kind] = id]
           me  == [old EXCEPT !.ids = ids]
           n   == Names[old.path]
<1>1. /\ MeOK(old, names, tables) /\ old \in States /\ old.path \in Paths /\ old.pc = "ident"
      /\ old.ids \in [Kinds -> Nat] /\ kind \in Kinds
  BY HandFacts, KindFacts DEF ApiInv, MeOK, Sound, States
<1>2. ids \in [Kinds -> Nat] /\ ids[kind] = id /\ \A k \in Kinds \ {kind} : ids[k] = old.ids[k]
  BY <1>1
<1>3. id = 0 \/ IsName(names, kind, Parent(b), Name(b).name, id)
  BY DEF Matches, IsName
<1>4. Identified(b, id) =
        IF Leaves(b, ids) THEN Onward(me)
        ELSE IF me.step = Len(Names[me.path]) THEN [me EXCEPT !.pc = "link"]
        ELSE [me EXCEPT !.pc = "have", !.step = @ + 1]
  BY DEF Identified
<1>5. \/ old.step = 1 /\ kind = "ressource" /\ Name(b) = n[1]
      \/ old.step = 2 /\ kind = "host" /\ Name(b) = n[2]
      \/ old.step = 3 /\ kind = "service" /\ Name(b) = n[3] /\ Len(n) = 3
  BY HandFacts
<1>6. Parent(b) = IF kind = "service" THEN old.ids["host"] ELSE 0
  BY DEF Parent
<1>7. /\ old.step \in 1..Len(n) /\ Len(n) \in {2, 3} /\ old.todo \subseteq DOMAIN old.api.ref
      /\ old.path \in DOMAIN old.api.ref
      /\ old.step = 3 => old.ids["ressource"] # 0
  BY <1>1, PathFacts DEF MeOK, Sound, Naming
<1>8. /\ old.ids["ressource"] = 0 \/ IsName(names, "ressource", 0, n[1].name, old.ids["ressource"])
      /\ old.ids["host"] = 0 \/ IsName(names, "host", 0, n[2].name, old.ids["host"])
      /\ old.step \in {1, 2} => old.ids["service"] = 0
      /\ \A c \in old.clients : ClientOK(c, names)
  BY <1>1 DEF MeOK, Rooted, FoundIds
<1>9. /\ ids["ressource"] = 0 \/ IsName(names, "ressource", 0, n[1].name, ids["ressource"])
      /\ ids["host"] = 0 \/ IsName(names, "host", 0, n[2].name, ids["host"])
      /\ ids["service"] = 0
            \/ (Len(n) = 3 /\ IsName(names, "service", ids["host"], n[3].name, ids["service"]))
      /\ old.step \in {1, 2} => ids["service"] = 0
  <2>1. CASE old.step = 1 /\ kind = "ressource" /\ Name(b) = n[1]
    BY <1>2, <1>3, <1>6, <1>8, <2>1, KindFacts
  <2>2. CASE old.step = 2 /\ kind = "host" /\ Name(b) = n[2]
    BY <1>2, <1>3, <1>6, <1>8, <2>2, KindFacts
  <2>3. CASE old.step = 3 /\ kind = "service" /\ Name(b) = n[3] /\ Len(n) = 3
    BY <1>2, <1>3, <1>6, <1>8, <2>3, KindFacts
  <2> QED
    BY <1>5, <2>1, <2>2, <2>3
<1>10. Leaves(b, ids) \/ old.step = 1 \/ ids["ressource"] # 0
  BY <1>2, <1>5, <1>7, KindFacts DEF Leaves
<1> HIDE DEF ids, kind
<1>11. /\ me \in States /\ me.pc = "ident" /\ me.ids = ids /\ me.path = old.path /\ me.step = old.step
       /\ me.todo = old.todo /\ me.api = old.api /\ me.clients = old.clients
  BY <1>1, <1>2 DEF States
<1> HIDE DEF me
<1>12. CASE Leaves(b, ids)
  BY <1>4, <1>7, <1>8, <1>11, <1>12, OnwardOK
<1>13. CASE ~ Leaves(b, ids) /\ me.step = Len(Names[me.path])
  <2> DEFINE nx == [me EXCEPT !.pc = "link"]
  <2>1. "link" \in Places
    BY DEF Places
  <2>2. /\ nx \in States /\ nx.pc = "link" /\ nx.ids = ids /\ nx.path = old.path /\ nx.step = old.step
        /\ nx.todo = old.todo /\ nx.api = old.api /\ nx.clients = old.clients
    BY <1>11, <2>1 DEF States
  <2> HIDE DEF nx
  <2>3. Sound(nx)
    <3>0. old.step = Len(n) /\ old.step # 1
      <4>1. old.step = Len(n)
        BY <1>11, <1>13
      <4> QED
        BY <1>7, <4>1
    <3>1. ids["ressource"] # 0
      BY <1>10, <1>13, <3>0
    <3> QED
      BY <1>7, <2>2, <3>1 DEF Sound, Naming, Tabling
  <2>4. MeOK(nx, names, tables)
    BY <1>8, <1>9, <2>2, <2>3 DEF MeOK, Rooted, FoundIds, Tabled
  <2> QED
    BY <1>4, <1>13, <2>4 DEF nx
<1>14. CASE ~ Leaves(b, ids) /\ me.step # Len(Names[me.path])
  <2> DEFINE nx == [me EXCEPT !.pc = "have", !.step = @ + 1]
  <2>0. old.step # Len(n)
    BY <1>11, <1>14
  <2>1. old.step \in {1, 2} /\ old.step + 1 \in 1..Len(n) /\ old.step + 1 \in {2, 3}
    <3>1. \A l \in {2, 3} : \A i \in 1..l : i # l => i \in {1, 2} /\ i + 1 \in 1..l /\ i + 1 \in {2, 3}
      OBVIOUS
    <3> QED
      BY <1>7, <2>0, <3>1
  <2>2. /\ nx \in States /\ nx.pc = "have" /\ nx.ids = ids /\ nx.path = old.path /\ nx.step = old.step + 1
        /\ nx.todo = old.todo /\ nx.api = old.api /\ nx.clients = old.clients
    <3>1. "have" \in Places /\ me.step + 1 \in Nat /\ me.step + 1 = old.step + 1
      BY <1>11, <2>1 DEF Places
    <3> QED
      BY <1>11, <3>1 DEF States
  <2> HIDE DEF nx
  <2>3. Sound(nx)
    <3>1. nx.step = 3 => ids["ressource"] # 0
      BY <1>10, <1>14, <2>1, <2>2
    <3> QED
      BY <1>7, <2>1, <2>2, <3>1 DEF Sound, Naming, Tabling
  <2>4. FoundIds(nx, names)
    BY <1>9, <2>1, <2>2 DEF FoundIds
  <2>5. MeOK(nx, names, tables)
    BY <1>8, <2>2, <2>3, <2>4 DEF MeOK, Rooted, Tabled
  <2> QED
    BY <1>4, <1>14, <2>5 DEF nx
<1> QED
  BY <1>12, <1>13, <1>14

LEMMA IdentApi == ASSUME ApiInv, NEW b \in Backends, Ident(b) PROVE ApiInv'
<1>1. /\ UNCHANGED <<agent, names, links, tables, crashes>> /\ crashes' \in Nat
      /\ Works \/ Fault
      /\ backend[b].pc = "ident"
  BY DEF Ident, At, ApiInv, db
<1>2. PICK id \in Nat : /\ id = 0 \/ \E r \in Matches(b) : r.id = id
                        /\ Become(b, Identified(b, id))
  <2>1. \A r \in Matches(b) : r.id \in Nat
    <3>1. Cardinality(names) \in Nat
      BY FS_CardinalityType DEF ApiInv, NamesOK
    <3> QED
      BY <3>1 DEF Matches, ApiInv, NamesOK
  <2>2. CASE Works /\ \E r \in Matches(b) : Become(b, Identified(b, r.id))
    BY <2>1, <2>2
  <2>3. CASE Fault /\ Become(b, Identified(b, 0))
    BY <2>3
  <2> QED
    BY <2>2, <2>3 DEF Ident
<1>3. MeOK(Identified(b, id), names, tables)
  BY <1>1, <1>2, IdentifiedOK
<1> QED
  BY <1>1, <1>2, <1>3, OnlyBecomes

\* The client of the path in hand: its ids are those of rows with its names
LEMMA NewFacts ==
    ASSUME ApiInv, NEW b \in Backends, backend[b].pc = "link"
    PROVE  /\ New(b) \in Clients /\ ClientOK(New(b), names)
           /\ OwnerId(b) \in Nat /\ backend[b].ids["ressource"] # 0
<1> DEFINE me == backend[b]
           n  == Names[me.path]
<1>1. /\ me \in States /\ me.path \in Paths /\ me.path \in DOMAIN me.api.ref
      /\ me.api \in Swaggers \cup {Empty} /\ \A k \in Kinds : me.ids[k] \in Nat
  BY HandFacts
<1>2. Ref(b) \in Definitions /\ me.api.cols[Ref(b)] \subseteq Columns
  BY <1>1, SwaggerFacts DEF Ref
<1>3. me.ids["ressource"] # 0
  BY DEF ApiInv, MeOK, Sound, Naming
<1>4. Owner(b) = (IF Len(n) = 3 THEN "service" ELSE "host") /\ OwnerId(b) \in Nat
  BY <1>1, KindFacts DEF Owner, OwnerId
<1>5. /\ IsName(names, "ressource", 0, n[1].name, me.ids["ressource"])
      /\ me.ids["host"] = 0 \/ IsName(names, "host", 0, n[2].name, me.ids["host"])
      /\ me.ids["service"] = 0
            \/ (Len(n) = 3 /\ IsName(names, "service", me.ids["host"], n[3].name, me.ids["service"]))
  BY <1>3 DEF ApiInv, MeOK, Rooted, FoundIds
<1>6. New(b) \in Clients
  BY <1>1, <1>2, <1>3, <1>4, KindFacts DEF New, Clients
<1>7. OwnerId(b) = 0 \/ OwnerRow(me.path, names, OwnerId(b))
  <2>1. CASE Len(n) = 3
    <3>1. ASSUME me.ids["service"] # 0 PROVE me.ids["host"] # 0
      BY <1>5, <3>1 DEF IsName, ApiInv, NamesOK
    <3> QED
      BY <1>1, <1>4, <1>5, <2>1, <3>1, KindFacts DEF OwnerRow, OwnerId
  <2>2. CASE Len(n) # 3
    BY <1>4, <1>5, <2>2 DEF OwnerRow, OwnerId
  <2> QED
    BY <2>1, <2>2
<1>8. ClientOK(New(b), names)
  BY <1>5, <1>7 DEF ClientOK, New
<1> QED
  BY <1>3, <1>4, <1>6, <1>8

\* updateDefs renews the definition of a client, or a new one joins
LEMMA UpdatedFacts ==
    ASSUME ApiInv, NEW b \in Backends, backend[b].pc = "link"
    PROVE  /\ Updated(b) \subseteq Clients
           /\ \A c \in Updated(b) :
                /\ ClientOK(c, names) /\ c.path = backend[b].path /\ c.fresh
                /\ c = New(b) \/ \E d \in Mine(b) : c.owner = d.owner /\ c.resid = d.resid
           /\ Updated(b) # {}
<1>1. backend[b].clients \subseteq Clients /\ \A c \in backend[b].clients : ClientOK(c, names)
  BY DEF ApiInv, MeOK, Sound, Rooted, States
<1>2. New(b) \in Clients /\ ClientOK(New(b), names)
  BY NewFacts
<1>3. New(b).cols \subseteq Columns /\ New(b).path = backend[b].path /\ New(b).fresh
  BY <1>2 DEF Clients, New
<1>4. CASE Mine(b) = {}
  BY <1>2, <1>3, <1>4 DEF Updated
<1>5. CASE Mine(b) # {}
  <2>1. Updated(b) = {[c EXCEPT !.cols = New(b).cols, !.fresh = TRUE] : c \in Mine(b)}
    BY <1>5 DEF Updated
  <2>2. Mine(b) \subseteq Clients /\ \A c \in Mine(b) : c.path = backend[b].path /\ ClientOK(c, names)
    BY <1>1 DEF Mine
  <2>3. ASSUME NEW d \in Mine(b)
        PROVE  /\ [d EXCEPT !.cols = New(b).cols, !.fresh = TRUE] \in Clients
               /\ [d EXCEPT !.cols = New(b).cols, !.fresh = TRUE].path = d.path
               /\ [d EXCEPT !.cols = New(b).cols, !.fresh = TRUE].owner = d.owner
               /\ [d EXCEPT !.cols = New(b).cols, !.fresh = TRUE].resid = d.resid
               /\ [d EXCEPT !.cols = New(b).cols, !.fresh = TRUE].fresh
    <3>1. d \in Clients
      BY <2>2
    <3> QED
      BY <1>3, <3>1 DEF Clients
  <2>4. ASSUME NEW c \in Updated(b)
        PROVE  /\ c \in Clients /\ ClientOK(c, names) /\ c.path = backend[b].path /\ c.fresh
               /\ \E d \in Mine(b) : c.owner = d.owner /\ c.resid = d.resid
    <3>1. PICK d \in Mine(b) : c = [d EXCEPT !.cols = New(b).cols, !.fresh = TRUE]
      BY <2>1
    <3>2. c \in Clients /\ c.path = d.path /\ c.owner = d.owner /\ c.resid = d.resid /\ c.fresh
      BY <2>3, <3>1
    <3> QED
      BY <2>2, <3>2 DEF ClientOK
  <2>5. Updated(b) # {}
    BY <1>5, <2>1
  <2> QED
    BY <2>4, <2>5
<1> QED
  BY <1>4, <1>5

\* The clients after the link, before the thread moves on
LEMMA LinkedFacts ==
    ASSUME ApiInv, NEW b \in Backends, backend[b].pc = "link", NEW cs,
           cs = (backend[b].clients \ Mine(b)) \cup Updated(b)
    PROVE  LET me == [backend[b] EXCEPT !.clients = cs]
           IN  /\ me \in States /\ me.todo \subseteq DOMAIN me.api.ref
               /\ \A c \in me.clients : ClientOK(c, names)
               /\ me.clients = cs /\ me.api = backend[b].api /\ me.todo = backend[b].todo
               /\ me.misled = backend[b].misled
<1>1. backend[b] \in States /\ backend[b].todo \subseteq DOMAIN backend[b].api.ref
  BY DEF ApiInv, MeOK, Sound, Naming
<1>2. backend[b].clients \subseteq Clients /\ \A c \in backend[b].clients : ClientOK(c, names)
  BY DEF ApiInv, MeOK, Sound, Rooted, States
<1>3. cs \subseteq Clients /\ \A c \in cs : ClientOK(c, names)
  BY <1>2, UpdatedFacts
<1> QED
  BY <1>1, <1>3 DEF States

LEMMA LinkApi == ASSUME ApiInv, NEW b \in Backends, Link(b) PROVE ApiInv'
<1> DEFINE cs == (backend[b].clients \ Mine(b)) \cup Updated(b)
           me == [backend[b] EXCEPT !.clients = cs]
<1>1. /\ UNCHANGED <<agent, names, tables, crashes>> /\ crashes' \in Nat
      /\ backend[b].pc = "link" /\ faults' \in Nat
      /\ Become(b, Onward(me))
      /\ links' = links \/ (OwnerId(b) # 0 /\ links' = links \cup {LinkRow(b)})
  BY DEF Link, At, ApiInv, Works, Fault
<1>2. me \in States /\ me.todo \subseteq DOMAIN me.api.ref /\ \A c \in me.clients : ClientOK(c, names)
  BY <1>1, LinkedFacts
<1> HIDE DEF me
<1>3. MeOK(Onward(me), names', tables')
  BY <1>1, <1>2, OnwardOK
<1>4. \A k \in links' : k[2] # 0 /\ k[3] # 0
  <2>1. OwnerId(b) # 0 => LinkRow(b)[2] # 0 /\ LinkRow(b)[3] # 0
    BY <1>1, NewFacts DEF LinkRow
  <2> QED
    BY <1>1, <2>1 DEF ApiInv
<1> QED
  BY <1>1, <1>3, <1>4, Becomes DEF ApiInv

\* A place of createTables with definition d in hand and the columns cs of it left
LEMMA InTables ==
    ASSUME NEW me \in States, NEW ns, NEW ts, NEW p \in {"tables", "create", "columns", "alter"},
           NEW todo, NEW d, NEW cs,
           \A c \in me.clients : ClientOK(c, ns),
           todo \subseteq DOMAIN me.api.cols, d \in DOMAIN me.api.cols, cs \in SUBSET Columns,
           p \in {"columns", "alter"} => cs # {} /\ ts[d] \subseteq Columns,
           NEW nx, nx = [me EXCEPT !.pc = p, !.todo = todo, !.table = d, !.cols = cs]
    PROVE  MeOK(nx, ns, ts)
<1>1. p \in Places /\ me.api \in Swaggers \cup {Empty}
  BY DEF Places, States
<1>2. todo \in SUBSET (Paths \cup Definitions) /\ d \in Definitions \cup {None}
  BY <1>1, SwaggerFacts
<1>3. /\ nx \in States /\ nx.pc = p /\ nx.todo = todo /\ nx.table = d /\ nx.cols = cs
      /\ nx.api = me.api /\ nx.clients = me.clients
  BY <1>1, <1>2 DEF States
<1>4. Sound(nx)
  BY <1>3 DEF Sound, Naming, Tabling
<1> QED
  BY <1>3, <1>4 DEF MeOK, Rooted, FoundIds, Tabled

\* What is known of a thread in createTables
LEMMA TableFacts ==
    ASSUME ApiInv, NEW b \in Backends, backend[b].pc \in {"tables", "create", "columns", "alter"}
    PROVE  LET me == backend[b] IN
           /\ me \in States /\ me.todo \subseteq DOMAIN me.api.cols /\ me.cols \subseteq Columns
           /\ \A c \in me.clients : ClientOK(c, names)
           /\ \A d \in DOMAIN me.api.cols : d \in Definitions /\ me.api.cols[d] \in SUBSET Columns
           /\ me.pc # "tables" => me.table \in DOMAIN me.api.cols
           /\ me.pc \in {"columns", "alter"} => me.cols # {} /\ tables[me.table] \subseteq Columns
           /\ me = [me EXCEPT !.todo = me.todo, !.table = me.table, !.cols = me.cols]
<1>1. MeOK(backend[b], names, tables) /\ backend[b] \in States
  BY DEF ApiInv, MeOK, Sound
<1>2. backend[b].api \in Swaggers \cup {Empty} /\ backend[b].cols \subseteq Columns
      /\ backend[b] = [backend[b] EXCEPT !.todo = backend[b].todo, !.table = backend[b].table,
                                         !.cols = backend[b].cols]
  BY <1>1 DEF States
<1>3. \A d \in DOMAIN backend[b].api.cols : d \in Definitions /\ backend[b].api.cols[d] \in SUBSET Columns
  BY <1>2, SwaggerFacts
<1> QED
  BY <1>1, <1>2, <1>3 DEF MeOK, Sound, Rooted, Tabling, Tabled

LEMMA HaveTableApi == ASSUME ApiInv, NEW b \in Backends, HaveTable(b) PROVE ApiInv'
<1> DEFINE d  == CHOOSE x \in backend[b].todo : TRUE
           me == [backend[b] EXCEPT !.todo = @ \ {d}, !.table = d, !.cols = backend[b].api.cols[d]]
<1>1. /\ UNCHANGED <<agent, names, links, tables, crashes>> /\ crashes' \in Nat
      /\ backend[b].pc = "tables" /\ backend[b].todo # {} /\ d \in backend[b].todo
  BY DEF HaveTable, At, ApiInv, db
<1>2. \/ Works /\ Become(b, IF tables[d] = None THEN [me EXCEPT !.pc = "create"] ELSE Columned(me))
      \/ Fault /\ Become(b, [me EXCEPT !.pc = "create"])
  BY DEF HaveTable
<1> HIDE DEF d
<1>3. /\ backend[b] \in States /\ d \in DOMAIN backend[b].api.cols
      /\ backend[b].api.cols[d] \in SUBSET Columns /\ d \in Definitions
      /\ backend[b].todo \subseteq DOMAIN backend[b].api.cols
      /\ \A c \in backend[b].clients : ClientOK(c, names)
  BY <1>1, TableFacts
<1>4. /\ me.cols = backend[b].api.cols[d]
      /\ \A p : [me EXCEPT !.pc = p] = [backend[b] EXCEPT !.pc = p, !.todo = backend[b].todo \ {d}, !.table = d,
                                                         !.cols = backend[b].api.cols[d]]
  BY <1>3 DEF States
<1>5. ASSUME NEW p \in {"tables", "create", "columns"},
             p = "columns" => me.cols # {} /\ tables[d] \subseteq Columns
      PROVE  MeOK([me EXCEPT !.pc = p], names, tables)
  <2> DEFINE nx == [me EXCEPT !.pc = p]
  <2>1. nx = [backend[b] EXCEPT !.pc = p, !.todo = backend[b].todo \ {d}, !.table = d,
                                !.cols = backend[b].api.cols[d]]
    BY <1>4
  <2> HIDE DEF nx, me
  <2>2. /\ p \in {"tables", "create", "columns", "alter"}
        /\ backend[b].todo \ {d} \subseteq DOMAIN backend[b].api.cols
        /\ p \in {"columns", "alter"} => backend[b].api.cols[d] # {} /\ tables[d] \subseteq Columns
    BY <1>3, <1>4, <1>5
  <2>3. MeOK(nx, names, tables)
    BY <1>3, <2>1, <2>2, InTables
  <2> QED
    BY <2>3 DEF nx
<1>6. MeOK([me EXCEPT !.pc = "create"], names, tables)
  BY <1>5
<1>7. tables[d] # None => MeOK(Columned(me), names, tables)
  <2>1. Columned(me) = [me EXCEPT !.pc = IF me.cols = {} THEN "tables" ELSE "columns"]
    BY DEF Columned
  <2>2. tables[d] # None => tables[d] \subseteq Columns
    BY <1>3 DEF ApiInv, TablesOK
  <2> QED
    BY <1>5, <2>1, <2>2
<1> HIDE DEF me
<1> QED
  BY <1>1, <1>2, <1>6, <1>7, OnlyBecomes

LEMMA CreateTableApi == ASSUME ApiInv, NEW b \in Backends, CreateTable(b) PROVE ApiInv'
<1> DEFINE d  == backend[b].table
           nx == [backend[b] EXCEPT !.pc = "tables", !.cols = {}]
<1>1. /\ UNCHANGED <<agent, names, links, crashes>> /\ crashes' \in Nat
      /\ backend[b].pc = "create" /\ Become(b, nx) /\ faults' \in Nat
      /\ \/ tables' = tables
         \/ tables' = [tables EXCEPT ![d] = IF tables[d] = None THEN backend[b].cols ELSE tables[d]]
  BY DEF CreateTable, At, ApiInv, Works, Fault
<1>2. /\ backend[b] \in States /\ d \in DOMAIN backend[b].api.cols /\ d \in Definitions
      /\ backend[b].todo \subseteq DOMAIN backend[b].api.cols /\ backend[b].cols \subseteq Columns
      /\ \A c \in backend[b].clients : ClientOK(c, names)
  BY <1>1, TableFacts
<1>3. TablesOK(tables') /\ \A x \in Definitions : tables[x] \subseteq Columns => tables'[x] \subseteq Columns
  BY <1>1, <1>2 DEF ApiInv, TablesOK
<1>4. nx = [backend[b] EXCEPT !.pc = "tables", !.todo = backend[b].todo, !.table = d, !.cols = {}]
  BY <1>2 DEF States
<1> HIDE DEF nx
<1>5. MeOK(nx, names', tables')
  BY <1>1, <1>2, <1>4, InTables
<1> QED
  BY <1>1, <1>3, <1>5, Becomes DEF ApiInv

\* One column less to look at, and the next one or the next definition
LEMMA ColumnedOK ==
    ASSUME ApiInv, NEW b \in Backends, backend[b].pc \in {"columns", "alter"}, NEW c, NEW ts,
           ts[backend[b].table] \subseteq Columns
    PROVE  MeOK(Columned([backend[b] EXCEPT !.cols = @ \ {c}]), names, ts)
<1> DEFINE me == [backend[b] EXCEPT !.cols = @ \ {c}]
           d  == backend[b].table
           p  == IF me.cols = {} THEN "tables" ELSE "columns"
           nx == Columned(me)
<1>1. /\ backend[b] \in States /\ d \in DOMAIN backend[b].api.cols
      /\ backend[b].todo \subseteq DOMAIN backend[b].api.cols /\ backend[b].cols \ {c} \in SUBSET Columns
      /\ \A x \in backend[b].clients : ClientOK(x, names)
  BY TableFacts
<1>2. me.cols = backend[b].cols \ {c}
  BY <1>1 DEF States
<1>3. nx = [backend[b] EXCEPT !.pc = p, !.todo = backend[b].todo, !.table = d,
                              !.cols = backend[b].cols \ {c}]
  BY <1>1, <1>2 DEF States, Columned
<1>4. p \in {"tables", "create", "columns", "alter"} /\ (p \in {"columns", "alter"} => me.cols # {})
  OBVIOUS
<1> HIDE DEF nx, p, me
<1>5. MeOK(nx, names, ts)
  <2>1. PICK u \in States : u = backend[b]
    BY <1>1
  <2>2. PICK todo, cs : todo = u.todo /\ cs = u.cols \ {c}
    OBVIOUS
  <2>3. /\ todo \subseteq DOMAIN u.api.cols /\ d \in DOMAIN u.api.cols /\ cs \in SUBSET Columns
        /\ \A x \in u.clients : ClientOK(x, names)
        /\ p \in {"columns", "alter"} => cs # {} /\ ts[d] \subseteq Columns
    BY <1>1, <1>2, <1>4, <2>1, <2>2
  <2>4. nx = [u EXCEPT !.pc = p, !.todo = todo, !.table = d, !.cols = cs]
    BY <1>3, <2>1, <2>2
  <2> QED
    BY <1>4, <2>3, <2>4, InTables
<1> QED
  BY <1>5 DEF nx, me

LEMMA HaveColumnApi == ASSUME ApiInv, NEW b \in Backends, HaveColumn(b) PROVE ApiInv'
<1>1. /\ UNCHANGED <<agent, names, links, tables, crashes>> /\ crashes' \in Nat
      /\ backend[b].pc = "columns"
      /\ Works \/ Fault
  BY DEF HaveColumn, At, ApiInv, db
<1>2. PICK c : \/ Become(b, Columned([backend[b] EXCEPT !.cols = @ \ {c}]))
               \/ Become(b, [backend[b] EXCEPT !.pc = "alter"])
  BY DEF HaveColumn
<1>3. MeOK(Columned([backend[b] EXCEPT !.cols = @ \ {c}]), names, tables)
  BY <1>1, TableFacts, ColumnedOK
<1>4. MeOK([backend[b] EXCEPT !.pc = "alter"], names, tables)
  <2> DEFINE nx == [backend[b] EXCEPT !.pc = "alter"]
  <2>1. /\ backend[b] \in States /\ backend[b].table \in DOMAIN backend[b].api.cols
        /\ backend[b].todo \subseteq DOMAIN backend[b].api.cols /\ backend[b].cols \in SUBSET Columns
        /\ backend[b].cols # {} /\ tables[backend[b].table] \subseteq Columns
        /\ \A x \in backend[b].clients : ClientOK(x, names)
    BY <1>1, TableFacts
  <2>2. nx = [backend[b] EXCEPT !.pc = "alter", !.todo = backend[b].todo,
                                !.table = backend[b].table, !.cols = backend[b].cols]
    BY <2>1 DEF States
  <2> HIDE DEF nx
  <2>3. MeOK(nx, names, tables)
    BY <2>1, <2>2, InTables
  <2> QED
    BY <2>3 DEF nx
<1> QED
  BY <1>1, <1>2, <1>3, <1>4, OnlyBecomes

LEMMA AddColumnApi == ASSUME ApiInv, NEW b \in Backends, AddColumn(b) PROVE ApiInv'
<1> DEFINE d == backend[b].table
<1>1. /\ UNCHANGED <<agent, names, links, crashes>> /\ crashes' \in Nat
      /\ backend[b].pc = "alter" /\ faults' \in Nat
  BY DEF AddColumn, At, ApiInv, Works, Fault
<1>2. PICK c : /\ c = CHOOSE x \in backend[b].cols : TRUE
               /\ tables' = tables \/ tables' = [tables EXCEPT ![d] = tables[d] \cup {c}]
               /\ Become(b, Columned([backend[b] EXCEPT !.cols = @ \ {c}]))
  BY DEF AddColumn
<1>3. /\ backend[b].cols # {} /\ backend[b].cols \subseteq Columns
      /\ tables[d] \subseteq Columns /\ d \in Definitions
  BY <1>1, TableFacts
<1>4. c \in Columns
  BY <1>2, <1>3
<1>5. TablesOK(tables') /\ \A x \in Definitions : tables[x] \subseteq Columns => tables'[x] \subseteq Columns
  BY <1>2, <1>3, <1>4 DEF ApiInv, TablesOK
<1>6. MeOK(Columned([backend[b] EXCEPT !.cols = @ \ {c}]), names', tables')
  BY <1>1, <1>3, <1>5, ColumnedOK
<1> QED
  BY <1>1, <1>2, <1>5, <1>6, Becomes DEF ApiInv

LEMMA TablesDoneApi == ASSUME ApiInv, NEW b \in Backends, TablesDone(b) PROVE ApiInv'
<1> DEFINE nx == [backend[b] EXCEPT !.pc = "collect", !.clients = Kept(b), !.table = None]
<1>1. /\ UNCHANGED <<agent, names, links, tables, crashes>> /\ crashes' \in Nat
      /\ Works /\ Become(b, nx)
  BY DEF TablesDone, ApiInv, db, bounds, Works
<1>2. backend[b] \in States /\ \A c \in backend[b].clients : ClientOK(c, names)
  BY DEF ApiInv, MeOK, Sound, Rooted
<1>3. "collect" \in Places /\ Kept(b) \subseteq backend[b].clients
  BY DEF Places, Kept
<1>4. nx \in States /\ nx.pc = "collect" /\ nx.clients = Kept(b)
  BY <1>2, <1>3 DEF States
<1> HIDE DEF nx
<1>5. MeOK(nx, names, tables)
  BY <1>2, <1>3, <1>4 DEF MeOK, Sound, Naming, Tabling, Rooted, FoundIds, Tabled
<1> QED
  BY <1>1, <1>5, OnlyBecomes

LEMMA StepApi == ApiInv /\ [Next]_vars => ApiInv'
<1> SUFFICES ASSUME ApiInv, [Next]_vars PROVE ApiInv'
  OBVIOUS
<1>1. CASE UNCHANGED vars
  BY <1>1 DEF vars, db, bounds, ApiInv
<1>2. CASE AgentChanges
  BY <1>2 DEF AgentChanges, db, ApiInv
<1>3. ASSUME NEW b \in Backends, Crash(b) \/ Update(b) PROVE ApiInv'
  BY <1>3, LifeApi, StartApi, FetchApi, FetchFailsApi, HaveApi, InsertApi, IdentApi, LinkApi,
     HaveTableApi, CreateTableApi, HaveColumnApi, AddColumnApi, TablesDoneApi, CollectedApi DEF Update
<1> QED
  BY <1>1, <1>2, <1>3 DEF Next

LEMMA InitApi == Init => ApiInv
<1> SUFFICES ASSUME Init PROVE ApiInv
  OBVIOUS
<1>1. NamesOK(names)
  BY FS_EmptySet DEF Init, NamesOK
<1>2. TablesOK(tables)
  BY DEF Init, TablesOK
<1> QED
  BY <1>1, <1>2, OffOK DEF Init, ApiInv

LEMMA ApiInvariant == Spec => []ApiInv
BY InitApi, StepApi, PTL DEF Spec

\* Whatever documents the agent serves, and whatever fails: every state is well typed, and
\* no client without a resource id is made (the continue at resid == 0).
THEOREM TypeCorrect == Spec => []TypeOK
<1>1. ApiInv => TypeOK
  BY DEF ApiInv, MeOK, Sound, States, NamesOK, TablesOK, TypeOK
<1> QED
  BY <1>1, ApiInvariant, PTL

\* Backends that find or insert the names of a path, at the same time or not, with any
\* statements failing, agree on its ids: on the owner unless one has none, and on the
\* resource unless c$ressources has it under two data types.
THEOREM IdsAgree == Spec => []SameIds
<1>1. ApiInv => SameIds
  <2> SUFFICES ASSUME ApiInv, NEW b1 \in Backends, NEW b2 \in Backends,
                      NEW c1 \in backend[b1].clients, NEW c2 \in backend[b2].clients, c1.path = c2.path
               PROVE  /\ c1.owner = c2.owner \/ 0 \in {c1.owner, c2.owner}
                      /\ c1.resid = c2.resid \/ (TwoTypes(c1) /\ TwoTypes(c2))
    BY DEF SameIds
  <2>1. ClientOK(c1, names) /\ ClientOK(c2, names) /\ NamesOK(names)
    BY DEF ApiInv, MeOK, Rooted
  <2>2. ASSUME NEW kind \in {"host", "service"}, NEW par, NEW n, NEW i, NEW j,
               IsName(names, kind, par, n, i), IsName(names, kind, par, n, j)
        PROVE  i = j
    BY <2>1, <2>2 DEF IsName, NamesOK
  <2>3. ASSUME c1.owner # 0, c2.owner # 0 PROVE c1.owner = c2.owner
    <3>1. OwnerRow(c1.path, names, c1.owner) /\ OwnerRow(c1.path, names, c2.owner)
      BY <2>1, <2>3 DEF ClientOK
    <3> QED
      BY <2>2, <3>1 DEF OwnerRow
  <2>4. ASSUME c1.resid # c2.resid PROVE TwoTypes(c1) /\ TwoTypes(c2)
    <3>1. PICK r1 \in names : /\ r1.kind = "ressource" /\ r1.parent = 0
                              /\ r1.name = Names[c1.path][1].name /\ r1.id = c1.resid
      BY <2>1 DEF ClientOK, IsName
    <3>2. PICK r2 \in names : /\ r2.kind = "ressource" /\ r2.parent = 0
                              /\ r2.name = Names[c1.path][1].name /\ r2.id = c2.resid
      BY <2>1 DEF ClientOK, IsName
    <3>3. r1.type # r2.type
      BY <2>1, <2>4, <3>1, <3>2 DEF NamesOK
    <3> QED
      BY <3>1, <3>2, <3>3 DEF TwoTypes
  <2> QED
    BY <2>3, <2>4
<1> QED
  BY <1>1, ApiInvariant, PTL

-----------------------------------------------------------------------------
(***************************************************************************)
(* Without a fault: every client is linked, there is one per path, and its *)
(* definition is alive once its path was gone through                      *)
(***************************************************************************)
LinkOf(c) == <<IF Len(Names[c.path]) = 3 THEN "service" ELSE "host", c.owner, c.resid>>

Alive(me, p) == \E c \in me.clients : c.path = p /\ c.fresh

Kin(me, ls) ==
    /\ ~ me.misled
    /\ \A c, d \in me.clients : c.path = d.path => c = d
    /\ \A c \in me.clients : LinkOf(c) \in ls

\* The ids the thread has by now are found, and the paths it has left are alive
Pathing(me) ==
    me.pc \in {"have", "insert", "ident", "link"} =>
        /\ me.step \in {2, 3} => me.ids["ressource"] # 0
        /\ me.step = 3 \/ me.pc = "link" => me.ids["host"] # 0
        /\ me.pc = "link" /\ Len(Names[me.path]) = 3 => me.ids["service"] # 0
        /\ \A p \in DOMAIN me.api.ref \ (me.todo \cup {me.path}) : Alive(me, p)

Named(me) ==
    /\ me.pc \in {"tables", "create", "columns", "alter", "collect"} =>
           \A p \in DOMAIN me.api.ref : Alive(me, p)
    /\ me.pc = "collect" => \A c \in me.clients : c.path \in DOMAIN me.api.ref

Calm(me, ls) == Kin(me, ls) /\ Pathing(me) /\ Named(me)

CalmInv == faults = 0 => \A b \in Backends : Calm(backend[b], links)

\* A step of b without a fault, in which rows are only added to links
LEMMA CalmBecomes ==
    ASSUME ApiInv, CalmInv, NEW b \in Backends, NEW me, Become(b, me), links \subseteq links',
           faults' = 0 => faults = 0 /\ Calm(me, links')
    PROVE  CalmInv'
<1> SUFFICES ASSUME faults' = 0, NEW c \in Backends PROVE Calm(backend'[c], links')
  BY DEF CalmInv
<1>1. CASE c = b
  BY <1>1 DEF Become, ApiInv
<1>2. CASE c # b
  <2>1. backend'[c] = backend[c]
    BY <1>2 DEF Become, ApiInv
  <2>2. Calm(backend[c], links)
    BY DEF CalmInv
  <2>3. Kin(backend[c], links')
    BY <2>2 DEF Calm, Kin
  <2> QED
    BY <2>1, <2>2, <2>3 DEF Calm
<1> QED
  BY <1>1, <1>2

\* A fault is counted, and nothing is ever taken off the count
LEMMA FaultCounts ==
    ASSUME ApiInv, Works \/ Fault
    PROVE  (faults' = 0 => faults = 0) /\ (Fault => faults' # 0)
BY DEF ApiInv, Works, Fault

\* From path to path, and on to the definitions
LEMMA OnwardCalm ==
    ASSUME NEW me \in States, me.todo \subseteq DOMAIN me.api.ref, NEW ls, Kin(me, ls),
           \A p \in DOMAIN me.api.ref \ me.todo : Alive(me, p)
    PROVE  Calm(Onward(me), ls)
<1> DEFINE nx == Onward(me)
<1>1. /\ nx.clients = me.clients /\ nx.api = me.api /\ nx.misled = me.misled
      /\ \/ me.todo = {} /\ nx.pc = "tables"
         \/ /\ nx.pc = "have" /\ nx.step = 1
            /\ me.todo = nx.todo \cup {nx.path}
  BY OnwardFacts
<1> HIDE DEF nx
<1>2. Calm(nx, ls)
  <2>1. Kin(nx, ls)
    BY <1>1 DEF Kin
  <2>2. \A p : Alive(nx, p) <=> Alive(me, p)
    BY <1>1 DEF Alive
  <2>3. CASE me.todo = {} /\ nx.pc = "tables"
    BY <1>1, <2>1, <2>2, <2>3 DEF Calm, Pathing, Named
  <2>4. CASE nx.pc = "have" /\ nx.step = 1 /\ me.todo = nx.todo \cup {nx.path}
    BY <1>1, <2>1, <2>2, <2>4 DEF Calm, Pathing, Named
  <2> QED
    BY <1>1, <2>3, <2>4
<1> QED
  BY <1>2 DEF nx

\* A backend that is off has no client; one that just started, no document
LEMMA IdleCalm ==
    ASSUME NEW me, NEW ls, me.clients = {}, ~ me.misled, me.pc \in {"off", "swagger"}
    PROVE  Calm(me, ls)
BY DEF Calm, Kin, Pathing, Named

LEMMA LifeCalm ==
    ASSUME ApiInv, CalmInv, NEW b \in Backends, Crash(b) \/ IdentDies(b) PROVE CalmInv'
<1>1. Become(b, Off) /\ links' = links /\ faults' = faults
  BY DEF Crash, IdentDies, db, bounds
<1>2. Calm(Off, links')
  BY IdleCalm DEF Off
<1> QED
  BY <1>1, <1>2, CalmBecomes

LEMMA StartCalm ==
    ASSUME ApiInv, CalmInv, NEW b \in Backends, Start(b) PROVE CalmInv'
<1> DEFINE me == [Off EXCEPT !.pc = "swagger"]
<1>1. links' = links /\ (Works \/ Fault)
  BY DEF Start, db
<1>2. me.pc = "swagger" /\ me.clients = {} /\ ~ me.misled
  BY DEF Off
<1> HIDE DEF me
<1>3. Calm(me, links')
  BY <1>2, IdleCalm
<1>4. CASE Works /\ Become(b, me)
  BY <1>1, <1>3, <1>4, CalmBecomes, FaultCounts
<1>5. CASE Fault /\ Become(b, [Off EXCEPT !.pc = "swagger", !.misled = TRUE])
  BY <1>1, <1>5, CalmBecomes, FaultCounts
<1> QED
  BY <1>4, <1>5 DEF Start, me

LEMMA FetchCalm ==
    ASSUME ApiInv, CalmInv, NEW b \in Backends, Fetch(b) PROVE CalmInv'
<1>1. PICK s \in {agent, Empty} :
         /\ IF s = agent THEN Works ELSE Fault
         /\ Become(b, Onward([Parsed(b, s) EXCEPT !.todo = DOMAIN s.ref]))
  BY DEF Fetch
<1>2. s \in Swaggers \cup {Empty} /\ links' = links
  BY DEF Fetch, ApiInv, db
<1> DEFINE me == [Parsed(b, s) EXCEPT !.todo = DOMAIN s.ref]
           old == backend[b].clients
<1>3. DOMAIN s.ref \in SUBSET (Paths \cup Definitions)
  BY <1>2, SwaggerFacts
<1>4. /\ me \in States /\ me.todo = DOMAIN me.api.ref /\ me.misled = backend[b].misled
      /\ me.clients = {[c EXCEPT !.fresh = FALSE] : c \in old}
  BY <1>2, <1>3, ParsedFacts DEF States
<1>5. old \subseteq Clients
  BY DEF ApiInv, MeOK, Sound, States
<1>6. ASSUME NEW ls, Kin(backend[b], ls) PROVE Kin(me, ls)
  <2>1. ASSUME NEW c \in me.clients
        PROVE  \E d \in old : /\ c = [d EXCEPT !.fresh = FALSE] /\ c.path = d.path
                              /\ LinkOf(c) = LinkOf(d)
    <3>1. PICK d \in old : c = [d EXCEPT !.fresh = FALSE]
      BY <1>4
    <3>2. c.path = d.path /\ c.owner = d.owner /\ c.resid = d.resid
      BY <1>5, <3>1 DEF Clients
    <3> QED
      BY <3>1, <3>2 DEF LinkOf
  <2>2. ASSUME NEW c \in me.clients, NEW d \in me.clients, c.path = d.path PROVE c = d
    <3>1. PICK x \in old : c = [x EXCEPT !.fresh = FALSE] /\ c.path = x.path
      BY <2>1
    <3>2. PICK y \in old : d = [y EXCEPT !.fresh = FALSE] /\ d.path = y.path
      BY <2>1
    <3>3. x = y
      BY <1>6, <2>2, <3>1, <3>2 DEF Kin
    <3> QED
      BY <3>1, <3>2, <3>3
  <2>3. \A c \in me.clients : LinkOf(c) \in ls
    BY <1>6, <2>1 DEF Kin
  <2> QED
    BY <1>4, <1>6, <2>2, <2>3 DEF Kin
<1> HIDE DEF me, old
<1>7. faults = 0 => Calm(Onward(me), links)
  BY <1>4, <1>6, OnwardCalm DEF CalmInv, Calm
<1> QED
  BY <1>1, <1>2, <1>7, FaultCounts, CalmBecomes DEF me

\* Without a fault a backend that knows the address gets an answer
LEMMA FetchFailsCalm ==
    ASSUME ApiInv, CalmInv, NEW b \in Backends, FetchFails(b) PROVE CalmInv'
<1>1. /\ IF backend[b].misled THEN Works ELSE Fault
      /\ links' = links /\ \E me : Become(b, me)
  BY DEF FetchFails, db
<1>2. faults = 0 => ~ backend[b].misled
  BY DEF CalmInv, Calm, Kin
<1>3. faults' # 0
  BY <1>1, <1>2, FaultCounts
<1> QED
  BY <1>1, <1>3, CalmBecomes

\* Places of a thread with the same clients and document
LEMMA SameCalm ==
    ASSUME NEW me, NEW ls, NEW nx, Calm(me, ls),
           nx.clients = me.clients, nx.api = me.api, nx.misled = me.misled,
           \/ nx.pc = "swagger"
           \/ /\ me.pc \in {"tables", "create", "columns", "alter"}
              /\ nx.pc \in {"tables", "create", "columns", "alter"}
           \/ /\ me.pc \in {"have", "insert"} /\ nx.pc \in {"insert", "ident"}
              /\ nx.path = me.path /\ nx.step = me.step /\ nx.ids = me.ids /\ nx.todo = me.todo
    PROVE  Calm(nx, ls)
<1>1. Kin(nx, ls)
  BY DEF Calm, Kin
<1>2. \A p : Alive(nx, p) <=> Alive(me, p)
  BY DEF Alive
<1>3. Pathing(nx)
  BY <1>2 DEF Calm, Pathing
<1>4. Named(nx)
  BY <1>2 DEF Calm, Named
<1> QED
  BY <1>1, <1>3, <1>4 DEF Calm

LEMMA CollectedCalm ==
    ASSUME ApiInv, CalmInv, NEW b \in Backends, Collected(b) PROVE CalmInv'
<1> DEFINE nx == [backend[b] EXCEPT !.pc = "swagger"]
<1>1. links' = links /\ faults' = faults /\ Become(b, nx)
  BY DEF Collected, db, bounds
<1>2. backend[b] \in States
  BY DEF ApiInv, MeOK, Sound
<1>3. nx.pc = "swagger" /\ nx.clients = backend[b].clients /\ nx.api = backend[b].api
      /\ nx.misled = backend[b].misled
  BY <1>2 DEF States
<1> HIDE DEF nx
<1>4. faults = 0 => Calm(nx, links)
  BY <1>3, SameCalm DEF CalmInv
<1> QED
  BY <1>1, <1>4, CalmBecomes

\* From one question about a name to the next
LEMMA AskCalm ==
    ASSUME ApiInv, CalmInv, NEW b \in Backends, backend[b].pc \in {"have", "insert"},
           NEW p \in {"insert", "ident"}, Become(b, [backend[b] EXCEPT !.pc = p]),
           links' = links, Works \/ Fault
    PROVE  CalmInv'
<1> DEFINE nx == [backend[b] EXCEPT !.pc = p]
<1>1. backend[b] \in States
  BY DEF ApiInv, MeOK, Sound
<1>2. /\ nx.pc = p /\ nx.clients = backend[b].clients /\ nx.api = backend[b].api
      /\ nx.misled = backend[b].misled /\ nx.path = backend[b].path /\ nx.step = backend[b].step
      /\ nx.ids = backend[b].ids /\ nx.todo = backend[b].todo
  BY <1>1 DEF States
<1>3. Become(b, nx)
  OBVIOUS
<1> HIDE DEF nx
<1>4. faults = 0 => Calm(nx, links)
  BY <1>2, SameCalm DEF CalmInv
<1> QED
  BY <1>3, <1>4, CalmBecomes, FaultCounts

LEMMA HaveCalm == ASSUME ApiInv, CalmInv, NEW b \in Backends, Have(b) PROVE CalmInv'
<1>1. links' = links /\ (Works \/ Fault) /\ backend[b].pc = "have"
  BY DEF Have, At, db
<1>2. PICK p \in {"insert", "ident"} : Become(b, [backend[b] EXCEPT !.pc = p])
  BY DEF Have
<1> QED
  BY <1>1, <1>2, AskCalm

LEMMA InsertCalm == ASSUME ApiInv, CalmInv, NEW b \in Backends, Insert(b) PROVE CalmInv'
<1>1. /\ links' = links /\ (Works \/ Fault) /\ backend[b].pc = "insert"
      /\ Become(b, [backend[b] EXCEPT !.pc = "ident"])
  BY DEF Insert, At
<1> QED
  BY <1>1, AskCalm

\* get...(): without a fault the id is that of a row, so no path is left early
LEMMA IdentifiedCalm ==
    ASSUME ApiInv, NEW b \in Backends, backend[b].pc = "ident", NEW ls, Calm(backend[b], ls),
           NEW id \in Nat \ {0}
    PROVE  Calm(Identified(b, id), ls)
<1> DEFINE old == backend[b]
           kind == Name(b).kind
           ids == [old.ids EXCEPT ![kind] = id]
           me  == [old EXCEPT !.ids = ids]
<1>1. /\ old \in States /\ old.path \in Paths /\ old.ids \in [Kinds -> Nat] /\ kind \in Kinds
      /\ old.step \in 1..Len(Names[old.path])
      /\ Len(Names[old.path]) \in {2, 3}
  BY HandFacts, KindFacts, PathFacts DEF States
<1>2. ids \in [Kinds -> Nat] /\ ids[kind] = id /\ \A k \in Kinds \ {kind} : ids[k] = old.ids[k]
  BY <1>1
<1>3. \/ old.step = 1 /\ kind = "ressource"
      \/ old.step = 2 /\ kind = "host"
      \/ old.step = 3 /\ kind = "service" /\ Len(Names[old.path]) = 3
  BY HandFacts
<1>4. /\ old.step \in {2, 3} => old.ids["ressource"] # 0
      /\ old.step = 3 => old.ids["host"] # 0
      /\ \A p \in DOMAIN old.api.ref \ (old.todo \cup {old.path}) : Alive(old, p)
  BY DEF Calm, Pathing
<1>5. /\ ids["ressource"] # 0
      /\ old.step \in {2, 3} => ids["host"] # 0
      /\ old.step = 3 => ids["service"] # 0
  BY <1>2, <1>3, <1>4, KindFacts
<1>6. ~ Leaves(b, ids)
  BY <1>5 DEF Leaves
<1>7. Identified(b, id) =
        IF me.step = Len(Names[me.path]) THEN [me EXCEPT !.pc = "link"]
        ELSE [me EXCEPT !.pc = "have", !.step = @ + 1]
  BY <1>6 DEF Identified
<1> HIDE DEF ids, kind
<1>8. /\ me \in States /\ me.ids = ids /\ me.path = old.path /\ me.step = old.step
      /\ me.todo = old.todo /\ me.api = old.api /\ me.clients = old.clients /\ me.misled = old.misled
  BY <1>1, <1>2 DEF States
<1> HIDE DEF me
<1>9. CASE me.step = Len(Names[me.path])
  <2> DEFINE nx == [me EXCEPT !.pc = "link"]
  <2>1. /\ nx.pc = "link" /\ nx.ids = ids /\ nx.path = old.path /\ nx.step = old.step
        /\ nx.todo = old.todo /\ nx.api = old.api /\ nx.clients = old.clients /\ nx.misled = old.misled
    BY <1>8 DEF States
  <2>2. old.step = Len(Names[old.path])
    BY <1>8, <1>9
  <2> HIDE DEF nx
  <2>3. Kin(nx, ls) /\ Named(nx)
    BY <2>1 DEF Calm, Kin, Named
  <2>4. Pathing(nx)
    BY <1>1, <1>4, <1>5, <2>1, <2>2 DEF Pathing, Alive
  <2> QED
    BY <1>7, <1>9, <2>3, <2>4 DEF Calm, nx
<1>10. CASE me.step # Len(Names[me.path])
  <2> DEFINE nx == [me EXCEPT !.pc = "have", !.step = @ + 1]
  <2>1. /\ nx.pc = "have" /\ nx.ids = ids /\ nx.path = old.path /\ nx.step = old.step + 1
        /\ nx.todo = old.todo /\ nx.api = old.api /\ nx.clients = old.clients /\ nx.misled = old.misled
    BY <1>8 DEF States
  <2> HIDE DEF nx
  <2>2. Kin(nx, ls) /\ Named(nx)
    BY <2>1 DEF Calm, Kin, Named
  <2>3. Pathing(nx)
    BY <1>1, <1>3, <1>4, <1>5, <2>1 DEF Pathing, Alive
  <2> QED
    BY <1>7, <1>10, <2>2, <2>3 DEF Calm, nx
<1> QED
  BY <1>9, <1>10

LEMMA IdentCalm == ASSUME ApiInv, CalmInv, NEW b \in Backends, Ident(b) PROVE CalmInv'
<1>1. links' = links /\ backend[b].pc = "ident"
  BY DEF Ident, At, db
<1>2. CASE Works /\ \E r \in Matches(b) : Become(b, Identified(b, r.id))
  <2>1. PICK r \in Matches(b) : Become(b, Identified(b, r.id))
    BY <1>2
  <2>2. r.id \in Nat \ {0}
    <3>1. Cardinality(names) \in Nat
      BY FS_CardinalityType DEF ApiInv, NamesOK
    <3>2. r.id \in 1..Cardinality(names)
      BY DEF Matches, ApiInv, NamesOK
    <3> QED
      BY <3>1, <3>2
  <2>3. faults = 0 => Calm(Identified(b, r.id), links)
    BY <1>1, <2>2, IdentifiedCalm DEF CalmInv
  <2> QED
    BY <1>1, <1>2, <2>1, <2>3, CalmBecomes, FaultCounts
<1>3. CASE Fault /\ Become(b, Identified(b, 0))
  BY <1>1, <1>3, CalmBecomes, FaultCounts
<1> QED
  BY <1>2, <1>3 DEF Ident

\* The client of the path in hand, the one there was or a new one, is linked
LEMMA UpdatedCalm ==
    ASSUME ApiInv, NEW b \in Backends, backend[b].pc = "link", Calm(backend[b], links),
           NEW cs, cs = (backend[b].clients \ Mine(b)) \cup Updated(b)
    PROVE  /\ \A c, d \in cs : c.path = d.path => c = d
           /\ \A c \in cs : LinkOf(c) \in links \cup {LinkRow(b)}
<1> DEFINE old == backend[b].clients
           up(c) == [c EXCEPT !.cols = New(b).cols, !.fresh = TRUE]
<1>1. /\ old \subseteq Clients
      /\ \A c, d \in old : c.path = d.path => c = d
      /\ \A c \in old : LinkOf(c) \in links
  BY DEF ApiInv, MeOK, Sound, States, Calm, Kin
<1>2. \A c \in old \ Mine(b) : c.path # backend[b].path
  BY DEF Mine
<1>3. \A c \in Updated(b) : c.path = backend[b].path
  BY UpdatedFacts
<1>4. CASE Mine(b) = {}
  <2>1. Updated(b) = {New(b)}
    BY <1>4 DEF Updated
  <2>2. LinkOf(New(b)) = LinkRow(b)
    BY DEF LinkOf, New, LinkRow, Owner
  <2> QED
    BY <1>1, <1>2, <1>3, <2>1, <2>2
<1>5. CASE Mine(b) # {}
  <2>1. PICK m \in old : Mine(b) = {m}
    BY <1>1, <1>5 DEF Mine
  <2>2. Updated(b) = {up(m)}
    BY <1>5, <2>1 DEF Updated
  <2>3. up(m).path = m.path /\ up(m).owner = m.owner /\ up(m).resid = m.resid
    BY <1>1, <2>1 DEF Clients
  <2> HIDE DEF up
  <2>4. LinkOf(up(m)) = LinkOf(m)
    BY <2>3 DEF LinkOf
  <2> QED
    BY <1>1, <1>2, <1>3, <2>1, <2>2, <2>4
<1> QED
  BY <1>4, <1>5

LEMMA LinkCalm == ASSUME ApiInv, CalmInv, NEW b \in Backends, Link(b) PROVE CalmInv'
<1>1. /\ backend[b].pc = "link" /\ (Works \/ Fault)
      /\ \/ Works /\ links' = IF OwnerId(b) = 0 THEN links ELSE links \cup {LinkRow(b)}
         \/ Fault /\ links' = links
  BY DEF Link, At
<1>2. PICK cs, me : /\ cs = (backend[b].clients \ Mine(b)) \cup Updated(b)
                    /\ me = [backend[b] EXCEPT !.clients = cs]
                    /\ Become(b, Onward(me))
  BY DEF Link
<1>3. links \subseteq links'
  BY <1>1
<1>4. /\ me \in States /\ me.todo \subseteq DOMAIN me.api.ref /\ me.clients = cs
      /\ me.api = backend[b].api /\ me.todo = backend[b].todo /\ me.misled = backend[b].misled
  BY <1>2, <1>1, LinkedFacts
<1>5. ASSUME faults' = 0 PROVE faults = 0 /\ Calm(Onward(me), links')
  <2>1. faults = 0 /\ Works
    BY <1>1, <1>5, FaultCounts
  <2>2. Calm(backend[b], links)
    BY <2>1 DEF CalmInv
  <2>3. OwnerId(b) # 0
    BY <1>1, <2>2 DEF Calm, Pathing, OwnerId, Owner
  <2>4. links' = links \cup {LinkRow(b)}
    BY <1>1, <1>5, <2>3, FaultCounts
  <2>5. Kin(me, links')
    <3>1. /\ \A c, d \in cs : c.path = d.path => c = d
          /\ \A c \in cs : LinkOf(c) \in links'
      BY <1>1, <2>2, <2>4, <1>2, UpdatedCalm
    <3> QED
      BY <1>4, <2>2, <3>1 DEF Calm, Kin
  <2>6. ASSUME NEW p \in DOMAIN me.api.ref \ me.todo PROVE Alive(me, p)
    <3>1. CASE p = backend[b].path
      <4>1. PICK c \in Updated(b) : c.path = p /\ c.fresh
        BY <1>1, <3>1, UpdatedFacts
      <4> QED
        BY <1>2, <1>4, <4>1 DEF Alive
    <3>2. CASE p # backend[b].path
      <4>1. PICK c \in backend[b].clients : c.path = p /\ c.fresh
        BY <1>1, <1>4, <2>2, <2>6, <3>2 DEF Calm, Pathing, Alive
      <4>2. c \notin Mine(b)
        BY <3>2, <4>1 DEF Mine
      <4> QED
        BY <1>2, <1>4, <4>1, <4>2 DEF Alive
    <3> QED
      BY <3>1, <3>2
  <2> QED
    BY <1>4, <2>1, <2>5, <2>6, OnwardCalm
<1> QED
  BY <1>2, <1>1, <1>3, <1>5, CalmBecomes

\* Steps of createTables
LEMMA TablesCalm ==
    ASSUME ApiInv, CalmInv, NEW b \in Backends,
           backend[b].pc \in {"tables", "create", "columns", "alter"},
           NEW nx, Become(b, nx), nx.pc \in {"tables", "create", "columns", "alter"},
           nx.clients = backend[b].clients, nx.api = backend[b].api,
           nx.misled = backend[b].misled,
           links' = links, Works \/ Fault
    PROVE  CalmInv'
<1>1. faults = 0 => Calm(nx, links)
  BY SameCalm DEF CalmInv
<1> QED
  BY <1>1, CalmBecomes, FaultCounts

LEMMA HaveTableCalm == ASSUME ApiInv, CalmInv, NEW b \in Backends, HaveTable(b) PROVE CalmInv'
<1>1. links' = links /\ (Works \/ Fault) /\ backend[b].pc = "tables" /\ backend[b] \in States
  BY DEF HaveTable, At, db, ApiInv, MeOK, Sound
<1>2. PICK d, nx : /\ Become(b, nx)
                   /\ \E p \in {"tables", "create", "columns"} :
                         nx = [[backend[b] EXCEPT !.todo = @ \ {d}, !.table = d,
                                                  !.cols = backend[b].api.cols[d]] EXCEPT !.pc = p]
  BY DEF HaveTable, Columned
<1>3. /\ nx.pc \in {"tables", "create", "columns"} /\ nx.clients = backend[b].clients
      /\ nx.api = backend[b].api /\ nx.misled = backend[b].misled
  BY <1>1, <1>2 DEF States
<1> QED
  BY <1>1, <1>2, <1>3, TablesCalm

LEMMA ColumnsCalm ==
    ASSUME ApiInv, CalmInv, NEW b \in Backends, CreateTable(b) \/ HaveColumn(b) \/ AddColumn(b)
    PROVE  CalmInv'
<1>1. /\ links' = links /\ (Works \/ Fault)
      /\ backend[b].pc \in {"tables", "create", "columns", "alter"} /\ backend[b] \in States
  BY DEF CreateTable, HaveColumn, AddColumn, At, db, ApiInv, MeOK, Sound
<1>2. PICK nx : /\ Become(b, nx)
                /\ \/ nx = [backend[b] EXCEPT !.pc = "tables", !.cols = {}]
                   \/ \E c : nx = Columned([backend[b] EXCEPT !.cols = @ \ {c}])
                   \/ nx = [backend[b] EXCEPT !.pc = "alter"]
  BY DEF CreateTable, HaveColumn, AddColumn
<1>3. /\ nx.pc \in {"tables", "columns", "alter"} /\ nx.clients = backend[b].clients
      /\ nx.api = backend[b].api /\ nx.misled = backend[b].misled
  <2>1. PICK o \in States : o = backend[b]
    BY <1>1
  <2>2. CASE nx = [o EXCEPT !.pc = "tables", !.cols = {}]
    BY <2>1, <2>2 DEF States
  <2>3. CASE \E c : nx = Columned([o EXCEPT !.cols = @ \ {c}])
    BY <2>1, <2>3 DEF States, Columned
  <2>4. CASE nx = [o EXCEPT !.pc = "alter"]
    BY <2>1, <2>4 DEF States
  <2> QED
    BY <1>2, <2>1, <2>2, <2>3, <2>4
<1> QED
  BY <1>1, <1>2, <1>3, TablesCalm

LEMMA TablesDoneCalm == ASSUME ApiInv, CalmInv, NEW b \in Backends, TablesDone(b) PROVE CalmInv'
<1> DEFINE old == backend[b]
           nx == [old EXCEPT !.pc = "collect", !.clients = Kept(b), !.table = None]
<1>1. /\ links' = links /\ faults' = faults /\ old.pc = "tables"
      /\ Become(b, nx)
  BY DEF TablesDone, At, db, bounds
<1>2. old \in States
  BY DEF ApiInv, MeOK, Sound
<1>3. /\ nx.pc = "collect" /\ nx.clients = Kept(b) /\ nx.api = old.api /\ nx.misled = old.misled
  BY <1>2 DEF States
<1>4. Kept(b) = {c \in old.clients : c.path \in DOMAIN old.api.ref}
  BY DEF Kept
<1> HIDE DEF nx, old
<1>5. ASSUME faults = 0 PROVE Calm(nx, links)
  <2>1. Calm(old, links)
    BY <1>5 DEF CalmInv, old
  <2>2. Kin(nx, links)
    BY <1>3, <1>4, <2>1 DEF Calm, Kin
  <2>3. \A p \in DOMAIN nx.api.ref : Alive(nx, p)
    BY <1>1, <1>3, <1>4, <2>1 DEF Calm, Named, Alive
  <2> QED
    BY <1>3, <1>4, <2>2, <2>3 DEF Calm, Pathing, Named
<1> QED
  BY <1>1, <1>5, CalmBecomes

LEMMA StepCalm == ApiInv /\ CalmInv /\ [Next]_vars => CalmInv'
<1> SUFFICES ASSUME ApiInv, CalmInv, [Next]_vars PROVE CalmInv'
  OBVIOUS
<1>1. CASE UNCHANGED vars
  BY <1>1 DEF vars, db, bounds, CalmInv
<1>2. CASE AgentChanges
  BY <1>2 DEF AgentChanges, db, CalmInv
<1>3. ASSUME NEW b \in Backends, Crash(b) \/ Update(b) PROVE CalmInv'
  BY <1>3, LifeCalm, StartCalm, FetchCalm, FetchFailsCalm, HaveCalm, InsertCalm, IdentCalm, LinkCalm,
     HaveTableCalm, ColumnsCalm, TablesDoneCalm, CollectedCalm DEF Update
<1> QED
  BY <1>1, <1>2, <1>3 DEF Next

LEMMA CalmInvariant == Spec => []CalmInv
<1>1. Init => CalmInv
  BY IdleCalm DEF Init, CalmInv, Off
<1> QED
  BY <1>1, ApiInvariant, StepCalm, PTL DEF Spec

\* Without a fault, whatever updates of other backends, crashes and new documents come in
\* between: each client has the row of h$ressources or s$ressources its data is tied to.
THEOREM ClientsLinked == Spec => []Linked
<1>1. CalmInv => Linked
  BY DEF CalmInv, Calm, Kin, LinkOf, Linked
<1> QED
  BY <1>1, CalmInvariant, PTL

\* Without a fault, when a collect reads the definitions of its resources: none of them is
\* in a document that updateApi parsed over, and there is one client for each path of the
\* document and no other.
THEOREM DefinitionsAlive ==
    ASSUME IsFiniteSet(Paths)
    PROVE  Spec => []DefsAlive
<1>1. ApiInv /\ CalmInv => DefsAlive
  <2> SUFFICES ASSUME ApiInv, CalmInv, faults = 0, NEW b \in Backends, At(b, "collect")
               PROVE  LET me == backend[b] IN
                      /\ \A c \in me.clients : c.fresh
                      /\ {c.path : c \in me.clients} = DOMAIN me.api.ref
                      /\ Cardinality(me.clients) = Cardinality(DOMAIN me.api.ref)
    BY DEF DefsAlive
  <2> DEFINE me == backend[b]
             R  == DOMAIN me.api.ref
  <2>1. /\ \A c, d \in me.clients : c.path = d.path => c = d
        /\ \A p \in R : \E c \in me.clients : c.path = p /\ c.fresh
        /\ \A c \in me.clients : c.path \in R
    BY DEF CalmInv, Calm, Kin, Named, Alive, At
  <2>2. IsFiniteSet(R)
    <3>1. me.api \in Swaggers \cup {Empty}
      BY DEF ApiInv, MeOK, Sound, States
    <3> QED
      BY <3>1, SwaggerFacts, FS_Subset
  <2> HIDE DEF me, R
  <2>3. Cardinality(me.clients) = Cardinality(R)
    <3> DEFINE f == [c \in me.clients |-> c.path]
    <3>1. f \in Injection(me.clients, R) /\ f \in Surjection(me.clients, R)
      BY <2>1 DEF Injection, Surjection, IsInjective
    <3> QED
      BY <2>2, <3>1, FS_Injection
  <2> QED
    BY <2>1, <2>3 DEF me, R
<1> QED
  BY <1>1, ApiInvariant, CalmInvariant, PTL
=============================================================================
