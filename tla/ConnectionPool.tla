--------------------------- MODULE ConnectionPool ---------------------------
(***************************************************************************)
(* The threads of one backend process and the database connections they    *)
(* share: the counter and the pool of dbPool, the connection a dbTools     *)
(* object keeps between grab() and release(), and the calls that the main  *)
(* thread, the agent threads and the aggregator make to them.              *)
(*                                                                         *)
(* A thread is at a place of its own program, or at a step of grab() or    *)
(* release(); call[t] then says for which object, and where it returns to. *)
(* A process that dies is replaced by a new one (watched.back.service).    *)
(***************************************************************************)
EXTENDS Integers, FiniteSets

CONSTANTS
    Agents,    \* rows of c$agents
    Conns,     \* names for open connections, enough of them
    None,      \* no connection (NULL), no agent
    PoolSize,  \* db.pool_size
    Wrap,      \* usedCount is unsigned: it counts modulo this
    MaxMishaps \* bound: connections the server drops or refuses, and updates of
               \* usedCount another thread comes between

ASSUME PoolAssumption ==
    /\ {PoolSize, MaxMishaps} \subseteq Nat
    /\ Wrap \in Nat /\ Wrap > PoolSize + 1
    /\ Conns \subseteq Nat /\ None \notin Conns \cup Agents
    /\ Agents \cap {"main", "aggregator", "manager", "alerter"} = {}

\* dbTools objects that keep a connection.  A ressourceClient works on its
\* agentClient's; alerter plugins do not use theirs.
Objects == Agents \cup {"manager", "aggregator", "alerter"}
Threads == Agents \cup {"main", "aggregator"}

VARIABLES
    usedCount,  \* dbPool::usedCount
    used,       \* mysqlpp::ConnectionPool: the connections in use
    db,         \* dbTools::db of each object
    pc,         \* place of each thread
    call,       \* the call a thread is in
    reg,        \* the counter as a thread loaded it, before it stores
    known,      \* agentManager::agents
    ready,      \* agentClient::ready of each
    agent,      \* the agent updateAgents is initialising
    races,      \* updates of usedCount made in two steps
    leaked,     \* ghost: calls of grab() that counted and got no connection
    losses      \* connections dropped or refused, in all processes

pool == <<usedCount, used, leaked, losses>>
counter == <<reg, races>>
manager == <<known, ready, agent>>
vars == <<pool, db, pc, call, counter, manager>>

Places == {"off", "boot", "connect", "agents", "swagger", "beat", "start", "sleep",
           "api", "collect", "work"}
GrabSteps == {"wait", "count", "count2", "take"}
ReleaseSteps == {"put", "uncount", "uncount2"}

NoCall == [obj |-> "manager", next |-> "off"]

TypeOK ==
    /\ usedCount \in 0..(Wrap - 1)
    /\ used \subseteq Conns
    /\ db \in [Objects -> Conns \cup {None}]
    /\ pc \in [Threads -> Places \cup GrabSteps \cup ReleaseSteps]
    /\ call \in [Threads -> [obj : Objects, next : Places]]
    /\ reg \in [Threads -> 0..(Wrap - 1)]
    /\ known \subseteq Agents /\ ready \subseteq known /\ agent \in Agents \cup {None}
    /\ races \in 0..MaxMishaps /\ losses \in 0..MaxMishaps /\ leaked \in 0..losses

NobodyHas == [o \in Objects |-> None]
MainOnly  == [t \in Threads |-> IF t = "main" THEN "boot" ELSE "off"]
NoCalls   == [t \in Threads |-> NoCall]
Zeros     == [t \in Threads |-> 0]

Init ==
    /\ usedCount = 0 /\ used = {} /\ leaked = 0 /\ losses = 0
    /\ db = NobodyHas
    /\ pc = MainOnly /\ call = NoCalls
    /\ reg = Zeros /\ races = 0
    /\ known = {} /\ ready = {} /\ agent = None

\* The process ends, its connections with it, and the next one starts
Restart ==
    /\ usedCount' = 0 /\ used' = {} /\ leaked' = 0
    /\ db' = NobodyHas
    /\ pc' = MainOnly /\ call' = NoCalls
    /\ reg' = Zeros /\ races' = 0
    /\ known' = {} /\ ready' = {} /\ agent' = None

Goto(t, p) == pc' = [pc EXCEPT ![t] = p]

Call(t, o, p, step) ==
    /\ Goto(t, step)
    /\ call' = [call EXCEPT ![t] = [obj |-> o, next |-> p]]

Return(t) ==
    /\ Goto(t, call[t].next)
    /\ call' = [call EXCEPT ![t] = NoCall]

(***************************************************************************)
(* dbTools::grab and dbPool::grab                                          *)
(***************************************************************************)
\* Deviation: the connection kept in db is not looked at
GrabAgain(t, o, p) == Call(t, o, p, "wait")

\* Grab for o, then go on at p.  An object that has a connection keeps it.
Grab(t, o, p) ==
    \/ db[o] # None /\ Goto(t, p) /\ UNCHANGED call
    \/ db[o] = None /\ Call(t, o, p, "wait")

\* Deviation: no more than pool_size
RoomBelow == usedCount < PoolSize

\* while (usedCount > poolSize) sleep
Room == usedCount <= PoolSize

Wait(t) ==
    /\ pc[t] = "wait" /\ Room
    /\ Goto(t, "count")
    /\ UNCHANGED <<pool, db, call, counter, manager>>

\* usedCount is an unsigned int
Plus(n) == (n + 1) % Wrap

Minus(n) == (n - 1) % Wrap

\* Between the load and the store of ++ or --
Preempted(t, step) ==
    /\ races + losses < MaxMishaps /\ races' = races + 1
    /\ reg' = [reg EXCEPT ![t] = usedCount]
    /\ Goto(t, step)
    /\ UNCHANGED usedCount

\* ++usedCount, a load and a store with no lock: another thread may come between
CountUp(t) ==
    /\ \/ /\ pc[t] = "count"
          /\ usedCount' = Plus(usedCount)
          /\ Goto(t, "take")
          /\ UNCHANGED counter
       \/ pc[t] = "count" /\ Preempted(t, "count2")
       \/ /\ pc[t] = "count2"
          /\ usedCount' = Plus(reg[t])
          /\ reg' = [reg EXCEPT ![t] = 0]
          /\ Goto(t, "take")
          /\ UNCHANGED races
    /\ UNCHANGED <<used, leaked, losses, db, call, manager>>

\* mysqlpp::ConnectionPool::grab, under its mutex, hands out an idle connection or a
\* new one: the idle ones are not told apart from those yet to be made
Handed == {c \in Conns \ used : \A d \in Conns \ used : c <= d}

\* safe_grab() pings what it gets, and dbTools::grab keeps it in db, over
\* whatever another thread has put there meanwhile
Take(t) ==
    /\ pc[t] = "take"
    /\ \E c \in Handed : used' = used \cup {c} /\ db' = [db EXCEPT ![call[t].obj] = c]
    /\ Return(t)
    /\ UNCHANGED <<usedCount, leaked, losses, counter, manager>>

Loss == races + losses < MaxMishaps /\ losses' = losses + 1

\* The server has closed it (wait_timeout, restart): a connection that does not
\* answer is removed, and grab() starts again; what it counted stays counted
TakeDead(t) ==
    /\ pc[t] = "take"
    /\ Loss /\ leaked' = leaked + 1
    /\ Goto(t, "wait")
    /\ UNCHANGED <<usedCount, used, db, call, counter, manager>>

\* create() cannot connect and throws, when grab() has counted.  updateAgents catches
\* that around init(): the agent is in the map and not ready, the rest of the list is
\* left for the next turn.
Initialising(t) == t = "main" /\ call[t].next = "swagger"

InitRefused(t) ==
    /\ pc[t] = "take" /\ Initialising(t)
    /\ Loss /\ leaked' = leaked + 1
    /\ Goto(t, "beat") /\ call' = [call EXCEPT ![t] = NoCall]
    /\ agent' = None
    /\ UNCHANGED <<usedCount, used, db, counter, known, ready>>

\* Nobody else does, neither main() nor the threads: std::terminate
Refused(t) ==
    /\ pc[t] = "take" /\ ~ Initialising(t)
    /\ Loss /\ Restart

(***************************************************************************)
(* dbTools::release and dbPool::release                                    *)
(***************************************************************************)
\* Deviation: no test for NULL
ReleaseAny(t, o, p) == Call(t, o, p, "put")

Release(t, o, p) ==
    \/ db[o] = None /\ Goto(t, p) /\ UNCHANGED call
    \/ db[o] # None /\ Call(t, o, p, "put")

Put(t) ==
    /\ pc[t] = "put"
    /\ used' = used \ {db[call[t].obj]}
    /\ Goto(t, "uncount")
    /\ UNCHANGED <<usedCount, leaked, losses, db, call, counter, manager>>

\* Deviation: db still points to the connection
KeepPointer(t) == UNCHANGED db

ForgetPointer(t) == db' = [db EXCEPT ![call[t].obj] = None]

\* --usedCount, then db = NULL, which only this thread looks at
CountDown(t) ==
    /\ \/ /\ pc[t] = "uncount"
          /\ usedCount' = Minus(usedCount)
          /\ ForgetPointer(t)
          /\ Return(t)
          /\ UNCHANGED counter
       \/ /\ pc[t] = "uncount"
          /\ Preempted(t, "uncount2")
          /\ UNCHANGED <<db, call>>
       \/ /\ pc[t] = "uncount2"
          /\ usedCount' = Minus(reg[t])
          /\ reg' = [reg EXCEPT ![t] = 0]
          /\ ForgetPointer(t)
          /\ Return(t)
          /\ UNCHANGED races
    /\ UNCHANGED <<used, leaked, losses, manager>>

PoolStep(t) ==
    \/ Wait(t) \/ CountUp(t) \/ Take(t) \/ TakeDead(t) \/ InitRefused(t) \/ Refused(t)
    \/ Put(t) \/ CountDown(t)

(***************************************************************************)
(* main() and agentManager                                                 *)
(***************************************************************************)
\* The alerterManager registers each plugin it finds, if any, in the database when
\* it is built, and keeps the connection for good
Boot ==
    /\ pc["main"] = "boot"
    /\ Grab("main", "alerter", "connect") \/ (Goto("main", "connect") /\ UNCHANGED call)
    /\ UNCHANGED <<pool, db, counter, manager>>

\* agentManager::init (getBackend), then updateAgents every pool_freq seconds
Connect ==
    /\ pc["main"] \in {"connect", "sleep"}
    /\ Grab("main", "manager", "agents")
    /\ UNCHANGED <<pool, db, counter, manager>>

\* A new agent: agentClient::init, while the manager keeps its own connection
InitAgent ==
    /\ pc["main"] = "agents"
    /\ \E a \in Agents \ known :
          /\ known' = known \cup {a}
          /\ agent' = a
          /\ Grab("main", a, "swagger")
    /\ UNCHANGED <<pool, db, counter, ready>>

\* agentClient::updateApi: when the agent does not answer it returns early, and
\* its connection is not released
Swagger(t, a, p) ==
    \/ Release(t, a, p)
    \/ Goto(t, p) /\ UNCHANGED call

InitSwagger ==
    /\ pc["main"] = "swagger"
    /\ Swagger("main", agent, "agents")
    /\ ready' = ready \cup {agent}
    /\ agent' = None
    /\ UNCHANGED <<pool, db, counter, known>>

\* No new agent is left, or one has thrown: the heartbeat, then release()
EndUpdate ==
    /\ pc["main"] = "beat" \/ (pc["main"] = "agents" /\ known = Agents)
    /\ Release("main", "manager", "start")
    /\ UNCHANGED <<pool, db, counter, manager>>

\* Those that are ready and have no thread get one; the others never do
StartThreads ==
    /\ pc["main"] = "start"
    /\ pc' = [t \in Threads |->
                IF t \in ready \cup {"main", "aggregator"} /\ pc[t] \in {"off", "start"}
                THEN "sleep" ELSE pc[t]]
    /\ UNCHANGED <<pool, db, call, counter, manager>>

Main == Boot \/ Connect \/ InitAgent \/ InitSwagger \/ EndUpdate \/ StartThreads

(***************************************************************************)
(* The thread of an agent: every sixth turn updateApi, then collect        *)
(***************************************************************************)
AgentWakes(a) ==
    /\ pc[a] = "sleep"
    /\ \/ Grab(a, a, "api")
       \/ Goto(a, "collect") /\ UNCHANGED call
    /\ UNCHANGED <<pool, db, counter, manager>>

AgentApi(a) ==
    /\ pc[a] = "api"
    /\ Swagger(a, a, "collect")
    /\ UNCHANGED <<pool, db, counter, manager>>

\* collect() grabs once the agent has answered; the loop releases either way
AgentCollects(a) ==
    /\ pc[a] = "collect"
    /\ Grab(a, a, "work") \/ Release(a, a, "sleep")
    /\ UNCHANGED <<pool, db, counter, manager>>

\* An event: the alerterManager, shared by all threads, grabs for itself
AgentAlerts(a) ==
    /\ pc[a] = "work"
    /\ Grab(a, "alerter", "work")
    /\ UNCHANGED <<pool, db, counter, manager>>

AgentDone(a) ==
    /\ pc[a] = "work"
    /\ Release(a, a, "sleep")
    /\ UNCHANGED <<pool, db, counter, manager>>

Agent(a) ==
    AgentWakes(a) \/ AgentApi(a) \/ AgentCollects(a) \/ AgentAlerts(a) \/ AgentDone(a)

Aggregator ==
    /\ \/ pc["aggregator"] = "sleep" /\ Grab("aggregator", "aggregator", "work")
       \/ pc["aggregator"] = "work" /\ Release("aggregator", "aggregator", "sleep")
    /\ UNCHANGED <<pool, db, counter, manager>>

Thread(t) ==
    \/ PoolStep(t)
    \/ t = "main" /\ Main
    \/ t \in Agents /\ Agent(t)
    \/ t = "aggregator" /\ Aggregator

Next == \E t \in Threads : Thread(t)

Spec == Init /\ [][Next]_vars

\* Every thread is scheduled, and the one that polls the counter every second in
\* grab() sees one of the low values if there are low values again and again
FairSpec == Spec /\ \A t \in Threads : WF_vars(Thread(t)) /\ SF_vars(Wait(t))

-----------------------------------------------------------------------------
(***************************************************************************)
(* Properties                                                              *)
(***************************************************************************)
At(places) == {t \in Threads : pc[t] \in places}

\* The connection o works on.  Between the return to the pool and db = NULL the
\* pointer is still there, but its owner is in release().
Held(o) ==
    IF \E t \in At({"uncount", "uncount2"}) : call[t].obj = o THEN None ELSE db[o]

\* A connection an object works on is in use in the pool and is no other
\* object's: mysql++ connections are not thread safe, and the pool would give an
\* idle one to the next thread that asks.
Exclusive ==
    \A o \in Objects : Held(o) # None =>
        /\ Held(o) \in used
        /\ \A other \in Objects : Held(other) = Held(o) => other = o

\* What the pool is to its users: each object a borrower, the alerterManager the one
\* that threads share
Leases == INSTANCE ConnectionLeases WITH
    Borrowers <- Objects, Shared <- {"alerter"}, Connections <- Conns, Nothing <- None,
    lease <- [o \in Objects |-> Held(o)], lent <- used

\* Together dbTools::grab() and release() are a pool that lends: an object keeps its
\* connection until it is released, nobody else is given it meanwhile, and only the
\* alerterManager may be handed another one in between.
ImplementsLeases == Leases!Spec

\* As long as no update of usedCount was torn, it is the number of connections in
\* use, with the threads that have counted and not yet taken, or put back and not
\* yet uncounted, plus one for every dead connection removed and every connection
\* refused to an agent that was to be initialised: those count until the process ends.
CountExplained ==
    races = 0 =>
        usedCount = Cardinality(used) + Cardinality(At({"take", "uncount"})) + leaked

\* A connection that is in use although no object has it is lost for good.  That
\* happens when threads race to be the alerterManager's first user, so at most
\* once for each agent thread but one.
Lost == {c \in used : \A o \in Objects : db[o] # c}
LostOnlyInRace == Cardinality(Lost) < Cardinality(Agents)

\* An agent whose connection was refused is never started
Unready(t) == t \in known \ (ready \cup {agent})

\* The counts a release() is going to take back, in a moment or in the next turn
Returning == Cardinality({o \in Objects \ {"alerter"} : Held(o) # None})
             + Cardinality(At({"take", "uncount", "uncount2"}))

\* What is left of pool_size beside the counts that stay (the alerterManager's, leaked
\* ones, those of torn updates) is less than the agents
Tight == usedCount - Returning + Cardinality(Agents) > PoolSize

\* README.md:29: "Collect the agents data and store that in a Mysql database".
\* Each thread comes round again and again, although they hold their connections while
\* they wait for the alerterManager's or, main, for a new agent's (alerter.cpp:115,
\* agentManager.cpp:66), unless the counts that stay leave less than one for each agent.
LoopsTurn ==
    \/ \A t \in Threads : []<>(pc[t] = "sleep" \/ Unready(t))
    \/ <>[]Tight
=============================================================================
