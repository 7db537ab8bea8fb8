--------------------------- MODULE ResourceEvents ---------------------------
(***************************************************************************)
(* One monitored resource of one agent, seen by every backend process that *)
(* collects it: agentClient::collect hands the new lines of the agent to   *)
(* ressourceClient::parse, which compares each line with the rules of the  *)
(* event factory, opens and ends event rows in res_events, alerts on a new *)
(* row and stores the line in the d$ table of the resource.                *)
(*                                                                         *)
(* Each action is one database call (or one alert) with the memory updates *)
(* that follow it, so that other backends, a crash or a failed statement   *)
(* can come between any two of them.                                       *)
(***************************************************************************)
EXTENDS Integers, Sequences, FiniteSets

CONSTANTS
    Backends,    \* backend processes that collect this resource
    Rules,       \* rows event_factory may hold: [property, oper, value]
    Samples,     \* lines the agent may report: property -> value or NoValue
    NoValue,     \* a property the line lacks, or holds as null
    Grain,       \* consecutive lines whose timestamps asFloat() makes equal
    MaxLines,    \* bound: lines the agent reports
    MaxCrashes,  \* bound: crashes of backends
    MaxFaults,   \* bound: failing statements, alerts and agent replies
    MaxEdits     \* bound: changes of event_factory by an operator

ASSUME BoundsAssumption ==
    /\ Grain \in Nat \ {0}
    /\ {MaxLines, MaxCrashes, MaxFaults, MaxEdits} \subseteq Nat

ASSUME SamplesAssumption ==
    \A e \in Rules :
        e.value \in Int /\ \A s \in Samples : s[e.property] \in Int \cup {NoValue}

VARIABLES
    lines,         \* the agent's buffer, one sample per line
    factoryTable,  \* table event_factory
    rows,          \* table res_events; the row's id is its index
    data,          \* table d$<resource>: primary key (timestamp) -> line
    alerts,        \* alerts that reached the alerter plugins, per rule
    pc,            \* where the agent thread of a backend is
    since,         \* last line of the batch being parsed, or last one parsed
    line,          \* line of the batch being parsed
    factory,       \* ressourceClient::event_factory
    current,       \* ressourceClient::current_events, id -> rule
    todo,          \* crossed rules the factory loop has still to visit
    raised,        \* the rule whose alert is next (a set of at most one)
    ending,        \* ids the closing loop has still to end
    lastId,        \* mysql_insert_id of the connection
    crashes, faults, edits

memory == <<pc, since, line, factory, current, todo, raised, ending, lastId>>
vars == <<lines, factoryTable, rows, data, alerts, memory,
          crashes, faults, edits>>

Null == -1

(***************************************************************************)
(* Samples, rules and timestamps                                           *)
(***************************************************************************)
\* Deviation: the limit itself crosses too
CrossesInclusive(e, s) ==
    LET v == s[e.property] IN
    /\ v # NoValue
    /\ \/ e.oper = "<" /\ v <= e.value
       \/ e.oper = ">" /\ v >= e.value
       \/ e.oper = "=" /\ v = e.value

Crosses(e, s) ==
    LET v == s[e.property] IN
    /\ v # NoValue
    /\ \/ e.oper = "<" /\ v < e.value
       \/ e.oper = ">" /\ v > e.value
       \/ e.oper = "=" /\ v = e.value

Returns(e, s) ==
    LET v == s[e.property] IN
    /\ v # NoValue
    /\ \/ e.oper = "<" /\ v >= e.value
       \/ e.oper = ">" /\ v <= e.value
       \/ e.oper = "=" /\ v # e.value

\* asFloat() of a timestamp: the nearest multiple of the float's precision
Stamp(i) == ((2 * i + Grain) \div (2 * Grain)) * Grain

PutFirst(f, k, v) ==  \* deviation: "insert ignore"
    [x \in DOMAIN f \cup {k} |-> IF x \in DOMAIN f THEN f[x] ELSE v]

Put(f, k, v) == [x \in DOMAIN f \cup {k} |-> IF x = k THEN v ELSE f[x]]
DropNothing(f, k) == f  \* deviation: an ended event stays in the map
Drop(f, k)   == [x \in DOMAIN f \ {k} |-> f[x]]
Least(S)     == {x \in S : \A y \in S : x <= y}  \* at most one element

(***************************************************************************)
(* Events of a backend                                                     *)
(***************************************************************************)
TrackedFromTwo(b, e) ==  \* deviation: "found > 1"
    {id \in DOMAIN current[b] : id > 1 /\ current[b][id] = e}

\* ids under which b remembers an event equal to e; the source's "found > 0"
Tracked(b, e) == {id \in DOMAIN current[b] : id > 0 /\ current[b][id] = e}

\* the last of them in the order of the map
Found(b, e) == CHOOSE id \in Tracked(b, e) : \A other \in Tracked(b, e) : other <= id

\* the two updates of a row by id; an id that no row has updates nothing
WithValue(id, v) ==
    [i \in DOMAIN rows |-> IF i = id THEN [rows[i] EXCEPT !.current_value = v] ELSE rows[i]]
WithEnd(id, t) ==
    [i \in DOMAIN rows |-> IF i = id THEN [rows[i] EXCEPT !.end = t] ELSE rows[i]]

OpenIds == {id \in DOMAIN rows : rows[id].end = Null}

Crossed(b, i) == {e \in factory[b] : Crosses(e, lines[i])}

ReturnedKnown(b) ==  \* deviation: events of a removed rule are not looked at
    {id \in DOMAIN current[b] : /\ current[b][id] \in factory[b]
                                /\ Returns(current[b][id], lines[line[b]])}

\* the ids the closing loop ends on the line b is at
Returned(b) == {id \in DOMAIN current[b] : Returns(current[b][id], lines[line[b]])}

EventRow == [rule : Rules, by : Backends, start : Nat, end : Nat \cup {Null},
             current_value : Int \cup {NoValue}]

TypeStore ==
    /\ lines \in Seq(Samples) /\ Len(lines) <= MaxLines
    /\ factoryTable \subseteq Rules
    /\ rows \in Seq(EventRow)
    /\ \A s \in DOMAIN data : data[s] \in 1..Len(lines)
    /\ alerts \in [Rules -> Nat]

TypeThread ==
    /\ pc \in [Backends -> {"down", "poll", "compare", "alert", "end"}]
    /\ since \in [Backends -> 0..Len(lines)]
    /\ line \in [Backends -> 0..Len(lines)]
    /\ \A b \in Backends : pc[b] \in {"compare", "alert", "end"} => line[b] \in 1..since[b]
    /\ factory \in [Backends -> SUBSET Rules]
    /\ todo \in [Backends -> SUBSET Rules]
    /\ raised \in [Backends -> SUBSET Rules]
    /\ lastId \in [Backends -> 0..Len(rows)]

TypeEvents ==
    /\ DOMAIN current = Backends /\ DOMAIN ending = Backends
    /\ \A b \in Backends : /\ DOMAIN current[b] \subseteq 0..Len(rows)
                           /\ \A id \in DOMAIN current[b] : current[b][id] \in Rules
                           /\ ending[b] \subseteq DOMAIN current[b]
                           /\ ending[b] # {} => pc[b] = "end"

TypeBounds ==
    /\ crashes \in 0..MaxCrashes
    /\ faults \in 0..MaxFaults
    /\ edits \in 0..MaxEdits

TypeOK == TypeStore /\ TypeThread /\ TypeEvents /\ TypeBounds

Init ==
    /\ lines = << >>
    /\ factoryTable = Rules
    /\ rows = << >>
    /\ data = [s \in {} |-> 0]
    /\ alerts = [e \in Rules |-> 0]
    /\ pc = [b \in Backends |-> "down"]
    /\ since = [b \in Backends |-> 0]
    /\ line = [b \in Backends |-> 0]
    /\ factory = [b \in Backends |-> {}]
    /\ current = [b \in Backends |-> [id \in {} |-> 0]]
    /\ todo = [b \in Backends |-> {}]
    /\ raised = [b \in Backends |-> {}]
    /\ ending = [b \in Backends |-> {}]
    /\ lastId = [b \in Backends |-> 0]
    /\ crashes = 0 /\ faults = 0 /\ edits = 0

\* a statement that fails: logged by myqExec or myqCatch, then forgotten
Fault == faults < MaxFaults /\ faults' = faults + 1

(***************************************************************************)
(* Environment: the agent and the operator                                 *)
(***************************************************************************)
AgentReports ==
    /\ Len(lines) < MaxLines
    /\ \E s \in Samples : lines' = Append(lines, s)
    /\ UNCHANGED <<factoryTable, rows, data, alerts, memory, crashes, faults, edits>>

EditFactory ==
    /\ edits < MaxEdits
    /\ edits' = edits + 1
    /\ \E e \in Rules : factoryTable' \in {factoryTable \cup {e}, factoryTable \ {e}}
    /\ UNCHANGED <<lines, rows, data, alerts, memory, crashes, faults>>

(***************************************************************************)
(* Start: the process starts and ressourceClient::init loads the open      *)
(* events of the resource, whoever wrote them, and its rules.  Either      *)
(* select may fail; init then goes on without its result.                  *)
(***************************************************************************)
Load(b, ids, rules) ==
    /\ pc[b] = "down"
    /\ pc' = [pc EXCEPT ![b] = "poll"]
    /\ current' = [current EXCEPT ![b] = [id \in ids |-> rows[id].rule]]
    /\ factory' = [factory EXCEPT ![b] = rules]
    /\ UNCHANGED <<lines, factoryTable, rows, data, alerts, since, line, todo,
                   raised, ending, lastId, crashes, edits>>

StartBlind(b) ==  \* deviation: open events are not loaded
    /\ Load(b, {}, factoryTable)
    /\ UNCHANGED faults

Start(b) ==
    /\ Load(b, OpenIds, factoryTable)
    /\ UNCHANGED faults

StartDegraded(b) ==
    /\ \E kept \in {<<OpenIds, {}>>, <<{}, factoryTable>>} : Load(b, kept[1], kept[2])
    /\ Fault

(***************************************************************************)
(* The process dies: everything it held in memory is gone.                 *)
(***************************************************************************)
Forget(b) ==
    /\ pc' = [pc EXCEPT ![b] = "down"]
    /\ since' = [since EXCEPT ![b] = 0]
    /\ line' = [line EXCEPT ![b] = 0]
    /\ factory' = [factory EXCEPT ![b] = {}]
    /\ current' = [current EXCEPT ![b] = [id \in {} |-> 0]]
    /\ todo' = [todo EXCEPT ![b] = {}]
    /\ raised' = [raised EXCEPT ![b] = {}]
    /\ ending' = [ending EXCEPT ![b] = {}]
    /\ lastId' = [lastId EXCEPT ![b] = 0]
    /\ UNCHANGED <<lines, factoryTable, rows, data, alerts, edits>>

Crash(b) ==
    /\ pc[b] # "down"
    /\ crashes < MaxCrashes
    /\ crashes' = crashes + 1
    /\ Forget(b)
    /\ UNCHANGED faults

(***************************************************************************)
(* agentClient::collect: ask the agent for what is newer than since.       *)
(***************************************************************************)
\* Enter line i of the batch: the factory loop will visit the crossed rules
Enter(b, i) ==
    /\ line' = [line EXCEPT ![b] = i]
    /\ todo' = [todo EXCEPT ![b] = Crossed(b, i)]
    /\ pc' = [pc EXCEPT ![b] = "compare"]

Poll(b) ==
    /\ pc[b] = "poll"
    /\ since[b] < Len(lines)
    /\ since' = [since EXCEPT ![b] = Len(lines)]
    /\ Enter(b, since[b] + 1)
    /\ UNCHANGED <<lines, factoryTable, rows, data, alerts, factory, current,
                   raised, ending, lastId, crashes, faults, edits>>

\* The request failed, or the reply holds nothing new
PollNothing(b) ==
    /\ pc[b] = "poll"
    /\ UNCHANGED vars

\* The status of the reply is not looked at: one without a "timestamp" (an
\* error body) sets since to 0
PollErrorBody(b) ==
    /\ pc[b] = "poll"
    /\ since' = [since EXCEPT ![b] = 0]
    /\ Fault
    /\ UNCHANGED <<lines, factoryTable, rows, data, alerts, pc, line, factory,
                   current, todo, raised, ending, lastId, crashes, edits>>

(***************************************************************************)
(* The factory loop of ressourceClient::parse, one crossed rule at a time. *)
(* The select that filled the factory has no order: any rule may be next.  *)
(***************************************************************************)
\* An event equal to e is tracked: the last one in the map is updated
RuleUpdates(b, e) ==
    /\ pc[b] = "compare"
    /\ e \in todo[b] /\ Tracked(b, e) # {}
    /\ todo' = [todo EXCEPT ![b] = @ \ {e}]
    /\ \/ /\ rows' = WithValue(Found(b, e), lines[line[b]][e.property])
          /\ lastId' = [lastId EXCEPT ![b] = 0]
          /\ UNCHANGED faults
       \/ Fault /\ UNCHANGED <<rows, lastId>>
    /\ UNCHANGED <<lines, factoryTable, data, alerts, pc, since, line, factory,
                   current, raised, ending, crashes, edits>>

\* The map then holds e under whatever insert_id() returned
Remember(b, id, e) ==
    /\ pc[b] = "compare"
    /\ e \in todo[b] /\ Tracked(b, e) = {}
    /\ todo' = [todo EXCEPT ![b] = @ \ {e}]
    /\ current' = [current EXCEPT ![b] = Put(@, id, e)]
    /\ raised' = [raised EXCEPT ![b] = {e}]
    /\ pc' = [pc EXCEPT ![b] = "alert"]
    /\ UNCHANGED <<lines, factoryTable, data, alerts, since, line, factory,
                   ending, crashes, edits>>

RuleOpens(b, e) ==
    /\ Remember(b, Len(rows) + 1, e)
    /\ rows' = Append(rows, [rule |-> e, by |-> b, start |-> Stamp(line[b]), end |-> Null,
                             current_value |-> lines[line[b]][e.property]])
    /\ lastId' = [lastId EXCEPT ![b] = Len(rows) + 1]
    /\ UNCHANGED faults

RuleOpenGuesses(b, e) ==  \* deviation: a failed insert is given the next id
    /\ Remember(b, Len(rows) + 1, e)
    /\ Fault
    /\ UNCHANGED <<rows, lastId>>

\* After an error mysql_insert_id() is undefined: 0, or the id of the last
\* insert of the connection.  The event is remembered and alerted all the same.
RuleOpenFails(b, e) ==
    /\ \E id \in {0, lastId[b]} : Remember(b, id, e)
    /\ Fault
    /\ UNCHANGED <<rows, lastId>>

(***************************************************************************)
(* alerterManager::sendHostRessource / sendServRessource.                  *)
(***************************************************************************)
AlertReturns(b) ==
    /\ pc[b] = "alert"
    /\ pc' = [pc EXCEPT ![b] = "compare"]
    /\ raised' = [raised EXCEPT ![b] = {}]
    /\ UNCHANGED <<lines, factoryTable, rows, data, since, line, factory,
                   current, todo, ending, lastId, crashes, edits>>

SendAlertAgain(b) ==  \* deviation: the alert stays pending and is repeated
    /\ pc[b] = "alert"
    /\ alerts' = [e \in Rules |-> alerts[e] + (IF e \in raised[b] THEN 1 ELSE 0)]
    /\ UNCHANGED <<lines, factoryTable, rows, data, memory, crashes, faults, edits>>

SendAlert(b) ==
    /\ AlertReturns(b)
    /\ alerts' = [e \in Rules |-> alerts[e] + (IF e \in raised[b] THEN 1 ELSE 0)]
    /\ UNCHANGED faults

\* The select of the subscriptions fails and is caught
AlertLost(b) ==
    /\ AlertReturns(b)
    /\ Fault
    /\ UNCHANGED alerts

\* A name lookup fails: it returns 0 as a std::string, which throws
\* logic_error in a thread that catches nothing, and the process ends
AlertKills(b) ==
    /\ pc[b] = "alert"
    /\ Fault
    /\ Forget(b)
    /\ UNCHANGED crashes

(***************************************************************************)
(* The closing loop, in the order of the ids.                              *)
(***************************************************************************)
RulesDone(b) ==
    /\ pc[b] = "compare" /\ todo[b] = {}
    /\ pc' = [pc EXCEPT ![b] = "end"]
    /\ ending' = [ending EXCEPT ![b] = Returned(b)]
    /\ UNCHANGED <<lines, factoryTable, rows, data, alerts, since, line, factory,
                   current, todo, raised, lastId, crashes, faults, edits>>

\* The entry is erased while the loop's iterator is on it.  The increment of
\* the dangling iterator finds the next entry, or, when the erased node's place
\* in the tree was taken by its successor (four entries or more), skips it; or
\* the process crashes (Crash).
EndEvent(b) ==
    /\ pc[b] = "end" /\ ending[b] # {}
    /\ \E id \in Least(ending[b]) :
          /\ \/ /\ rows' = WithEnd(id, Stamp(line[b]))
                /\ lastId' = [lastId EXCEPT ![b] = 0]
                /\ UNCHANGED faults
             \/ Fault /\ UNCHANGED <<rows, lastId>>
          /\ current' = [current EXCEPT ![b] = Drop(@, id)]
          /\ \/ ending' = [ending EXCEPT ![b] = @ \ {id}]
             \/ /\ Cardinality(DOMAIN current[b]) >= 4
                /\ \E next \in Least(ending[b] \ {id}) :
                      ending' = [ending EXCEPT ![b] = @ \ {id, next}]
    /\ UNCHANGED <<lines, factoryTable, data, alerts, pc, since, line, factory,
                   todo, raised, crashes, edits>>

(***************************************************************************)
(* The line goes to the d$ table ("on duplicate key update"), then the     *)
(* next line of the batch, or the next poll.                               *)
(***************************************************************************)
LoadLine(b) ==
    /\ pc[b] = "end" /\ ending[b] = {}
    /\ \/ /\ data' = Put(data, Stamp(line[b]), line[b])
          /\ lastId' = [lastId EXCEPT ![b] = 0]
          /\ UNCHANGED faults
       \/ Fault /\ UNCHANGED <<data, lastId>>
    /\ \/ line[b] < since[b] /\ Enter(b, line[b] + 1)
       \/ /\ line[b] = since[b]
          /\ pc' = [pc EXCEPT ![b] = "poll"]
          /\ line' = [line EXCEPT ![b] = 0]
          /\ UNCHANGED todo
    /\ UNCHANGED <<lines, factoryTable, rows, alerts, since, factory, current,
                   raised, ending, crashes, edits>>

Process(b) ==
    \/ Poll(b) \/ PollNothing(b) \/ PollErrorBody(b)
    \/ \E e \in Rules : RuleUpdates(b, e) \/ RuleOpens(b, e) \/ RuleOpenFails(b, e)
    \/ SendAlert(b) \/ AlertLost(b) \/ AlertKills(b)
    \/ RulesDone(b) \/ EndEvent(b) \/ LoadLine(b)

Next ==
    \/ AgentReports \/ EditFactory
    \/ \E b \in Backends : Start(b) \/ StartDegraded(b) \/ Crash(b) \/ Process(b)

Spec == Init /\ [][Next]_vars

\* systemd restarts the process ("Restart=on-failure") and its agent thread
\* never stops; the agent and the database answer in the end
FairSpec ==
    /\ Spec
    /\ \A b \in Backends : WF_vars(Start(b)) /\ WF_vars(Process(b))

-----------------------------------------------------------------------------
(***************************************************************************)
(* Properties                                                              *)
(***************************************************************************)
OpenOf(b, e) == {id \in OpenIds : rows[id].by = b /\ rows[id].rule = e}

\* The lines the running process has gone through
Parsed(b) == IF pc[b] = "poll" THEN 1..since[b] ELSE 1..(line[b] - 1)

\* Every backend is up and has gone through all lines
AtRest == \A b \in Backends : pc[b] = "poll" /\ since[b] = Len(lines)

\* A backend inserts a row only when it has no open row for the same rule:
\* res_events holds at most one open row per writer and rule, whatever crashes,
\* reloads and replays come between (ressourceClient::init and ::parse).
OneOpenPerWriter ==
    \A i, j \in OpenIds :
        rows[i].by = rows[j].by /\ rows[i].rule = rows[j].rule => i = j

\* Between two polls the open rows a backend wrote say what the last line it
\* parsed says: a crossed rule has one, a rule that no longer holds has none.
OpenMatchesLine ==
    \A b \in Backends : pc[b] = "poll" /\ since[b] > 0 =>
        \A e \in Rules :
            /\ e \in factory[b] /\ Crosses(e, lines[since[b]]) => OpenOf(b, e) # {}
            /\ Returns(e, lines[since[b]]) => OpenOf(b, e) = {}

\* When every backend is up and has parsed the last line, the table as a whole
\* agrees with that line: a rule all of them know and the line crosses has an
\* open row, a rule that no longer holds has none.  Restarts and late starts
\* replay old lines and end rows of others, but whoever ends one reopens it.
RestMatchesLine ==
    (Len(lines) > 0 /\ AtRest) =>
        \A e \in Rules :
            /\ Crosses(e, lines[Len(lines)]) /\ (\A b \in Backends : e \in factory[b])
                 => \E id \in OpenIds : rows[id].rule = e
            /\ Returns(e, lines[Len(lines)]) => \A id \in OpenIds : rows[id].rule # e

\* An ended row is history: no later comparison, close or replay changes it.
HistoryIsFinal ==
    [][\A id \in DOMAIN rows : rows[id].end # Null => rows'[id] = rows[id]]_vars

\* In the first life of a lone backend the rows of a rule are its episodes: a row
\* starts on a line that crosses the rule, ends on the first later line that no
\* longer does, and every parsed line that crosses the rule lies in one.
EventsAreEpisodes ==
    crashes = 0 =>
      /\ \A id \in DOMAIN rows :
            LET r    == rows[id]
                last == IF r.end = Null THEN Len(lines) + 1 ELSE r.end
            IN  /\ Crosses(r.rule, lines[r.start])
                /\ r.end # Null => r.start < r.end /\ Returns(r.rule, lines[r.end])
                /\ \A b \in Backends, k \in r.start..(last - 1) :
                      k \in Parsed(b) => ~ Returns(r.rule, lines[k])
      /\ \A b \in Backends, k \in 1..Len(lines) :
            k \in Parsed(b) => \A e \in Crossed(b, k) : \E id \in DOMAIN rows :
                /\ rows[id].rule = e /\ rows[id].start <= k
                /\ rows[id].end = Null \/ k < rows[id].end

\* README.md:31: "create event in the database if it cross configured limits".
\* No rule has more rows than its value crossed the limit.
EventPerCrossing ==
    \A e \in Rules :
        LET crosses(i) == Crosses(e, lines[i])
        IN  Cardinality({id \in DOMAIN rows : rows[id].rule = e})
              <= Cardinality({i \in 1..Len(lines) : crosses(i) /\ (i = 1 \/ ~ crosses(i - 1))})

\* Every row of res_events is alerted once.  Each crash loses at most the alert
\* that was pending, each failure one alert, or one row that is alerted anyway.
AlertPerEvent ==
    \A e \in Rules :
        LET inserted == Cardinality({id \in DOMAIN rows : rows[id].rule = e})
            pending  == Cardinality({b \in Backends : e \in raised[b]})
        IN  /\ inserted <= alerts[e] + pending + crashes + faults
            /\ alerts[e] + pending <= inserted + faults

\* The d$ table has one row for all lines whose timestamps asFloat() makes equal
\* (ressourceClient.cpp:191), and each replaces the one before.  At rest, when no
\* insert has failed, that row is there for every line and is the last of them: also
\* when a backend that started late, or again, has written the older ones after it.
SamplesStored ==
    (AtRest /\ faults = 0) =>
        \A i \in DOMAIN lines :
            /\ Stamp(i) \in DOMAIN data
            /\ data[Stamp(i)] >= i /\ Stamp(data[Stamp(i)]) = Stamp(i)

\* Once the agent's last line shows the rule no longer holds, its events end,
\* through crashes, restarts and replays, and none opens again.
EventsEnd ==
    \A e \in Rules :
        (Len(lines) = MaxLines /\ Returns(e, lines[MaxLines]))
            ~> [](\A id \in OpenIds : rows[id].rule # e)

(***************************************************************************)
(* Refinement: the book of alarms the events and alerts amount to          *)
(***************************************************************************)
Book == INSTANCE AlarmBook WITH
    Watchers <- Backends,
    Alarms   <- Rules,
    open     <- {<<rows[id].by, rows[id].rule>> : id \in OpenIds},
    raises   <- [e \in Rules |-> Cardinality({id \in DOMAIN rows : rows[id].rule = e})],
    told     <- alerts

\* The events and alerts of any number of backends, with crashes, implement
\* the abstract book: raise only what is not open, tell only what was raised.
ImplementsBook == Book!Spec
=============================================================================
