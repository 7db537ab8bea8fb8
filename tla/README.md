# Verification of watched.back

watched.back is the back-end of the *watched* monitoring system. A process
polls the agents listed in its MySQL database over HTTP, stores their samples,
logs and service states, opens and ends *events* when a value crosses a
configured limit, alerts users, aggregates the samples, and writes a heartbeat
by which backends watch each other. Any number of backend processes may share
the database. This directory models that program in TLA+, checks the models
with TLC and proves theorems about them with TLAPS. Paths below are relative to
the repository (`src/ressourceClient.cpp` and so on); the schema is
`sql/schema.sql`.

## 1. The system

### Components

| component | code | state it keeps | operations | modelled in |
|---|---|---|---|---|
| resource events | `ressourceClient`, the end of `agentClient::collect` | `current_events`, `event_factory`, `since`; tables `h$/s$res_events`, `h$/s$event_factory`, `d$<resource>` | `init`, `parse`, `updateDefs` | `ResourceEvents`, `AlarmBook` |
| connections and threads | `dbPool` (`include/backend.h`), `dbTools::grab/release`, the loops of `main`, `agentClient`, `statAggregator` | `usedCount`, mysql++'s pool, `dbTools::db` of every object | `grab`, `release`, `updateAgents`, `startThreads`, the thread loops | `ConnectionPool`, `ConnectionLeases` |
| backend registry | `agentManager` | tables `b$backend`, `b$history` | `init`, `updateAgents` | `BackendHistory`, `ConnectionPool` |
| agent client | `agentClient::init`, `updateApi`, `createRessources`, `createTables`, `updateCounter` | `ready`, `active`, `api`, `ressources`; tables `c$ressources`, `h$hosts`, `s$services`, `h$/s$ressources`, `d$<definition>`, `agt$history` | as named | `AgentApi`; its start, early returns and loop in `ConnectionPool`, the counters in `HttpClient` |
| HTTP client | `HttpClient` (`config.cpp`), `sws/client_http.hpp`, `sws/client_https.hpp` | `connections`, `count_ok`, `count_failed`, `count_parse` | `getJSON`, `request`, `resetCount`; connect, write, read, close | `HttpClient` |
| service collection | the first half of `agentClient::collect` | tables `s$log_events`, `s$process`, `s$sockets`, `s$history` | `collect` | `ServiceCollect` |
| alerting | `alerterManager`, `luaAlerter`, `luaAlerters/email.lua` | plugins, their subscriptions `p$alert_*`, one connection | `sendLog/Service/ServRessource/HostRessource` | when alerts are sent, lost or fatal in `ResourceEvents` and `ServiceCollect`, the levels of log alerts in `ServiceCollect`, the shared connection in `ConnectionPool` |
| aggregation | `statAggregator` | tables `am$`, `ah$`, `ad$`; `base_*`, `next_*`, `tables` | set-up, aggregate, purge | `Aggregation`; its connection in `ConnectionPool` |
| name tables | `dbTools::getHost`, `getService`, ... | `h$hosts`, `s$services`, `c$event_types`, ... | find or insert | resources, hosts, services, tables and columns in `AgentApi`; event types and the `have...` tests in `ServiceCollect`; a failed name lookup in `ResourceEvents` |
| configuration, log, main | `config.cpp`, `log.cpp`, `backend.cpp` | a JSON file, a log file | load, save, write | `Configuration`; `main`'s threads in `ConnectionPool` |
| schema, views, permissions | `sql/schema.sql` | | procedures and views for the separate front-end | not modelled |
| vendored Lua binding, HTTP server | `include/selene/`, `sws/server_http.hpp` | | Lua calls; unused | not modelled |

### How they interact

`main` builds the pool, the log, the alerterManager and the agentManager, runs
`agentManager::init`, starts the threads and then calls `updateAgents` and
`startThreads` every `pool_freq` seconds. Each agent has a thread that runs
`collect` (and every sixth turn `updateApi`); `collect` calls
`ressourceClient::parse` for each resource of the agent, which calls the
alerterManager for a new event. The aggregator has one thread. All threads share
the alerterManager and the pool; mysql++ locks its own pool, and nothing else is
locked except Lua. Processes share nothing but the database, and no statement
is part of a transaction: another process, a crash or an error can come between
any two of them. A statement that fails is logged by `myqExec`/`myqCatch` and
then forgotten.

### What is hard, and what makes each part correct

* **Restarts.** A restarted process knows only what the tables hold. It must
  pick up its open events, or every restart doubles them; `since` restarts at
  0, so the agent's whole buffer is parsed again.
* **Several backends** on one agent insert, end and reopen events of the same
  resource, each with a private memory of the table.
* **Failed statements** leave memory and table apart: `insert_id()` is
  undefined after a failed insert, an event is erased although its `end_time`
  was not written.
* **Undefined behaviour**: `usedCount` is updated without a lock; the closing
  loop erases the map entry its iterator is on; the alerterManager is shared
  by all threads.
* **Blocking**: `grab()` waits without limit, some callers hold a connection
  while they wait for a second, and an early return keeps one.
* **Time**: HTTP requests have no timeout, and the heartbeat waits for them.
* **Pointers into a document**: `getJSON` parses into `api`, where each
  resource's `def` points; `createRessources` has to renew every one of them.
* **Find or insert without a lock**: two backends look up a name, find nothing
  and both insert; the unique indexes decide, and every one has to end up with
  the same id.
* **Connections kept by the HTTP client** may have been closed by the agent;
  `request` reconnects once and `getJSON` tries once more, and each may leave a
  connection in use.
* **Condense, then purge**: minutes go to hours, hours to days, each statement
  reads the clock by itself, any number of backends do it at once, and the purge
  does not ask whether the insert before it failed.
* **A file written in place**: the configuration is emptied and written twice
  on each start, while an operator edits it.

`PROJECT.json` lists every such place with its line and the property that
watches it.

## 2. Modules

### ResourceEvents (refines AlarmBook)

One resource of one agent and every backend that collects it. `lines` is the
agent's buffer; `rows`, `factoryTable` and `data` are the tables; `factory`,
`current` and `since` are the members of the ressourceClient and agentClient;
`line`, `todo`, `raised`, `ending` and `lastId` are the local state of `parse`.
One action is one database call, or one alert, with the memory updates that
follow it:

| action | code |
|---|---|
| `Start`, `StartDegraded` | `init`: open events of the resource, whoever wrote them, and the rules; either select may fail |
| `Poll`, `PollNothing`, `PollErrorBody` | `collect`: the request with `since`; an error body has no `timestamp` and resets `since` |
| `RuleUpdates` | factory loop, `found > 0`: the update of `current_value` |
| `RuleOpens`, `RuleOpenFails` | factory loop, `found == 0`: the insert, and `current_events[insert_id()]`, which after an error is 0 or the id of the connection's last insert |
| `SendAlert`, `AlertLost`, `AlertKills` | the alerterManager; a name lookup that fails returns 0 as a `std::string` and ends the process |
| `RulesDone`, `EndEvent` | closing loop, in the order of the ids, with the erase under the iterator |
| `LoadLine` | the insert into `d$`, whose key is the timestamp after `asFloat()` (`Stamp`), then the next line |
| `Crash`, `AgentReports`, `EditFactory` | environment |

Values, rules and properties are data; a line gives each property a number or
`NoValue` (missing or null). The undefined behaviour of the erase is the choice
its implementations make: the next entry, a skipped entry (only with at least
three entries left, as the red-black tree moves a node only then), or a crash.
`template_defaults["name"]` in the update of `end_time` is not a parameter of
that query; mysql++ maps an unknown name to parameter 0, which is the one meant,
so the update does what it should.

`AlarmBook` is what readers of the events may rely on: a watcher raises an
alarm only if it has none open for it, anybody may clear it, and users are told
at most as often as alarms were raised. `ResourceEvents` implements it (`Book`,
property `ImplementsBook`) as long as no statement fails.

### ConnectionPool (refines ConnectionLeases)

The threads of one process. `usedCount` is the pool's counter, `used` the
connections mysql++'s pool has in use, `db` the connection of each object. `pc`
and `call` place each thread in its own program or in a step of `grab()` or
`release()`: `Wait` (test), `CountUp` (load and store), then one of four:

| action | code |
|---|---|
| `Take` | mysql++ hands out an idle connection, or `create()` makes one |
| `TakeDead` | an idle one does not answer: `safe_grab` removes it and calls the overridden `grab()` again, which counts again |
| `InitRefused` | `create()` throws `ConnectionFailed`, `grab()` has counted; around the initialisation of an agent `updateAgents` catches it (`agentManager.cpp:60-74`): the agent is in the map, not `ready`, and never gets a thread |
| `Refused` | the same anywhere else: nobody catches it, the process ends, and systemd starts the next one (`Restart`) |

`Put` and `CountDown` are `release()`. `Boot`, `Connect`, `InitAgent`,
`InitSwagger`, `EndUpdate` and `StartThreads` are `main` and the agentManager;
`AgentWakes`, `AgentApi`, `AgentCollects`, `AgentAlerts`, `AgentDone` an agent's
thread. `leaked` counts the calls of `grab()` that counted and got nothing. What
the threads do with a connection is the business of the other modules. Idle
connections are not told apart from those yet to be made, so that the library
closes those idle for more than three seconds needs no action.

`ConnectionLeases` is what the users of the pool may rely on: a connection is lent
to one borrower, who has it until giving it back; a shared borrower gives nothing
back and may be handed another one. `ConnectionPool` implements it (`Leases`,
property `ImplementsLeases`): the borrowers are the objects, the alerter is the
shared one, its lease is the connection an object works on (`Held`), and what is
lent is what mysql++ has in use. A restart is its `Close`; the counter, the waiting
and the replaced dead connections are stutters.

### ServiceCollect

The agent threads of several backends in the first half of `collect`. `entries`,
`up` and `status` are what the agents know; `logTable`, `partTable`, `known`,
`history` and `eventTypes` are the tables; `thread` holds the members and local
variables of each collect. `ReadClock` and `Request` are the first three lines
of the function (`fp_ms` is read before the request), `LookLog`, `StoreLog` and
`LogsDone` the loop over log lines and `sendLog`, `PartOk`, `LookPart`,
`StorePart` and `PartsDone` the loops over processes and sockets (one loop here:
they differ in columns) and `sendService`, `History` and `Missing` the rows of
`s$history`. The agent may send old lines again. A failed test counts as "no", a
failed lookup of an event type as 0, as in the code. Ids of hosts and services
are found or inserted in one step: their unique indexes give two backends the
same id whatever the order. That such a lookup fails is left out: it gives the id
0, with which every statement about the service breaks a foreign key, so that nothing
of it is stored in that round. `alerted`, `mailed` are what left the process;
`told`, `gone` and `overlap` record the past for the properties.

### BackendHistory

The backends of one database and their heartbeats: `ReadClock`, `Beat` and
`Detect` are a round of `updateAgents`. Either statement may be refused, which
`myqExec` reports and forgets: the round is over all the same. Of `b$history` the newest row of either
kind is kept, since the code looks at `max(timestamp)` only. Time is discrete;
`Tick` may not pass the end of a round by more than `Slack`.

### AgentApi

`updateApi` of the backends that collect one agent. `agent` is its
`swagger.json`: which definition each path returns and the columns of each
definition; it may be replaced by another. `names` and `links` are the rows of
`c$ressources`, `h$hosts`, `s$services` and of `h$/s$ressources`, `tables` the
columns of the data tables. A backend has its `api`, its `clients` (the vector
`ressources`) with a flag `fresh` for a `def` that points into what `api` holds
now, and the place of its thread.

| action | code |
|---|---|
| `Start` | `init`; when the select of the agent's address fails the client is made all the same (`misled`), and nothing repeats the select |
| `Fetch`, `FetchFails` | `getJSON` into `api`; JSON that breaks off has overwritten it already |
| `Have`, `Insert`, `Ident`, `IdentDies` | `haveX`, the insert and `getX` of a resource, a host, a service in the order of the code; a name without row makes the code read the first of no rows |
| `Link` | the insert into `h$/s$ressources`, `updateDefs` or a new `ressourceClient` |
| `HaveTable`, `CreateTable`, `HaveColumn`, `AddColumn` | `createTables` |
| `TablesDone` | the erase of the clients whose path is gone |
| `Collected` | six collects |

The two statements of `tableHasColumn` are one step, and column types that the
code does not know are left out.

### HttpClient

One call of `getJSON` after the other on one client. A connection is its socket
(`open`), `in_use`, `reconnecting`, whether the agent's end is up, and what is in
the agent's hands and on the wire; a reply is a head and two units of body, and
an agent delimits bodies in one of four ways. `Call` to `Retries`/`Throws` are
`getJSON` and `request`, `Connect...` and `Handshake...` the connection, `Write...`
and the reading actions `client_http.hpp` down to the one reconnection in `read`,
`Report` is `updateCounter` with the reset; when it gets no connection or its insert is
refused, the counts are lost with the row (`LostRow`). An https client is made anew for each
request, as in the code. A short length after a broken header is treated like a
missing one. Status codes and their texts are not told apart from replies: `request`
hands on any body, and what is no JSON is a garbled one. Proxy and timers of the library are not used here; a certificate
file that is missing throws in the constructor and is not modelled.

### Aggregation

The aggregator threads of several backends on one data type and one resource. A
row is the start of its span and the set of samples it condenses, so that
"the average is right" becomes "the set is". `SetUp` and `Create` make the tables
of a type when it is first seen, `Wake` collects the statements that are due
(`next_low`, `next_med`, `next_high`), `Statement` runs one, `Sleep` ends the turn.
When the select of the types fails before any is known (`SelectFails`), the thread
sleeps for `ThreadFreq`: the 3600 of `statAggregator.cpp:13` are minutes (line 199).
All statements of a turn share one query object: what failed stays in its text,
and the statements after it fail too (`Breaks`), which happens to keep the purge
from deleting what the insert did not condense. A table that is not there is
`None`, which is no set of rows. A new table stands for `max(timestamp)` 0, so no
sample is of the first hour of the epoch. The code sleeps for the least
`delay_am` of all types; the one type here is that type. `AddColumn` is another thread
that extends `d$`; the code has a TODO there (`statAggregator.cpp:78`), so the
statements of this type no longer fit until a restart (`Fits`). Statements on
keys and indexes and the view `all$` are left out.

### Configuration

The configuration file through `main`. A document maps settings to values:
the default, the operator's, one of a wrong JSON type, or a log level. `Load`
and `Stage` are the parts of `main` that look for their settings and set what is
missing, `Truncate` and `Write` the halves of the two saves, `Loop` the main loop, which
converts `pool_freq` each turn; `Edit`, `Start`, `Crash` are operator and service
manager. Writing lines to the log, loading plugins and wrong types of the
certificate names and the log file are left out.

### MC modules and Proofs

`MCResourceEvents`, `MCConnectionPool`, `MCServiceCollect`, `MCBackendHistory`,
`MCAgentApi`, `MCAggregation` and `MCConfiguration` hold the constants of the TLC
instances (`HttpClient` needs none). The `...Proofs` modules hold the theorems.
Operators marked *Deviation* are plausible bugs that no action uses: replacing
the definition next to them by one of them must make TLC find the property
listed with it in `PROJECT.json` violated, which shows that the property depends
on that line of the code.

## 3. Runs

| run | instance | shows |
|---|---|---|
| `events_single` | one backend, rules `> 2`, `< 4`, `= 3`, values 2, 3, 4 and none, 3 lines, 2 crashes, 1 edit of the rules | `OneOpenPerWriter`, `OpenMatchesLine`, `EventsAreEpisodes`, `HistoryIsFinal` |
| `events_pair` | two backends, one rule, 3 lines of which two share a rounded timestamp, 1 crash, 1 edit, fairness | `RestMatchesLine`, `SamplesStored`, `ImplementsBook`, `EventsEnd` |
| `events_faulty` | one backend, four rules, 2 lines, 1 failure of any call | `TypeOK`, `AlertPerEvent` |
| `pool_race` | two agents, pool of 2 | `Exclusive`, `LostOnlyInRace` |
| `pool_live` | one agent, pool of 2, 1 dead or refused connection or torn update, fairness | `CountExplained`, `ImplementsLeases`, `LoopsTurn` |
| `heartbeats` | two backends, two crashes or refused statements, 14 ticks of 150 s | `LiveNotFailed`, `FailureNoticed`, `FailedRowsApart`, `FailedIsSilent` |
| `services` | two backends, two services of one host, one part, one log line, 3 rounds, 1 change, 1 crash or failure | `LogAlertedOnce`, `LogNotSilent`, `FailureTold`, `ReportedNotMissing`, `RoundRecorded` |
| `log_levels` | one backend, levels critical, information and one the table lacks | violated: `SevereMailed` |
| `agent_api` | two backends, a resource of a service and one of its host, two documents of which one has a path, a definition and a column more, 1 change, 1 crash or failure, fairness | `DefsAlive`, `SameIds`, `Linked`, `Settles` |
| `http` | http and https, four framings, 2 calls, connections that break anywhere, fairness | `OneMishapIsSurvived`, `ParseNeedsGarbled`, `OneConnection`, `CountsKept`, `Returns` |
| `aggregation` | two backends, 3 samples (two of one minute), hours of 2 and days of 4 minutes, 8 minutes, a late sample, a new column, 1 crash or failure | `MinuteExact`, `HourExact`, `NeverLost`, `Timely` |
| `configuration` | 6 documents or no file at first, 2 edits, 2 mishaps, fairness | `WishKept`, `NothingToInsert`, `ComesUp` |

**Bounds.** Three lines give an event that opens, ends and opens again; two
crashes give a replay that is itself interrupted; the values sit on, above and
below each limit and let rules hold together. One rule suffices for two backends
because the code treats rules independently but for the order of the ids, which
`events_single` and `events_faulty` exercise; the skip of the closing loop needs
four tracked events, hence the four rules of `events_faulty`. With two rules
and two backends the skip can leave an event open: `RestMatchesLine` is claimed
only below four tracked events. The pools are chosen so that threads do wait:
in `pool_live` four objects want a connection and three are lent (`grab()` lets one
more than `pool_size` through); one mishap is a count that stays, a torn update or a
restart. Two agents are the fewest that race for the alerter; `LoopsTurn` was also
checked with two agents, a pool of 3 and a loss (577,000 states, no violation). In
`heartbeats` two backends that die, restart and mark each other, one refused mark
included, take fourteen ticks: a silence of 4, a round of 4 and another for the
refusal; without the one more round the bound is violated there. Three backends were
checked with one mishap and 9 ticks, which is too few for a crash and a refusal; the
theorems are for any number.
Three rounds of `services` are two that overlap and one that comes after them, or
a round, its repetition after a restart and another backend's. In `agent_api` the
documents differ in a path, in a table and in a column of a table that both have,
so that every branch of `createTables` and the erase of clients happen; a path
that changes its definition is beyond this instance (a third document makes it
too large for liveness; its safety properties were checked). Two calls of `http`
are one that leaves a connection behind in any state and one that meets it. The
minutes of `aggregation` cover the making of each row, the purge of `d$` and
`am$` (retention of one day, that is 4 minutes) and one period after it; `ah$`
and `ad$` are kept for ever. Two edits and two mishaps of `configuration` are an
edit during a start-up that also crashes, and its repair.
`Wrap` stands for 2^32 and lies beyond what the counter reaches, so that going
below zero is seen as the huge value it is.

**Type invariants** are theorems (section 5), not runs, but for that of
`ResourceEvents`, which is both.

**Deadlock.** It is checked for `ResourceEvents`, `AgentApi` and `Configuration`.
It is not checked where the model's world ends: the rounds of `ServiceCollect`,
the calls of `HttpClient` and the time of `BackendHistory` and `Aggregation` are
bounded; nor for `ConnectionPool`, where the process really can stop (section 4).

**Fairness.** `ResourceEvents`: weak fairness of each backend's start
(`Restart=on-failure` in the systemd unit) and of its thread, which never
leaves its loop; failures are bounded, so the agent and the database answer in
the end. `ConnectionPool`: weak fairness of each thread, and strong fairness of
the test in `grab()`: the loop looks again every second, and if low values come
back for ever one look meets one. Connections are held for a collect and threads
sleep for seconds to minutes, so this assumes only that threads do not conspire.
Losses and torn updates have no fairness, and the process is started again at once
when it dies. `AgentApi`: weak fairness of each
backend's thread and restart. `HttpClient`: weak fairness of the client and of an
agent that answers or closes in the end; no timeout is assumed, for the code has
none. `Configuration`: weak fairness of `main` and of its start, by systemd or,
after the parser's exception on each start, the operator; the operator's edits
have none.

## 4. What was found

* `log_levels`: the ids of `c$event_types` count from Critical = 1 to
  Information = 5, `alerter::levels` from info = 1 to critical = 5, and one is
  cast to the other. A critical log line is alerted as information, which
  `email.lua` drops; information is mailed as critical.

The others were seen with other instances of the same modules, or in passing ones
whose properties are stated under the condition they are the reason for. Two of
them are against a line of `README.md` that lists what the program does in general
words, the rest against no document:

* `README.md:29`, "Collect the agents data and store that in a Mysql database":
  timestamps go through `asFloat()` into the primary key
  (`ressourceClient.cpp:191`). Milliseconds since 1970 need 41 bits, a float has
  24: samples within about two minutes get one key, and of those only one is kept.
  `SamplesStored` therefore says which: the last one.
* `README.md:31`, "create event in the database if it cross configured limits":
  after a restart (`EventPerCrossing`, which no run checks) the agent's buffer is
  parsed again. An old line below the limit ends the open event and the next one
  creates and alerts a second event for one crossing.
* A failed insert can overwrite another event in `current_events`, which is then
  inserted a second time (`OneOpenPerWriter` with `MaxFaults = 1`).
* `LoopsTurn`, whose second disjunct is `Tight`: `updateApi` returns without
  `release()` when an agent does not answer, so at start-up, on the main thread, each
  such agent keeps a connection, and with as many of them as the pool lends `main`
  waits in `grab()` for ever. Dead connections stay counted (`safe_grab()` calls the
  overridden `grab()` again for each), and so do refused ones (`grab()` counts before
  it connects), until nobody passes the test.
* An agent whose connection is refused while it is initialised is in the map of the
  agentManager and not ready: it is neither initialised again nor started before the
  next restart (`Unready`).
* `grab()` lets `pool_size + 1` connections through (`while (usedCount >
  poolSize)`); one torn update of `usedCount` can bring the counter below zero,
  where it wraps and every thread waits for ever.
* `FailureNoticed`: a refused insert of the marks passes for a finished round, so a
  dead backend is noticed a round later for each refusal.
* `CountsKept`: `updateApi` resets the counters before the row of `agt$history` is
  written; a refused row takes them with it (`lost`).
* Two agents that report services of one host mark each other's services as
  missing (`ReportedNotMissing` with different `Reports`); when collects of two
  backends overlap, a failure can be stored that nobody was told of
  (`FailureTold` without `~ overlap`).
* `AgentApi`: after JSON that breaks off, or a name without id, a client's `def`
  points into a destroyed document until the next `updateApi` (`DefsAlive` is
  claimed without failures). A client made with owner 0, or by an `init` whose
  select failed, is not healed before a restart. A path whose definition changes
  keeps writing to the old table; of two rows of a resource only the one found
  is linked.
* `HttpClient`: a header whose length is no number throws in the parser, and its
  connection stays in use for ever (`OneConnection` has `thrown`).
* `Aggregation`: `delay_ad` and `next_high` compare days with hours
  (`statAggregator.cpp:98`, `:135`), so that the row of a day is made while the day
  is not over and is never corrected (`DayExact` is false). A set-up that is cut
  off after `am$` leaves the next one to make `ah$` from an `am$` nobody has filled
  since: an incomplete hour stays (`resumed`). A create that failed is not
  repeated before a restart. A failed hourly insert costs a period and the time
  between two turns (`statAggregator.cpp:181`: hours are due at the first turn after
  the period), but nothing else: `Timely` says that the next turn without a failure
  makes up for it.
* `Configuration`: a crash or a full disk between the two halves of `save()`
  leaves a file the parser throws on, and nothing catches it (`ComesUp` has the
  torn file). A value of a wrong type ends each start. What is edited while a
  backend starts may be overwritten by its second save (`WishKept` has `wishes`).

## 5. Proofs

Each theorem holds for every value of the constants that satisfies the named
assumption of its module (bounds are naturals; what else is said there), and for
behaviours of any length. Each proof has one lemma per action.

`ResourceEventsProofs`, for any set of backends, rules and samples:

* `TypeCorrect`: `Spec => []TypeOK`. The parts that need an argument are that a
  thread that parses is on an existing line, and that what the closing loop walks
  are events the backend remembers.
* `OneOpenRow`: if no statement fails, `Spec => []OneOpenPerWriter`. The
  property is not inductive: the insert looks at memory, not at the table. The
  invariant `UniqueInv` adds `WriterRemembers`: a running backend remembers,
  under its id, every open row it wrote itself. `Start` establishes it (all open
  rows are loaded, whoever wrote them), the insert keeps it because
  `insert_id()` is the row's, and the close keeps it because the id that is
  forgotten is the id that was ended; another backend that ends a row only
  removes an obligation. The assumption `MaxFaults = 0` is needed: section 4
  has the counterexample.

* `RowsAlerted`: for finitely many backends, whatever fails,
  `[]AlertPerEvent`. `Balanced` compares the rows of a rule with its alerts and the
  backends that are about to send one (`raised`): a crash or a failed statement moves
  the difference by one, and nothing else does. `Raising` says that a backend is about
  to send one alert at most.
* `BookImplemented`: if no statement fails, `Spec => ImplementsBook`. Each step is
  mapped to a step of `AlarmBook` or a stutter; an insert is a raise only because of
  `UniqueInv` (the writer had no open row), and an alert is told only because of
  `AlertInv` (it was raised and is counted once).
* `LinesStored`: for any rounding of timestamps (`Grain`), whatever fails,
  `[]SamplesStored`, which speaks of states at rest before a failure. Inductive with
  `FreshStart`: a process that is down starts from the first line, whatever it had
  stored before. A row of `d$` may go back to an older line while a late backend
  replays; what holds throughout is that a line that every backend has gone through is
  there, from it or from a later one (`Filed`).
* `TableAgrees`: if no statement fails and there are fewer than four pairs of a
  backend and a rule (`FewEvents`: the closing loop may skip an entry from four on),
  `[]RestMatchesLine`. `MemoryInv` says what a backend between two statements has done
  with its line (`Progress`) and `Remembers` what its memory is worth. An open row may
  be ended by someone else, so memory does not determine the table; `LastEnder` is
  what does: when a rule has no open row, the one who ended the last one does not track
  it any more and opens a row when the line crosses.
* `EndedIsFinal`, `OpenRowsAgree`, `RowsAreEpisodes`: for one backend (`Lone`).
  `LoneInv` adds that what it remembers is open (`Holds`), which another backend would
  falsify. `OpenRowsAgree` needs `FewEvents`, too; `RowsAreEpisodes` moreover
  `Grain = 1`, since the line a row starts on is told by its timestamp. `Chronicle`
  says of each row that it starts on a line that crosses, ends on one that has returned
  (`Dated`) and holds no other such line (`Unbroken`), and of each parsed line that its
  crossed rules have a row around it (`Covered`).

`ConnectionPoolProofs`, for any set of agents and connections and any pool size:

* `TypeCorrect`, `NobodyShares` (`[]Exclusive`). Nothing in the code locks an
  object, so that nobody shares a connection depends on who works for whom
  (`Control`): each thread calls for its own objects and the alerter only, main
  initialises an agent before that agent has a thread, and the alerter, which all
  share, is never released. The race for the alerter overwrites a pointer, but
  with a connection that is in use for nobody else.
* `CounterExplained`: if agents and connections are finitely many and `Wrap`
  exceeds pool size plus threads, `[]CountExplained`. That the counter does not
  wrap is part of the induction: it plus the threads that have yet to add is at
  most the pool size plus the number of threads. A count stays for each dead
  connection and for each one refused to a new agent (`leaked`); a restart ends all.
* `FewLost`: if there are finitely many agents and at least one, `[]LostOnlyInRace`.
  `RaceInv` says that main asks for the alerter's connection only before any agent has
  its thread (`BootFirst`), that any other object is asked for by one thread and has no
  connection then (`AsksOnce`), and that from the alerter's first connection on, the
  connections nobody has and the threads that still ask for it are together fewer than
  the agents (`Racing`): who asks now began before, and each can lose one.
* `LeasesImplemented`: under the same hypothesis, `Spec => ImplementsLeases`. Each step
  of a thread leaves the leases alone, lends one connection or takes one back
  (`LeaseStep`), and each of these is a step of `ConnectionLeases` (`StepsOfLeases`).
  It needs `Control` (who releases has the connection, and nobody else does) and
  `AsksOnce` (who is handed a connection, the alerter apart, had none). `pool_live`
  checks it with one agent and a dead or refused connection or a torn update; with two agents
  that race for the alerter it rests on the theorem.

`BackendHistoryProofs`, for any number of backends and any times with `Slack <
Lag <= Silence`: `TypeCorrect`, `FailedMeansSilent`, `DeathIsNoticed`, and the
action properties `NoFlood` and `LiveStaysOk`. The argument is about ages. A
round is never older than `Slack`, so a heartbeat that is being written is younger
than any mark, which is `Lag` old when it is written (`Prompt`, `MarksOld`); a
process whose heartbeats are accepted sleeps at most a period behind its last one
(`Beating`); a process that has been up since before another one died has marked
it or is still before the first of its rounds that could (`Watching`), or one of its
marks was refused, and each refusal moves that point by a round (`Delay`).

`HttpClientProofs`, for any framings and number of calls: `TypeCorrect`, `FourGets`
(`AtMostFourGets`, a theorem only: each try writes its request once, and once more if the connection was renewed,
which is marked by `reconnecting`), `FewConnections` (connections in use that are
not the call's are at most as many as headers that made the parser throw, and
`get_connection` makes one only if all others are in use), `EveryCallCounted`
(also of a report that is lost).
Two more need an invariant about what is on the connections:

* `OneIsSurvived`: `[]OneMishapIsSurvived`. `SurvInv` is an account: a call has met a mishap
  for each try after the first, one for the reconnection this try has used, and one more
  for a connection the agent has closed under it (`Cost`, `Paid`), unless that is how the
  reply ends: the header of an until-close reply is on the wire or has been read
  (`Reading`). With a budget of two mishaps, a call that fails has used both.
* `BrokenMeansGarbled`: `[]ParseNeedsGarbled`. As long as nothing was garbled (`Clean`), all
  connections but the call's are quiet, that is nothing is on the wire or to be sent, and
  on the call's own there is one reply: what was read, what is on the wire and what is to
  be sent are, in this order, its units (`Sent`, `Whole`), and the content buffer holds
  nothing of a first reply (`junk`). What breaks this is a header that was cut or a body
  whose end nothing tells, and that is what `garbled` records.

`ConfigurationProofs`, for any documents: `TypeCorrect`, `ThreadsOnlyRead`
(`[]NothingToInsert`: at each stage `data` has the settings of all stages before
it, also across a save) and `SettingsSurvive` (`[]WishKept`: the file, and `data` until its last save, have the
settings of one of the operator's documents `wishes` up to the spelling of the level, which
is normalised at most once because `Normal` is idempotent; a file that is no document is the
trace of a save that is going on or was cut off, and no start-up gets past it).

`ServiceCollectProofs`, for any finite sets of backends and parts and any services,
levels and lines:

* `TypeCorrect`: `Typed` adds to the types what relates a collect to the tables
  (`Place`, `Lines`: its lines were sent, are of the service it is on, and are either
  still to visit or in the batch) and that its counters sum to the parts visited.
* `NothingMissing`: if no statement fails and all backends collect the same agent's
  services, `[]ReportedNotMissing`. `AllCovered` says that each reported service has
  its row of the round or is still to be visited; when the missing ones are looked
  for none is left to visit. Only services that were once gone stay out.
* `OncePerBackend`: `[]LogAlertedOnce`. `AllAlerted` weighs each line: as long as it
  is not stored, only failures have put it in a batch; once it is, each backend that
  already looked for it may alert it once, and nobody else looks past the row.
* `LossesExplained`: `[]LogNotSilent`. `NotSilent` counts with the services of lost
  lines the batches that will be let go without an alert (`Mute`: lines, but no known
  level, which took a failure of the type's lookup). A crash or failure adds one to
  either; letting a mute batch go moves one from the second to the first.
* `FailuresTold`: `[]FailureTold`. `ToldInv`: as long as collects do not overlap, one
  backend collects at a time and has the latest timestamp (`Alone`). The services with a
  part that is failed in the table and was told to be ok, or that was found well but could
  not be stored (`Untold`, `Missed`), leaving out those the collect will still tell of
  (`WillTell`), are at most as many as crashes and failures.
* `RoundsRecorded`: `[]RoundRecorded`. `RoundInv` follows a round: the counters count the
  parts visited (`Counted`); the services the loop is through with have their row, and of
  the hosts it is done with each known service has (`Going`), at the end all (`Over`);
  a request that failed leaves no row of its time (`NoRows`).

`AgentApiProofs`, for any documents, names, columns and backends (`ApiAssumption`: a
path has a resource and a host and perhaps a service, in this order, and each
definition a path refers to is there):

* `TypeCorrect`, `IdsAgree` (`[]SameIds`), with every failure. `ApiInv` says what the
  place of a thread is worth: the ids it has found so far are 0 or those of rows with the
  name in hand (`FoundIds`), no two rows have one key (`NamesOK`), and each client was made
  from such rows (`ClientOK`). Rows are never removed, so what a thread has read stays true
  while others insert.
* `ClientsLinked` (`[]Linked`) and, for finitely many paths, `DefinitionsAlive`
  (`[]DefsAlive`), both of states without a fault so far. `CalmInv` says that each client has
  its row in `links` and that no two clients have one path (`Kin`), that of the document's
  paths those the thread has left behind have a client with a renewed definition
  (`Pathing`), then all of them, and that a collect only finds clients of the document's
  paths, for `TablesDone` has erased the others (`Named`).

`AggregationProofs`, for any number of backends, any samples, delays, retentions and
lengths of an hour and a day; each theorem rests on the invariant of the one before:

* `TypeCorrect`: `ShapeInv` has that no table holds two rows of one span, although the
  primary keys are only added after a table is made: each insert starts after the last
  row, and a table is created from rows grouped by span.
* `MinutesExact`: `[]MinuteExact`, if `d$` keeps samples for as long as they may come late
  (`Kept`). `MinuteInv`: the purge of `d$` takes whole days, of which no sample is still to
  come (`DataWhole`), and a minute that has a row is complete for good (`MinuteRows`).
* `HoursExact`: `[]HourExact`, if days are of whole hours (`Aligned`) and `d$` keeps a
  sample for `delay_am` and the lateness of a thread (`KeptForMinutes`). That all samples of
  an hour are in `am$` when the hour is condensed is a fact about a thread, not about the
  tables: one that made `am$` or has filled it in this turn (`AmDone`) knows that what is
  missing of a begun hour is younger than `delay_am` was at its `fp` (`WholeTo`), and it comes
  to its hours only if no statement before failed. `Delay["am"] + Slack <= Delay["ah"] * Hour`
  puts an old hour before that point. Rows of minutes are filled in order
  (`GroupedByHour`), and an hour that has a row is complete for good (`HourSamples`).
* `NothingLost`: `[]NeverLost`, if `am$` keeps what a late thread has yet to condense, as
  well (`KeptForHours`). `LostInv`: a sample is in `d$`, in `am$` or safe, that is in `ah$` or
  too old for it (`Held`); what is older than a sample in `am$` is there too or safe
  (`MinutesHeld`), and so for hours; and a thread behind its insert knows up to when
  everything was taken over (`FilledTo`, `HoursFilledTo`), which is later than what the
  purge that follows may take.
* `CaughtUp`: `[]Timely`, under the same conditions. Of the delays `CaughtInv` needs no more than that
  samples are late by at most `delay_am`: what is left in `d$` and not later than a sample of
  `am$` is there, or was (`MinutesCaught`), so that an insert, which only takes what is newer
  than the last row, leaves nothing old behind, whatever failed before. A thread remembers
  it through the turn and its sleep (`AmFilled`, `AhFilled`); two turns are never at one time,
  hence `next_med` tells whether hours were due in the last (`Paced`).

The defaults of `sql/schema.sql:55` (30 minutes, 2 hours; 14 and 60 days) satisfy these
hypotheses, and so do the constants of the run.

Only model-checked:

* `EventsEnd`, `LoopsTurn`, `Settles`, `Returns` and `ComesUp`: liveness under
  fairness, whose proofs need `ENABLED`. Every safety property of the runs is proved.

## 6. Not modelled

* The alerter plugins themselves: loading, subscriptions (`p$alert_*`) and what a
  Lua script does with an alert, except the levels `email.lua` drops. They are
  calls without shared state, and the scripts are the user's.
* The concurrent use of the alerter's one MySQL connection
  (`alerter.cpp:160`): undefined in the client library.
* The day rows of the aggregation beyond their loss, keys, indexes and `all$`.
* Schema, views and permission procedures, for a front-end that is elsewhere.
* selene (template glue around Lua) and `server_http.hpp` (not included by this
  program).
