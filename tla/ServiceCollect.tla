--------------------------- MODULE ServiceCollect ---------------------------
(***************************************************************************)
(* The first half of agentClient::collect: what an agent says about its    *)
(* services goes to the tables s$log_events, s$process, s$sockets and      *)
(* s$history; new log lines and new failures go to the alerterManager.     *)
(*                                                                         *)
(* Each action is one statement or one alert of one backend's agent        *)
(* thread, so that the threads of several backends, and crashes, come      *)
(* between any two of them.  Looking up an id belongs to the action that   *)
(* uses it; names stand for the ids of hosts, services and lines.  A part  *)
(* is a process or a socket of a service: the two loops differ in the      *)
(* columns they write.                                                     *)
(***************************************************************************)
EXTENDS Integers, Sequences, FiniteSets

CONSTANTS
    Backends,    \* backends, each with one agent thread
    Services,    \* rows s$services may hold
    Reports,     \* backend -> services its agent may report
    HostOf,      \* service -> host
    Parts,       \* processes and sockets
    ServiceOf,   \* part -> service
    Levels,      \* level names of log lines, in lower case
    MaxEntries,  \* bound: log lines
    MaxChanges,  \* bound: changes of services and parts
    MaxRounds,   \* bound: rounds of collect, of all backends together
    MaxMishaps   \* bound: crashes, failing statements and replies, together

None == "none"

ASSUME ServicesAssumption ==
    /\ Reports \in [Backends -> SUBSET Services]
    /\ HostOf \in [Services -> STRING]
    /\ ServiceOf \in [Parts -> Services] /\ None \notin Parts
    /\ IsFiniteSet(Backends) /\ IsFiniteSet(Parts)
    /\ {MaxEntries, MaxChanges, MaxRounds, MaxMishaps} \subseteq Nat

VARIABLES
    entries,     \* log lines of the services, oldest first
    up,          \* services the agents report
    status,      \* part -> its status at the agent
    eventTypes,  \* table c$event_types: the id of a name is its index
    logTable,    \* table s$log_events: line -> event_type
    partTable,   \* tables s$process and s$sockets: part -> status, or None
    known,       \* table s$services
    history,     \* table s$history: <<service, timestamp>> -> counters
    thread,      \* backend -> members and local variables of its collect
    alerted,     \* line -> times an alert showed it
    mailed,      \* lines email.lua mailed
    told,        \* ghost: part -> status the last alert since it was ok covered
    gone,        \* ghost: services that were not reported at some time
    overlap,     \* ghost: two backends were in collect at the same time
    clock, changes, crashes, faults

agent == <<entries, up, status, gone, changes>>
logs == <<eventTypes, logTable, alerted, mailed>>
states == <<partTable, told>>
services == <<known, history>>
time == <<clock, overlap>>
vars == <<agent, logs, states, services, time, thread, crashes, faults>>

\* schema.sql fills c$event_types in this order; alerter::levels counts upwards
\* from ok to critical
SeededTypes == <<"critical", "error", "warning", "notice", "information">>
Level == [ok |-> 0, info |-> 1, notice |-> 2, warning |-> 3, error |-> 4, critical |-> 5]

\* email.lua returns without a mail for every other level
Mails(level) == level \in {Level.critical, Level.error, Level.warning}

OfService(s) == {p \in Parts : ServiceOf[p] = s}
Least(S) == {x \in S : \A y \in S : x <= y}
Larger(x, y) == IF x < y THEN y ELSE x
Put(f, k, v) == [x \in DOMAIN f \cup {k} |-> IF x = k THEN v ELSE f[x]]

Counters == [failed : Nat, missing : Nat, ok : Nat]

TypeTables ==
    /\ entries \in Seq([service : Services, level : Levels]) /\ Len(entries) <= MaxEntries
    /\ up \subseteq Services /\ known \subseteq Services
    /\ status \in [Parts -> {"ok", "ko"}]
    /\ partTable \in [Parts -> {"ok", "ko", None}]
    /\ \A i \in DOMAIN logTable : i \in 1..Len(entries) /\ logTable[i] \in 0..Len(eventTypes)
    /\ \A k \in DOMAIN history : k \in Services \X (1..clock) /\ history[k] \in Counters

TypeThread(t) ==
    /\ t.pc \in {"down", "idle", "ask", "next", "log", "store", "parts", "storepart", "history"}
    /\ t.since \in 0..Len(entries) /\ t.ts \in 0..clock
    /\ t.pc \in {"log", "store", "parts", "storepart", "history"} => t.service \in Services
    /\ t.pc = "storepart" <=> t.part # None
    /\ t.logs \cup t.batch \subseteq 1..t.reply.last
    /\ t.maxlvl \in 0..Len(eventTypes)
    /\ t.nfailed <= t.failed
    /\ t.failed + t.ok + Cardinality(t.parts) <= Cardinality(Parts)

TypeOK ==
    /\ TypeTables
    /\ \A b \in Backends : TypeThread(thread[b])
    /\ crashes + faults <= MaxMishaps

\* A reply without services, and a process that has collected nothing
Silent == [up |-> {}, status |-> [p \in Parts |-> "ok"], first |-> 1, last |-> 0]
Fresh == [pc      |-> "down", \* where it is
          ts      |-> 0,      \* fp_ms
          since   |-> 0,      \* agentClient::since, as the last line it covers
          reply   |-> Silent, \* data, the agent's answer
          todo    |-> {},     \* services of the reply still to visit
          hosts   |-> {},     \* hosts seen
          service |-> None,   \* the service the loop is on
          logs    |-> {},     \* its log lines still to visit
          batch   |-> {},     \* its new lines: the text of the alert
          maxlvl  |-> 0,
          parts   |-> {},     \* its parts still to visit
          part    |-> None,   \* the failed part to store next
          failed  |-> 0, nfailed |-> 0, ok |-> 0]

Init ==
    /\ entries = << >> /\ up = Services /\ status = [p \in Parts |-> "ok"]
    /\ eventTypes = SeededTypes
    /\ logTable = [i \in {} |-> 0] /\ partTable = [p \in Parts |-> None]
    /\ known = {} /\ history = [k \in {} |-> 0]
    /\ thread = [b \in Backends |-> Fresh]
    /\ alerted = [i \in 1..MaxEntries |-> 0] /\ mailed = {}
    /\ told = [p \in Parts |-> "ok"] /\ gone = {} /\ overlap = FALSE
    /\ clock = 0 /\ changes = 0 /\ crashes = 0 /\ faults = 0

\* a statement that fails: logged by myqExec or myqCatch, then forgotten
Fault == crashes + faults < MaxMishaps /\ faults' = faults + 1
Works == UNCHANGED faults

At(b, place) == thread[b].pc = place
Set(b, t) == thread' = [thread EXCEPT ![b] = t] /\ UNCHANGED <<agent, crashes>>
Go(b, place) == Set(b, [thread[b] EXCEPT !.pc = place])

(***************************************************************************)
(* Environment: the agents and the processes                               *)
(***************************************************************************)
AgentLogs ==
    /\ Len(entries) < MaxEntries
    /\ \E s \in up, l \in Levels : entries' = Append(entries, [service |-> s, level |-> l])
    /\ UNCHANGED <<up, status, gone, changes, logs, states, services, time, thread, crashes, faults>>

AgentChanges ==
    /\ changes < MaxChanges /\ changes' = changes + 1
    /\ \/ \E s \in up : up' = up \ {s} /\ gone' = gone \cup {s} /\ UNCHANGED status
       \/ \E s \in Services \ up : up' = up \cup {s} /\ UNCHANGED <<gone, status>>
       \/ \E p \in Parts :
             /\ status' = [status EXCEPT ![p] = IF @ = "ok" THEN "ko" ELSE "ok"]
             /\ UNCHANGED <<up, gone>>
    /\ UNCHANGED <<entries, logs, states, services, time, thread, crashes, faults>>

Start(b) ==
    /\ At(b, "down")
    /\ Go(b, "idle")
    /\ UNCHANGED <<logs, states, services, time, faults>>

\* The process dies, also by an alert whose name lookup fails
Crash(b) ==
    /\ ~ At(b, "down")
    /\ crashes + faults < MaxMishaps /\ crashes' = crashes + 1
    /\ thread' = [thread EXCEPT ![b] = Fresh]
    /\ UNCHANGED <<agent, logs, states, services, time, faults>>

(***************************************************************************)
(* The request: fp_ms is read before it, since is set right after it.      *)
(***************************************************************************)
ReadClock(b) ==
    /\ At(b, "idle") /\ clock < MaxRounds
    /\ clock' = clock + 1
    /\ Set(b, [thread[b] EXCEPT !.ts = clock + 1, !.pc = "ask"])
    /\ overlap' = (overlap \/ \E o \in Backends \ {b} : thread[o].pc \notin {"down", "idle"})
    /\ UNCHANGED <<logs, states, services, faults>>

Answer(b, r, since) ==
    /\ At(b, "ask")
    /\ Set(b, [thread[b] EXCEPT !.reply = r, !.since = since, !.todo = r.up, !.pc = "next"])
    /\ UNCHANGED <<logs, states, services, time>>

\* The agent sends the lines it has not sent since, or all of them again
Request(b) ==
    /\ \E first \in {1, thread[b].since + 1} :
          Answer(b, [up |-> up \cap Reports[b], status |-> status,
                     first |-> first, last |-> Len(entries)], Len(entries))
    /\ Works

\* An error body has neither services nor a timestamp
RequestErrorBody(b) == Answer(b, Silent, 0) /\ Fault

RequestFails(b) ==
    /\ At(b, "ask")
    /\ Go(b, "idle")
    /\ UNCHANGED <<logs, states, services, time, faults>>

(***************************************************************************)
(* The loop over the services of the reply: the logs.  Not modelled: a     *)
(* lookup of the host or the service that fails gives the id 0, with which *)
(* every statement about the service breaks a foreign key; nothing of it   *)
(* is stored in that round.                                                *)
(***************************************************************************)
NextService(b) ==
    /\ At(b, "next")
    /\ \E s \in thread[b].todo :
          LET t == thread[b]
              sent == {i \in t.reply.first..t.reply.last : entries[i].service = s}
          IN  /\ known' = known \cup {s}
              /\ Set(b, [t EXCEPT !.pc = "log", !.todo = @ \ {s}, !.hosts = @ \cup {HostOf[s]},
                                  !.service = s, !.logs = sent, !.parts = OfService(s)])
    /\ UNCHANGED <<logs, states, history, time, faults>>

NeverHave(i) == FALSE  \* deviation: the line is not looked up
HaveLogEvent(i) == i \in DOMAIN logTable

\* A known line is skipped; a count that fails is taken for "no"
LookLog(b) ==
    /\ At(b, "log")
    /\ \E i \in Least(thread[b].logs) :
          \/ HaveLogEvent(i) /\ Set(b, [thread[b] EXCEPT !.logs = @ \ {i}]) /\ Works
          \/ ~ HaveLogEvent(i) /\ Go(b, "store") /\ Works
          \/ HaveLogEvent(i) /\ Go(b, "store") /\ Fault
    /\ UNCHANGED <<logs, states, services, time>>

\* getEventType: the id of a name, which is inserted when it is new
NewType(l) == l \notin {eventTypes[k] : k \in DOMAIN eventTypes}
EventTypes(l) == IF NewType(l) THEN Append(eventTypes, l) ELSE eventTypes
EventTypeId(l) == CHOOSE k \in DOMAIN EventTypes(l) : EventTypes(l)[k] = l

\* The line is stored with the id of its level, or with 0 when that lookup fails,
\* or not at all.  A line that is there by now keeps its event_type.
StoreLog(b) ==
    /\ At(b, "store")
    /\ \E i \in Least(thread[b].logs) :
          LET l  == entries[i].level
              id == EventTypeId(l)
              Store(type) == logTable' = Put(logTable, i, IF HaveLogEvent(i) THEN logTable[i] ELSE type)
              Collected(type) ==
                  Set(b, [thread[b] EXCEPT !.pc = "log", !.logs = @ \ {i}, !.batch = @ \cup {i},
                                           !.maxlvl = Larger(@, type)])
          IN  \/ Store(id) /\ Collected(id) /\ eventTypes' = EventTypes(l) /\ Works
              \/ Store(0) /\ Collected(0) /\ eventTypes' \in {eventTypes, EventTypes(l)} /\ Fault
              \/ Collected(id) /\ eventTypes' = EventTypes(l) /\ Fault /\ UNCHANGED logTable
    /\ UNCHANGED <<alerted, mailed, states, services, time>>

Alarming(level) == level > 1  \* deviation: "maxlvl > 1"
WorthSending(level) == level > 0

\* alert->sendLog with all new lines and the largest of their event types, which
\* email.lua reads as an alerter::levels; the select of who is told may fail
LogsDone(b) ==
    LET t == thread[b] IN
    /\ At(b, "log") /\ t.logs = {}
    /\ \/ /\ WorthSending(t.maxlvl)
          /\ alerted' = [i \in DOMAIN alerted |-> alerted[i] + (IF i \in t.batch THEN 1 ELSE 0)]
          /\ mailed' = IF Mails(t.maxlvl) THEN mailed \cup t.batch ELSE mailed
          /\ Works
       \/ WorthSending(t.maxlvl) /\ Fault /\ UNCHANGED <<alerted, mailed>>
       \/ ~ WorthSending(t.maxlvl) /\ Works /\ UNCHANGED <<alerted, mailed>>
    /\ Set(b, [t EXCEPT !.batch = {}, !.maxlvl = 0, !.pc = "parts"])
    /\ UNCHANGED <<eventTypes, logTable, states, services, time>>

(***************************************************************************)
(* Its processes and sockets                                               *)
(***************************************************************************)
HaveRow(p, st) == partTable[p] # None  \* deviation: any row of the part will do
HaveStatus(p, st) == partTable[p] = st

PartOk(b) ==
    /\ At(b, "parts")
    /\ \E p \in thread[b].parts :
          /\ thread[b].reply.status[p] = "ok"
          /\ Set(b, [thread[b] EXCEPT !.parts = @ \ {p}, !.ok = @ + 1])
          /\ \/ /\ partTable' = [partTable EXCEPT ![p] = "ok"]
                /\ told' = [told EXCEPT ![p] = "ok"]
                /\ Works
             \/ Fault /\ UNCHANGED states
    /\ UNCHANGED <<logs, services, time>>

LookPart(b) ==
    /\ At(b, "parts")
    /\ \E p \in thread[b].parts :
          LET st == thread[b].reply.status[p]
              Failed(new) == Set(b, [thread[b] EXCEPT !.parts = @ \ {p}, !.part = p, !.pc = "storepart",
                                                      !.failed = @ + 1, !.nfailed = @ + new])
          IN  /\ st # "ok"
              /\ \/ HaveStatus(p, st) /\ Failed(0) /\ Works
                 \/ ~ HaveStatus(p, st) /\ Failed(1) /\ Works
                 \/ HaveStatus(p, st) /\ Failed(1) /\ Fault
    /\ UNCHANGED <<logs, states, services, time>>

StorePart(b) ==
    LET t == thread[b] IN
    /\ At(b, "storepart")
    /\ \/ partTable' = [partTable EXCEPT ![t.part] = t.reply.status[t.part]] /\ Works
       \/ Fault /\ UNCHANGED partTable
    /\ Set(b, [t EXCEPT !.part = None, !.pc = "parts"])
    /\ UNCHANGED <<told, logs, services, time>>

\* alert->sendService when a part has failed anew; the message names how many
\* parts of the service have failed
PartsDone(b) ==
    LET t == thread[b] IN
    /\ At(b, "parts") /\ t.parts = {}
    /\ \/ /\ t.nfailed > 0
          /\ told' = [p \in Parts |-> IF p \in OfService(t.service) THEN t.reply.status[p] ELSE told[p]]
          /\ Works
       \/ t.nfailed > 0 /\ Fault /\ UNCHANGED told
       \/ t.nfailed = 0 /\ Works /\ UNCHANGED told
    /\ Go(b, "history")
    /\ UNCHANGED <<partTable, logs, services, time>>

ResetCounters(t) == [t EXCEPT !.failed = 0, !.nfailed = 0, !.ok = 0]

History(b) ==
    LET t == thread[b] IN
    /\ At(b, "history")
    /\ \/ /\ history' = Put(history, <<t.service, t.ts>>,
                            [failed |-> t.failed, missing |-> 0, ok |-> t.ok])
          /\ Works
       \/ Fault /\ UNCHANGED history
    /\ Set(b, ResetCounters([t EXCEPT !.service = None, !.pc = "next"]))
    /\ UNCHANGED <<known, logs, states, time>>

(***************************************************************************)
(* The services of the hosts seen that have no row since fp_ms: missing,   *)
(* with as many parts as the tables hold for them.                         *)
(***************************************************************************)
WithoutLaterRow(h, t) ==  \* deviation: "timestamp > t"
    {s \in known : HostOf[s] = h /\ ~ \E k \in DOMAIN history : k[1] = s /\ k[2] > t}
WithoutAnyRow(h, t) ==  \* deviation: no condition on the timestamp
    {s \in known : HostOf[s] = h /\ ~ \E k \in DOMAIN history : k[1] = s}

WithoutRow(h, t) ==
    {s \in known : HostOf[s] = h /\ ~ \E k \in DOMAIN history : k[1] = s /\ k[2] >= t}

PartsMissing(s) ==
    [failed |-> 0, missing |-> Cardinality({p \in OfService(s) : partTable[p] # None}), ok |-> 0]

Missing(b) ==
    LET t == thread[b] IN
    /\ At(b, "next") /\ t.todo = {}
    /\ \E h \in t.hosts :
          /\ Set(b, [t EXCEPT !.hosts = @ \ {h}])
          /\ \/ /\ LET new == {<<s, t.ts>> : s \in WithoutRow(h, t.ts)}
                   IN  history' = [k \in DOMAIN history \cup new |->
                                      IF k \in new THEN PartsMissing(k[1]) ELSE history[k]]
                /\ Works
             \/ Fault /\ UNCHANGED history
    /\ UNCHANGED <<known, logs, states, time>>

CollectDone(b) ==
    /\ At(b, "next") /\ thread[b].todo = {} /\ thread[b].hosts = {}
    /\ Go(b, "idle")
    /\ UNCHANGED <<logs, states, services, time, faults>>

Collect(b) ==
    \/ ReadClock(b) \/ Request(b) \/ RequestErrorBody(b) \/ RequestFails(b)
    \/ NextService(b) \/ LookLog(b) \/ StoreLog(b) \/ LogsDone(b)
    \/ PartOk(b) \/ LookPart(b) \/ StorePart(b) \/ PartsDone(b)
    \/ History(b) \/ Missing(b) \/ CollectDone(b)

Next ==
    \/ AgentLogs \/ AgentChanges
    \/ \E b \in Backends : Start(b) \/ Crash(b) \/ Collect(b)

Spec == Init /\ [][Next]_vars

-----------------------------------------------------------------------------
(***************************************************************************)
(* Properties                                                              *)
(***************************************************************************)
AtRest == \A b \in Backends : At(b, "idle") \/ At(b, "down")

\* A log line is alerted at most once by each backend, whatever is sent again
\* after a restart (since starts at 0) and whoever stored it first; each failure
\* may repeat it once (haveLogEvent, agentClient.cpp:262).
LogAlertedOnce ==
    \A i \in 1..Len(entries) : alerted[i] <= Cardinality(Backends) + faults

\* A line in s$log_events that no alert showed and that is in no pending one is
\* the loss of a crash between the insert and sendLog, or of a failure: each
\* loses the lines of one service.
LogNotSilent ==
    LET pending == UNION {thread[b].batch : b \in Backends}
        silent  == {i \in DOMAIN logTable : alerted[i] = 0} \ pending
    IN  Cardinality({entries[i].service : i \in silent}) <= crashes + faults

\* When collects do not overlap, a part that the tables show as failed was shown
\* in an alert since it was last ok, whichever backends looked.  A crash or a
\* failure loses one service's alert.
FailureTold ==
    AtRest /\ ~ overlap =>
        Cardinality({ServiceOf[p] : p \in {q \in Parts : partTable[q] = "ko" /\ told[q] = "ok"}})
            <= crashes + faults

\* A service its agent always reported is never recorded as missing: its row is
\* there before the missing ones are looked for, also by the other backends.
ReportedNotMissing ==
    faults = 0 => \A k \in DOMAIN history :
        history[k].missing > 0 => k[1] \in gone

\* After the latest collect, if none overlapped it, every service of the hosts it
\* saw has a row of that round, and the reported ones have in it what the reply
\* said of each part: nothing is missing and nothing is counted twice.
RoundRecorded ==
    \A b \in Backends :
        LET t == thread[b]
            answered == {s \in t.reply.up : <<s, t.ts>> \in DOMAIN history}
            count(s, st) == Cardinality({p \in OfService(s) : (t.reply.status[p] = "ok") = st})
        IN (AtRest /\ ~ overlap /\ faults = 0 /\ At(b, "idle") /\ t.ts = clock /\ answered # {}) =>
            /\ \A s \in known : HostOf[s] \in {HostOf[r] : r \in answered} =>
                  <<s, t.ts>> \in DOMAIN history
            /\ \A s \in answered : history[<<s, t.ts>>] =
                  [failed |-> count(s, FALSE), missing |-> 0, ok |-> count(s, TRUE)]

\* luaAlerters/email.lua:12: "do nothing with lvl==info alerts".  Lines of the
\* levels critical, error and warning that were alerted have been mailed.
SevereMailed ==
    \A i \in 1..Len(entries) :
        alerted[i] > 0 /\ entries[i].level \in {"critical", "error", "warning"} => i \in mailed
=============================================================================
