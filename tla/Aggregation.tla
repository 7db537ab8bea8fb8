---------------------------- MODULE Aggregation ----------------------------
(***************************************************************************)
(* statAggregator: the threads of several backends that condense the data  *)
(* of one type into rows per minute (am$), hour (ah$) and day (ad$) and    *)
(* purge what is old.  One resource: the statements treat resources apart. *)
(* Each statement is a step and reads the clock itself.  Time is counted   *)
(* in minutes, with hours and days of a few.                               *)
(*                                                                         *)
(* A row is [at, of]: the start of its span and the samples it condenses.  *)
(***************************************************************************)
EXTENDS Integers, Sequences, FiniteSets

CONSTANTS
    Backends, Samples,
    Stamp,        \* sample -> the minute of its timestamp
    Late,         \* a sample is stored at most so much later
    Hour, Day,    \* minutes
    Begin,        \* the clock at first
    ThreadFreq,   \* thread_freq, minutes, as long as no type has a smaller delay_am
    Delay,        \* delay_am, delay_ah, delay_ad, in minutes, hours and hours
    Retention,    \* of d$, am$, ah$, ad$, in days; 0 for ever
    Slack,        \* bound: a thread is late by at most so much
    MaxTime,      \* bound: the clock
    MaxMishaps    \* bound: crashes and failed statements

Levels == {"am", "ah", "ad"}
Tables == Levels \cup {"d"}

ASSUME AggregationAssumption ==
    /\ {Begin, Late, Slack, ThreadFreq, MaxTime, MaxMishaps} \subseteq Nat
    /\ Begin <= MaxTime
    /\ Hour \in Nat \ {0} /\ Day \in Nat \ {0}
    /\ Stamp \in [Samples -> Nat] /\ \A s \in Samples : Hour <= Stamp[s]
    /\ Delay \in [Levels -> Nat] /\ Delay["am"] > 0
    /\ Retention \in [Tables -> Nat]

VARIABLES
    now,
    stored,     \* samples that were ever inserted into d$
    rows,       \* of each table, or None
    columns,    \* columns of each table: 1, or 2 once d$ was given another
    backend,    \* see Off
    resumed,    \* history: ah$ was made by a set-up that had found am$
    mishaps

\* No such table: what no table is, for none has a row before the epoch
None == {[at |-> -1, of |-> {}]}

vars == <<now, stored, rows, columns, backend, resumed, mishaps>>

\* base: base_am, base_ah and base_ad are "none" yet, "whole" or "cut", and name cols
\* columns; haveAM: as set-up found it; next: next_low, next_med and next_high; fp: fp_ms; todo: statements of
\* this turn; broken: the text of one that failed is still in the query
Off == [pc |-> "off", base |-> "none", cols |-> 0, haveAM |-> FALSE, next |-> [l \in Levels |-> 0],
        fp |-> 0, wake |-> 0, todo |-> <<>>, broken |-> FALSE]

Init ==
    /\ now = Begin
    /\ stored = {} /\ rows = [t \in Tables |-> IF t = "d" THEN {} ELSE None]
    /\ columns = [t \in Tables |-> 1]
    /\ backend = [b \in Backends |-> Off]
    /\ resumed = FALSE /\ mishaps = 0

Become(b, me) == backend' = [backend EXCEPT ![b] = me]
At(b, p)      == backend[b].pc = p
Works         == UNCHANGED mishaps
Mishap        == mishaps < MaxMishaps /\ mishaps' = mishaps + 1

(***************************************************************************)
(* Time, samples, columns, processes                                       *)
(***************************************************************************)
Tick ==
    /\ now < MaxTime /\ now' = now + 1
    /\ \A b \in Backends :
          ~ At(b, "off") => now < Slack + IF At(b, "sleep") THEN backend[b].wake ELSE backend[b].fp
    /\ UNCHANGED <<stored, rows, columns, backend, resumed, mishaps>>

Store(s) ==
    /\ s \notin stored /\ now \in Stamp[s]..(Stamp[s] + Late)
    /\ stored' = stored \cup {s}
    /\ rows' = [rows EXCEPT !["d"] = @ \cup {[at |-> Stamp[s], of |-> {s}]}]
    /\ UNCHANGED <<now, columns, backend, resumed, mishaps>>

\* createTables gives d$ a column; the TODO at statAggregator.cpp:78 is not done
AddColumn ==
    /\ columns["d"] = 1
    /\ columns' = [columns EXCEPT !["d"] = 2]
    /\ UNCHANGED <<now, stored, rows, backend, resumed, mishaps>>

Start(b) ==
    /\ At(b, "off")
    /\ Become(b, [Off EXCEPT !.pc = "sleep", !.wake = now])
    /\ UNCHANGED <<now, stored, rows, columns, resumed, mishaps>>

Crash(b) ==
    /\ ~ At(b, "off") /\ Mishap
    /\ Become(b, Off)
    /\ UNCHANGED <<now, stored, rows, columns, resumed>>

(***************************************************************************)
(* The queries                                                             *)
(***************************************************************************)
Source == [am |-> "d", ah |-> "am", ad |-> "ah"]
Width  == [am |-> 1, ah |-> Hour, ad |-> Day]
Span(l, t) == (t \div Width[l]) * Width[l]

\* Deviations: less delay by one; hours compared with minutes
OldEarly(l, t) == t \div Width[l] <= now \div (IF l = "am" THEN 1 ELSE Hour) - Delay[l]
OldUnits(l, t) == t \div Width[l] < now - Delay[l]

\* Days are compared with hours: a day is always old
Old(l, t) == t \div Width[l] < now \div (IF l = "am" THEN 1 ELSE Hour) - Delay[l]

Last(l) == IF rows[l] = {} THEN 0 ELSE CHOOSE t \in {r.at : r \in rows[l]} : \A r \in rows[l] : r.at <= t

Condensed(l, old) ==
    {[at |-> k, of |-> UNION {r.of : r \in {x \in old : Span(l, x.at) = k}}]
        : k \in {Span(l, r.at) : r \in old}}

\* What create table ... as select takes
AllOld(l) == {r \in rows[Source[l]] : Old(l, r.at)}

\* What the insert takes: spans after the last row; for days the resources are looked
\* up in ad$ and am$
NewerOld(l) ==
    {r \in AllOld(l) : /\ Span(l, r.at) > Last(l)
                       /\ l = "ad" => rows["ad"] # {} \/ rows["am"] \notin {{}, None}}

Expired(t, at) == Retention[t] > 0 /\ at < (now \div Day - Retention[t]) * Day

(***************************************************************************)
(* A turn: the set-up of the type when it is new, then what is due         *)
(***************************************************************************)
\* Deviation: minutes are condensed every hour
PeriodHours == [am |-> Delay["am"] * Hour, ah |-> Hour, ad |-> Day \div 2]

Period == [am |-> Delay["am"], ah |-> Hour, ad |-> Day \div 2]

Purge(t) == IF Retention[t] > 0 THEN <<[kind |-> "purge", table |-> t]>> ELSE <<>>

\* Insert and purge per level; the days' block purges both ah$ and ad$
Statements(l) ==
    <<[kind |-> "insert", table |-> l]>> \o
    (CASE l = "am" -> Purge("d") [] l = "ah" -> Purge("am") [] l = "ad" -> Purge("ah") \o Purge("ad"))

\* The thread sleeps for the least delay_am of all types (the one here) and a little
\* more, so that what became due in that time is earlier than its clock, as the code asks
Due(me, l) == me.next[l] <= now

Turn(me) ==
    LET of(l) == IF Due(me, l) THEN Statements(l) ELSE <<>> IN
    [me EXCEPT !.pc = "turn", !.fp = now, !.wake = 0, !.haveAM = FALSE, !.broken = FALSE,
               !.todo = of("am") \o of("ah") \o of("ad"),
               !.next = [l \in Levels |-> IF Due(me, l) THEN now + Period[l] ELSE @[l]]]

Wake(b) ==
    /\ At(b, "sleep") /\ backend[b].wake <= now /\ backend[b].base # "none"
    /\ Become(b, Turn(backend[b]))
    /\ UNCHANGED <<now, stored, rows, columns, resumed, mishaps>>

\* The select of the types fails: a thread that knows none does nothing, and asks again
\* when thread_freq is over (60 hours: no type has shortened it); the turn of a type that
\* is known does not depend on it
SelectFails(b) ==
    /\ At(b, "sleep") /\ backend[b].wake <= now /\ backend[b].base = "none"
    /\ Mishap
    /\ Become(b, [backend[b] EXCEPT !.wake = now + ThreadFreq])
    /\ UNCHANGED <<now, stored, rows, columns, resumed>>

\* The type enters tables first: if the select of its columns fails, its queries
\* stay cut and nothing is created until a restart
SetUp(b) ==
    /\ At(b, "sleep") /\ backend[b].wake <= now /\ backend[b].base = "none"
    /\ \/ Works /\ Become(b, [backend[b] EXCEPT !.pc = "am", !.fp = now, !.base = "whole",
                                                !.cols = columns["d"],
                                                !.haveAM = rows["am"] # None])
       \/ Mishap /\ Become(b, Turn([backend[b] EXCEPT !.base = "cut"]))
    /\ UNCHANGED <<now, stored, rows, columns, resumed>>

\* One query object each: a failure, for one because another backend was faster,
\* has no effect on the others
Create(b, l) ==
    /\ At(b, l)
    /\ \/ /\ Works
          /\ IF rows[l] = None /\ rows[Source[l]] # None /\ columns[Source[l]] >= backend[b].cols
             THEN /\ rows' = [rows EXCEPT ![l] = Condensed(l, AllOld(l))]
                  /\ columns' = [columns EXCEPT ![l] = backend[b].cols]
                  /\ resumed' = (resumed \/ (l = "ah" /\ backend[b].haveAM))
             ELSE UNCHANGED <<rows, columns, resumed>>
       \/ Mishap /\ UNCHANGED <<rows, columns, resumed>>
    /\ Become(b, CASE l = "am" -> [backend[b] EXCEPT !.pc = "ah"]
                 []   l = "ah" -> [backend[b] EXCEPT !.pc = "ad"]
                 []   l = "ad" -> Turn(backend[b]))
    /\ UNCHANGED <<now, stored>>

\* Deviation: the query is reset after an error
BreaksNever(me) == [me EXCEPT !.todo = Tail(@)]

\* All statements of a turn go through one query object, which keeps the text of a
\* statement that failed: those after it are appended and fail as well
Breaks(me) == [me EXCEPT !.todo = Tail(@), !.broken = TRUE]

Fits(me, l) ==
    /\ me.base = "whole" /\ rows[l] # None /\ rows[Source[l]] # None
    /\ columns[l] = me.cols /\ columns[Source[l]] >= me.cols

Possible(me, q) ==
    /\ ~ me.broken
    /\ IF q.kind = "insert" THEN Fits(me, q.table) ELSE rows[q.table] # None

Effect(q) ==
    IF q.kind = "insert" THEN rows[q.table] \cup Condensed(q.table, NewerOld(q.table))
    ELSE {r \in rows[q.table] : ~ Expired(q.table, r.at)}

Statement(b) ==
    /\ At(b, "turn") /\ backend[b].todo # <<>>
    /\ LET q == Head(backend[b].todo) IN
       \/ /\ Possible(backend[b], q) /\ Works
          /\ rows' = [rows EXCEPT ![q.table] = Effect(q)]
          /\ Become(b, [backend[b] EXCEPT !.todo = Tail(@)])
       \/ /\ IF Possible(backend[b], q) THEN Mishap ELSE Works
          /\ Become(b, Breaks(backend[b])) /\ UNCHANGED rows
    /\ UNCHANGED <<now, stored, columns, resumed>>

Sleep(b) ==
    /\ At(b, "turn") /\ backend[b].todo = <<>>
    /\ Become(b, [backend[b] EXCEPT !.pc = "sleep", !.wake = now + Delay["am"]])
    /\ UNCHANGED <<now, stored, rows, columns, resumed, mishaps>>

Next ==
    \/ Tick \/ AddColumn \/ \E s \in Samples : Store(s)
    \/ \E b \in Backends :
          \/ Start(b) \/ Crash(b) \/ Wake(b) \/ SelectFails(b) \/ SetUp(b)
          \/ \E l \in Levels : Create(b, l)
          \/ Statement(b) \/ Sleep(b)

Spec == Init /\ [][Next]_vars

(***************************************************************************)
(* Properties                                                              *)
(***************************************************************************)
In(t) == IF rows[t] = None THEN {} ELSE UNION {r.of : r \in rows[t]}

\* Types, and one row per span
TypeOK ==
    /\ now \in Begin..MaxTime /\ stored \subseteq Samples /\ mishaps \in 0..MaxMishaps
    /\ \A t \in Tables : rows[t] # None =>
          \A r1, r2 \in rows[t] : /\ r1.of \subseteq stored
                                  /\ t # "d" /\ r1.at = r2.at => r1 = r2
    /\ \A b \in Backends : /\ backend[b].base \in {"none", "whole", "cut"}
                           /\ backend[b].todo # <<>> => At(b, "turn")

\* Whichever backends created, filled and purged the tables in whatever order, and
\* whatever failed: the row of a minute has all samples of that minute, if none is
\* stored later than delay_am
MinuteExact ==
    Late <= Delay["am"] /\ rows["am"] # None =>
        \A r \in rows["am"] : r.of = {s \in stored : Stamp[s] = r.at}

\* What a deployment has to grant for its hours: delay_ah spans delay_am and a late
\* thread, and no set-up of the type was cut off after am$ (statAggregator.cpp:117: the
\* next one makes ah$ from an am$ nobody has filled since)
Sound == Late <= Delay["am"] /\ Delay["am"] + Slack <= Delay["ah"] * Hour /\ ~ resumed

\* Then the row of an hour has all samples of that hour
HourExact ==
    Sound /\ rows["ah"] # None =>
        \A r \in rows["ah"] : r.of = {s \in stored : Span("ah", Stamp[s]) = r.at}

\* And nothing is purged before it is condensed: until the retention of hours is over
\* each sample is in d$, am$ or ah$, although the purge follows the insert
\* unconditionally (statAggregator.cpp:168)
NeverLost ==
    Sound =>
        \A s \in stored :
            \/ s \in In("d") \cup In("am") \cup In("ah")
            \/ Expired("ah", Stamp[s])

\* A turn in which nothing fails makes up for all that failed before, of this thread and
\* of others, although next_med moves with a failed insert too (statAggregator.cpp:181) and
\* the insert takes only what is newer than the last row: after it no sample of d$ older
\* than the delay waits for its minute, and, when hours were due, none for its hour
Timely ==
    \A b \in Backends :
        At(b, "sleep") /\ backend[b].base # "none" /\ ~ backend[b].broken =>
            /\ Late <= Delay["am"] =>
                  \A s \in In("d") :
                      Stamp[s] < backend[b].fp - Delay["am"] =>
                          s \in In("am") \/ Expired("am", Stamp[s])
            /\ Sound /\ backend[b].next["ah"] = backend[b].fp + Hour =>
                  \A s \in stored :
                      Stamp[s] \div Hour < backend[b].fp \div Hour - Delay["ah"] =>
                          s \in In("ah") \/ Expired("ah", Stamp[s])

\* Every row of a day has the whole day
DayExact ==
    rows["ad"] # None =>
        \A r \in rows["ad"] : r.of = {s \in stored : Span("ad", Stamp[s]) = r.at}
=============================================================================
