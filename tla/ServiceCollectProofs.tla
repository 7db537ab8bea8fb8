------------------------ MODULE ServiceCollectProofs ------------------------
(***************************************************************************)
(* What ServiceCollect claims for any number of backends, services, parts  *)
(* and log lines: types, who is alerted of a line how often, whose alerts  *)
(* can be lost, which services are recorded as missing, which failed parts *)
(* nobody was told of, and what rows a round leaves.                       *)
(***************************************************************************)
EXTENDS ServiceCollect, FiniteSetTheorems, SequenceTheorems, TLAPS

Pcs == {"down", "idle", "ask", "next", "log", "store", "parts", "storepart", "history"}
InService == {"log", "store", "parts", "storepart", "history"}

Reply == [up : SUBSET Services, status : [Parts -> {"ok", "ko"}], first : Nat, last : Nat]

Thread == [pc : Pcs, ts : Nat, since : Nat, reply : Reply,
           todo : SUBSET Services, hosts : SUBSET STRING, service : Services \cup {None},
           logs : SUBSET Nat, batch : SUBSET Nat, maxlvl : Nat,
           parts : SUBSET Parts, part : Parts \cup {None},
           failed : Nat, nfailed : Nat, ok : Nat]

TypeNames == {SeededTypes[k] : k \in DOMAIN SeededTypes} \cup Levels

\* The tables
Tables ==
    /\ entries \in Seq([service : Services, level : Levels]) /\ Len(entries) <= MaxEntries
    /\ up \subseteq Services /\ known \subseteq Services /\ gone \subseteq Services
    /\ status \in [Parts -> {"ok", "ko"}]
    /\ eventTypes \in Seq(TypeNames)
    /\ partTable \in [Parts -> {"ok", "ko", None}]
    /\ told \in [Parts -> {"ok", "ko"}]
    /\ \A i \in DOMAIN logTable : i \in 1..Len(entries) /\ logTable[i] \in 0..Len(eventTypes)
    /\ \A k \in DOMAIN history : k \in Services \X (1..clock) /\ history[k] \in Counters
    /\ alerted \in [1..MaxEntries -> Nat] /\ overlap \in BOOLEAN
    /\ clock \in Nat /\ crashes \in Nat /\ faults \in Nat /\ crashes + faults <= MaxMishaps

\* One thread against the tables: the lines it handles are of the reply and of the
\* service it is on, and each is to be visited or in the batch
Place(t) ==
    /\ t.since <= Len(entries) /\ t.ts <= clock
    /\ t.reply.last <= Len(entries) /\ t.reply.first >= 1
    /\ t.pc \in InService => t.service \in Services
    /\ t.pc \notin {"down", "idle"} => t.ts >= 1
    /\ t.pc = "storepart" <=> t.part # None
    /\ t.maxlvl <= Len(eventTypes)

Lines(t) ==
    /\ \A i \in t.logs \cup t.batch :
          i \in t.reply.first..t.reply.last /\ entries[i].service = t.service
    /\ t.logs \cap t.batch = {}
    /\ t.pc \notin {"log", "store"} => t.logs = {} /\ t.batch = {} /\ t.maxlvl = 0

Sums(t) ==
    /\ t.nfailed <= t.failed
    /\ t.pc \notin {"parts", "storepart", "history"} => t.failed = 0 /\ t.nfailed = 0 /\ t.ok = 0
    /\ t.pc \notin InService \/ t.pc = "history" => t.parts = {}
    /\ t.failed + t.ok + Cardinality(t.parts) <= Cardinality(Parts)

Typed ==
    /\ Tables
    /\ thread \in [Backends -> Thread]
    /\ \A b \in Backends : Place(thread[b]) /\ Lines(thread[b])

-----------------------------------------------------------------------------
LEMMA Constants ==
    /\ Reports \in [Backends -> SUBSET Services]
    /\ HostOf \in [Services -> STRING] /\ ServiceOf \in [Parts -> Services] /\ None \notin Parts
    /\ IsFiniteSet(Backends) /\ IsFiniteSet(Parts)
    /\ MaxEntries \in Nat /\ MaxRounds \in Nat /\ MaxMishaps \in Nat
  BY ServicesAssumption

LEMMA PartsFinite ==
    ASSUME NEW S \in SUBSET Parts
    PROVE  IsFiniteSet(S) /\ Cardinality(S) \in Nat /\ Cardinality(S) <= Cardinality(Parts)
  BY Constants, FS_Subset, FS_CardinalityType

\* What one thread does leaves the others where they are
LEMMA Others ==
    ASSUME NEW b \in Backends, NEW t, thread \in [Backends -> Thread],
           thread' = [thread EXCEPT ![b] = t]
    PROVE  thread'[b] = t /\ (\A o \in Backends \ {b} : thread'[o] = thread[o])
           /\ (t \in Thread => thread' \in [Backends -> Thread])
  OBVIOUS

\* Tables that only grow
Grows ==
    /\ Len(entries) <= Len(entries') /\ \A i \in 1..Len(entries) : entries'[i] = entries[i]
    /\ Len(eventTypes) <= Len(eventTypes') /\ clock <= clock'


LEMMA StepTyped ==
    ASSUME Typed, Tables', Grows, NEW b \in Backends, NEW t \in Thread,
           thread' = [thread EXCEPT ![b] = t], Place(t)', Lines(t)'
    PROVE  Typed'
<1>1. thread' \in [Backends -> Thread] /\ thread'[b] = t
      /\ \A o \in Backends \ {b} : thread'[o] = thread[o]
  BY Others DEF Typed
<1>2. ASSUME NEW o \in Backends \ {b} PROVE Place(thread[o])' /\ Lines(thread[o])'
  <2>1. PICK u \in Thread : u = thread[o] /\ u = thread'[o] /\ Place(u) /\ Lines(u)
    BY <1>1 DEF Typed
  <2>2. /\ u.since \in Nat /\ u.ts \in Nat /\ u.reply.last \in Nat /\ u.reply.first \in Nat
        /\ u.maxlvl \in Nat /\ Len(entries) \in Nat /\ Len(entries') \in Nat
        /\ Len(eventTypes) \in Nat /\ Len(eventTypes') \in Nat /\ clock \in Nat /\ clock' \in Nat
    BY LenProperties DEF Thread, Reply, Typed, Tables
  <2>3. Place(u)'
    <3>1. Place(u)
      BY <2>1
    <3>2. /\ u.since <= Len(entries') /\ u.ts <= clock' /\ u.reply.last <= Len(entries')
          /\ u.maxlvl <= Len(eventTypes')
      BY <2>2, <3>1 DEF Place, Grows
    <3>3. /\ u.reply.first >= 1
          /\ u.pc \in InService => u.service \in Services
          /\ u.pc \notin {"down", "idle"} => u.ts >= 1
          /\ u.pc = "storepart" <=> u.part # None
      BY <3>1 DEF Place
    <3> QED
      BY <3>2, <3>3 DEF Place
  <2>4. Lines(u)'
    <3>1. ASSUME NEW i \in u.logs \cup u.batch
          PROVE  i \in u.reply.first..u.reply.last /\ entries'[i].service = u.service
      <4>1. i \in u.reply.first..u.reply.last /\ entries[i].service = u.service
        BY <2>1 DEF Lines
      <4>2. u.reply.last <= Len(entries) /\ u.reply.first >= 1
        BY <2>1 DEF Place
      <4>3. PICK first \in Nat, last \in Nat, n \in Nat :
               first = u.reply.first /\ last = u.reply.last /\ n = Len(entries)
        BY <2>2
      <4>4. i \in first..last /\ last <= n /\ first >= 1
        BY <4>1, <4>2, <4>3
      <4>5. i \in 1..n
        BY <4>4
      <4> QED
        BY <4>1, <4>3, <4>5 DEF Grows
    <3> QED
      BY <2>1, <3>1 DEF Lines
  <2> QED
    BY <2>1, <2>3, <2>4
<1> QED
  BY <1>1, <1>2 DEF Typed

\* Most steps leave what Place and Lines look at alone
LEMMA SameTyped ==
    ASSUME Typed, Tables', UNCHANGED <<entries, eventTypes, clock>>,
           NEW b \in Backends, NEW t \in Thread, thread' = [thread EXCEPT ![b] = t],
           Place(t), Lines(t)
    PROVE  Typed'
<1>1. Grows /\ Place(t)' /\ Lines(t)'
  BY LenProperties DEF Grows, Place, Lines, Typed, Tables
<1> QED
  BY <1>1, StepTyped

LEMMA Mine ==
    ASSUME Typed, NEW b \in Backends
    PROVE  /\ Tables /\ thread[b] \in Thread /\ Place(thread[b]) /\ Lines(thread[b])
           /\ Len(entries) \in Nat /\ Len(eventTypes) \in Nat
  BY LenProperties DEF Typed, Tables

LEMMA FaultType ==
    ASSUME Tables, Fault \/ Works, UNCHANGED crashes
    PROVE  faults' \in Nat /\ crashes' + faults' <= MaxMishaps /\ faults' >= faults
  BY Constants DEF Tables, Fault, Works

vs == <<entries, up, known, gone, status, eventTypes, partTable, told, logTable, history,
        alerted, overlap, clock>>

LEMMA SameTables == ASSUME Tables, UNCHANGED vs, UNCHANGED crashes, Fault \/ Works PROVE Tables'
<1>1. crashes' \in Nat /\ faults' \in Nat /\ crashes' + faults' <= MaxMishaps
  BY FaultType DEF Tables
<1> QED
  BY <1>1 DEF Tables, vs

LEMMA FreshTyped ==
    ASSUME Len(entries) \in Nat, Len(eventTypes) \in Nat, clock \in Nat
    PROVE  Fresh \in Thread /\ Place(Fresh) /\ Lines(Fresh)
<1>1. Fresh \in Thread
  BY DEF Fresh, Thread, Pcs, Reply, Silent
<1>2. Place(Fresh)
  BY Constants DEF Place, Fresh, Silent, InService
<1>3. Lines(Fresh)
  BY DEF Lines, Fresh, Silent
<1> QED
  BY <1>1, <1>2, <1>3

LEMMA InitTyped == Init => Typed
<1> SUFFICES ASSUME Init PROVE Typed
  OBVIOUS
<1>1. Fresh \in Thread
  BY DEF Fresh, Thread, Pcs, Reply, Silent
<1>2. SeededTypes \in Seq(TypeNames)
  BY DEF SeededTypes, TypeNames
<1>3. entries = <<>> /\ Len(entries) = 0 /\ entries \in Seq([service : Services, level : Levels])
  BY DEF Init
<1>4. Tables
  <2>1. /\ up \subseteq Services /\ known \subseteq Services /\ gone \subseteq Services
        /\ status \in [Parts -> {"ok", "ko"}] /\ eventTypes \in Seq(TypeNames)
        /\ partTable \in [Parts -> {"ok", "ko", None}] /\ told \in [Parts -> {"ok", "ko"}]
    BY <1>2 DEF Init
  <2>2. DOMAIN logTable = {} /\ DOMAIN history = {}
    BY DEF Init
  <2>3. alerted \in [1..MaxEntries -> Nat] /\ overlap \in BOOLEAN /\ clock \in Nat
        /\ crashes = 0 /\ faults = 0
    BY DEF Init
  <2> QED
    BY <1>3, <2>1, <2>2, <2>3, Constants DEF Tables
<1>5. Place(Fresh)
  BY <1>2, <1>3, LenProperties, Constants DEF Init, Place, Fresh, Silent, InService
<1>6. Lines(Fresh)
  BY DEF Lines, Fresh, Silent
<1> QED
  BY <1>1, <1>4, <1>5, <1>6 DEF Init, Typed

LEMMA AgentLogsTyped == Typed /\ AgentLogs => Typed'
<1> SUFFICES ASSUME Typed, AgentLogs PROVE Typed'
  OBVIOUS
<1>1. PICK e \in [service : Services, level : Levels] : entries' = Append(entries, e)
  BY DEF AgentLogs, Typed, Tables
<1>2. /\ entries' \in Seq([service : Services, level : Levels]) /\ Len(entries') = Len(entries) + 1
      /\ \A i \in 1..Len(entries) : entries'[i] = entries[i]
      /\ Len(entries) \in Nat
  BY <1>1, AppendProperties, LenProperties DEF Typed, Tables
<1>3. Len(entries') <= MaxEntries
  BY <1>2, Constants DEF AgentLogs
<1>4. UNCHANGED <<up, status, gone, changes, logs, states, services, time, thread, crashes, faults>>
  BY DEF AgentLogs
<1>5. Tables'
  BY <1>2, <1>3, <1>4 DEF Typed, Tables, logs, states, services, time
<1>6. ASSUME NEW o \in Backends PROVE Place(thread[o])' /\ Lines(thread[o])'
  <2>1. /\ thread[o] \in Thread /\ Place(thread[o]) /\ Lines(thread[o]) /\ thread'[o] = thread[o]
        /\ eventTypes' = eventTypes /\ clock' = clock
    BY <1>4 DEF Typed, logs, time
  <2>2. thread[o].since \in Nat /\ thread[o].reply.last \in Nat /\ thread[o].reply.first \in Nat
    BY <2>1 DEF Thread, Reply
  <2> QED
    BY <1>2, <2>1, <2>2 DEF Place, Lines
<1> QED
  BY <1>4, <1>5, <1>6 DEF Typed

LEMMA AgentChangesTyped == Typed /\ AgentChanges => Typed'
<1> SUFFICES ASSUME Typed, AgentChanges PROVE Typed'
  OBVIOUS
<1>1. UNCHANGED <<entries, logs, states, services, time, thread, crashes, faults>>
  BY DEF AgentChanges
<1>2. up' \subseteq Services /\ gone' \subseteq Services /\ status' \in [Parts -> {"ok", "ko"}]
  BY DEF AgentChanges, Typed, Tables
<1>3. Tables'
  BY <1>1, <1>2 DEF Typed, Tables, logs, states, services, time
<1> QED
  BY <1>1, <1>3 DEF Typed, Place, Lines, logs, time

LEMMA StartTyped == ASSUME Typed, NEW b \in Backends, Start(b) PROVE Typed'
<1>1. PICK me \in Thread : me = thread[b] /\ Place(me) /\ Lines(me)
  BY Mine
<1>0. Tables /\ Len(entries) \in Nat /\ Len(eventTypes) \in Nat /\ clock \in Nat
  BY Mine DEF Tables
<1> DEFINE t == [me EXCEPT !.pc = "idle"]
<1>2. /\ thread' = [thread EXCEPT ![b] = t] /\ me.pc = "down"
      /\ UNCHANGED vs /\ UNCHANGED <<crashes, faults>>
  BY <1>1 DEF Start, At, Go, Set, vs, agent, logs, states, services, time
<1>3. t \in Thread /\ Place(t) /\ Lines(t)
  <2>1. t \in Thread
    BY <1>1, ZenonT(60) DEF Thread, Pcs
  <2>2. Place(t) /\ Lines(t)
    BY <1>1, <1>2, <2>1, ZenonT(60) DEF InService, Place, Lines, Thread
  <2> QED
    BY <2>1, <2>2
<1>4. Tables'
  BY <1>0, <1>2, SameTables DEF Works
<1> QED
  BY <1>2, <1>3, <1>4, SameTyped DEF vs

LEMMA CrashTyped == ASSUME Typed, NEW b \in Backends, Crash(b) PROVE Typed'
<1>1. PICK me \in Thread : me = thread[b] /\ Place(me) /\ Lines(me)
  BY Mine
<1>0. Tables /\ Len(entries) \in Nat /\ Len(eventTypes) \in Nat /\ clock \in Nat
  BY Mine DEF Tables
<1>2. /\ thread' = [thread EXCEPT ![b] = Fresh] /\ crashes' = crashes + 1
      /\ crashes + faults < MaxMishaps /\ UNCHANGED vs /\ UNCHANGED faults
  BY <1>1 DEF Crash, vs, agent, logs, states, services, time
<1>3. Fresh \in Thread /\ Place(Fresh) /\ Lines(Fresh)
  BY <1>0, FreshTyped
<1>4. Tables'
  <2>1. crashes' \in Nat /\ faults' \in Nat /\ crashes' + faults' <= MaxMishaps
    BY <1>0, <1>2, Constants DEF Tables
  <2> QED
    BY <1>0, <1>2, <2>1 DEF Tables, vs
<1>5. UNCHANGED <<entries, eventTypes, clock>>
  BY <1>2 DEF vs
<1>6. thread' = [thread EXCEPT ![b] = Fresh]
  BY <1>2
<1> QED
  BY <1>3, <1>4, <1>5, <1>6, SameTyped

LEMMA ReadClockTyped == ASSUME Typed, NEW b \in Backends, ReadClock(b) PROVE Typed'
<1>1. PICK me \in Thread : me = thread[b] /\ Place(me) /\ Lines(me)
  BY Mine
<1>0. Tables /\ Len(entries) \in Nat /\ Len(eventTypes) \in Nat /\ clock \in Nat
  BY Mine DEF Tables
<1>9. PICK n \in Nat : n = clock + 1
  BY <1>0
<1> DEFINE t == [me EXCEPT !.ts = n, !.pc = "ask"]
<1>2. /\ thread' = [thread EXCEPT ![b] = t] /\ me.pc = "idle" /\ clock' = clock + 1
      /\ overlap' \in BOOLEAN
      /\ UNCHANGED <<agent, logs, states, services, crashes, faults>>
  BY <1>0, <1>1, <1>9 DEF ReadClock, At, Set, Tables, agent, logs, states, services
<1>3. t \in Thread
  BY <1>1, ZenonT(60) DEF Thread, Pcs
<1>4. Place(t)' /\ Lines(t)'
  <2>1. UNCHANGED <<entries, eventTypes>>
    BY <1>2 DEF agent, logs
  <2>2. me.ts \in Nat
    BY <1>1 DEF Thread
  <2>3. Lines(t)
    BY <1>1, <1>2 DEF Lines, Thread
  <2>4. /\ t.since <= Len(entries) /\ t.ts = n /\ t.reply.last <= Len(entries)
        /\ t.reply.first >= 1 /\ t.pc = "ask" /\ t.part = None /\ t.maxlvl <= Len(eventTypes)
    BY <1>1, <1>2 DEF Place, Thread
  <2>5. n >= 1 /\ clock' = n
    BY <1>0, <1>2, <1>9
  <2>6. PICK u : u = t
    OBVIOUS
  <2>7. Place(u)'
    BY <2>1, <2>4, <2>5, <2>6, <1>3 DEF Place, InService, Thread
  <2>8. Lines(u)'
    BY <2>1, <2>3, <2>6 DEF Lines
  <2> QED
    BY <2>6, <2>7, <2>8
<1>5. Tables'
  <2>1. \A k \in DOMAIN history : k \in Services \X (1..clock')
    BY <1>0, <1>2 DEF Tables
  <2> QED
    BY <1>0, <1>2, <2>1 DEF Tables, agent, logs, states, services
<1>6. Grows
  BY <1>0, <1>2 DEF Grows, agent, logs
<1> QED
  BY <1>2, <1>3, <1>4, <1>5, <1>6, StepTyped

LEMMA AnswerTyped ==
    ASSUME Typed, NEW b \in Backends, NEW r \in Reply, NEW since \in Nat,
           since <= Len(entries), r.last <= Len(entries), r.first >= 1,
           Answer(b, r, since), Fault \/ Works
    PROVE  Typed'
<1>1. PICK me \in Thread : me = thread[b] /\ Place(me) /\ Lines(me)
  BY Mine
<1>0. Tables /\ Len(entries) \in Nat /\ Len(eventTypes) \in Nat /\ clock \in Nat
  BY Mine DEF Tables
<1> DEFINE t == [me EXCEPT !.reply = r, !.since = since, !.todo = r.up, !.pc = "next"]
<1>2. /\ thread' = [thread EXCEPT ![b] = t] /\ me.pc = "ask"
      /\ UNCHANGED vs /\ UNCHANGED crashes
  BY <1>1 DEF Answer, At, Set, vs, agent, logs, states, services, time
<1>3. t \in Thread /\ Place(t) /\ Lines(t)
  <2>1. t \in Thread
    BY <1>1, ZenonT(60) DEF Thread, Pcs, Reply
  <2>2. Place(t)
    BY <1>1, <1>2 DEF Place, Thread, InService
  <2>3. me.logs = {} /\ me.batch = {} /\ me.maxlvl = 0
    BY <1>1, <1>2 DEF Lines
  <2>4. Lines(t)
    BY <1>1, <2>3 DEF Lines, Thread
  <2> QED
    BY <2>1, <2>2, <2>4
<1>4. Tables'
  BY <1>0, <1>2, SameTables
<1> QED
  BY <1>2, <1>3, <1>4, SameTyped DEF vs

LEMMA RequestTyped == ASSUME Typed, NEW b \in Backends, Request(b) PROVE Typed'
<1>1. Tables /\ thread[b] \in Thread /\ Place(thread[b]) /\ Len(entries) \in Nat
  BY Mine
<1>2. PICK first \in {1, thread[b].since + 1} :
          Answer(b, [up |-> up \cap Reports[b], status |-> status,
                     first |-> first, last |-> Len(entries)], Len(entries))
  BY DEF Request
<1>3. first \in Nat /\ first >= 1
  BY <1>1 DEF Thread
<1>4. [up |-> up \cap Reports[b], status |-> status, first |-> first, last |-> Len(entries)]
          \in Reply
  BY <1>1, <1>3 DEF Reply, Tables
<1> QED
  BY <1>1, <1>2, <1>3, <1>4, AnswerTyped DEF Request

LEMMA ErrorBodyTyped == ASSUME Typed, NEW b \in Backends, RequestErrorBody(b) PROVE Typed'
<1>1. Len(entries) \in Nat
  BY Mine
<1>2. Silent \in Reply /\ Silent.last = 0 /\ Silent.first = 1
  BY DEF Silent, Reply
<1>3. Answer(b, Silent, 0) /\ Fault /\ 0 \in Nat /\ 0 <= Len(entries) /\ Silent.last <= Len(entries)
  BY <1>1, <1>2 DEF RequestErrorBody
<1> QED
  BY <1>1, <1>2, <1>3, AnswerTyped

LEMMA RequestFailsTyped == ASSUME Typed, NEW b \in Backends, RequestFails(b) PROVE Typed'
<1>1. PICK me \in Thread : me = thread[b] /\ Place(me) /\ Lines(me)
  BY Mine
<1>0. Tables /\ Len(entries) \in Nat /\ Len(eventTypes) \in Nat /\ clock \in Nat
  BY Mine DEF Tables
<1> DEFINE t == [me EXCEPT !.pc = "idle"]
<1>2. /\ thread' = [thread EXCEPT ![b] = t] /\ me.pc = "ask"
      /\ UNCHANGED vs /\ UNCHANGED crashes /\ (Fault \/ Works)
  BY <1>1 DEF RequestFails, At, Go, Set, Works, vs, agent, logs, states, services, time
<1>3. t \in Thread /\ Place(t) /\ Lines(t)
  <2>1. t \in Thread
    BY <1>1, ZenonT(60) DEF Thread, Pcs
  <2>2. Place(t) /\ Lines(t)
    BY <1>1, <1>2, <2>1, ZenonT(60) DEF InService, Place, Lines, Thread
  <2> QED
    BY <2>1, <2>2
<1>4. Tables'
  BY <1>0, <1>2, SameTables DEF Works
<1> QED
  BY <1>2, <1>3, <1>4, SameTyped DEF vs

LEMMA CollectDoneTyped == ASSUME Typed, NEW b \in Backends, CollectDone(b) PROVE Typed'
<1>1. PICK me \in Thread : me = thread[b] /\ Place(me) /\ Lines(me)
  BY Mine
<1>0. Tables /\ Len(entries) \in Nat /\ Len(eventTypes) \in Nat /\ clock \in Nat
  BY Mine DEF Tables
<1> DEFINE t == [me EXCEPT !.pc = "idle"]
<1>2. /\ thread' = [thread EXCEPT ![b] = t] /\ me.pc = "next"
      /\ UNCHANGED vs /\ UNCHANGED crashes /\ (Fault \/ Works)
  BY <1>1 DEF CollectDone, At, Go, Set, Works, vs, agent, logs, states, services, time
<1>3. t \in Thread /\ Place(t) /\ Lines(t)
  <2>1. t \in Thread
    BY <1>1, ZenonT(60) DEF Thread, Pcs
  <2>2. Place(t) /\ Lines(t)
    BY <1>1, <1>2, <2>1, ZenonT(60) DEF InService, Place, Lines, Thread
  <2> QED
    BY <2>1, <2>2
<1>4. Tables'
  BY <1>0, <1>2, SameTables DEF Works
<1> QED
  BY <1>2, <1>3, <1>4, SameTyped DEF vs

LEMMA NextServiceTyped == ASSUME Typed, NEW b \in Backends, NextService(b) PROVE Typed'
<1>1. PICK me \in Thread : me = thread[b] /\ Place(me) /\ Lines(me)
  BY Mine
<1>0. Tables /\ Len(entries) \in Nat /\ Len(eventTypes) \in Nat /\ clock \in Nat
  BY Mine DEF Tables
<1>2. PICK s \in me.todo :
          LET sent == {i \in me.reply.first..me.reply.last : entries[i].service = s}
          IN  /\ known' = known \cup {s}
              /\ Set(b, [me EXCEPT !.pc = "log", !.todo = @ \ {s}, !.hosts = @ \cup {HostOf[s]},
                                   !.service = s, !.logs = sent, !.parts = OfService(s)])
  BY <1>1 DEF NextService
<1>3. PICK sent \in SUBSET Nat :
         sent = {i \in me.reply.first..me.reply.last : entries[i].service = s}
  <2>1. me.reply.first \in Nat /\ me.reply.last \in Nat
    BY <1>1 DEF Thread, Reply
  <2>2. {i \in me.reply.first..me.reply.last : entries[i].service = s} \in SUBSET Nat
    BY <2>1
  <2> QED
    BY <2>2
<1> DEFINE t == [me EXCEPT !.pc = "log", !.todo = @ \ {s}, !.hosts = @ \cup {HostOf[s]},
                           !.service = s, !.logs = sent, !.parts = OfService(s)]
<1>4. /\ thread' = [thread EXCEPT ![b] = t] /\ me.pc = "next" /\ known' = known \cup {s}
      /\ UNCHANGED <<agent, logs, states, history, time, faults, crashes>>
  BY <1>1, <1>2, <1>3 DEF NextService, At, Set
<1>5. s \in Services /\ HostOf[s] \in STRING /\ OfService(s) \subseteq Parts
  BY <1>1, Constants DEF Thread, OfService
<1>6. t \in Thread
  BY <1>1, <1>5, ZenonT(60) DEF Thread, Pcs
<1>7. Place(t)
  BY <1>1, <1>4, <1>5 DEF Place, Thread, InService
<1>8. Lines(t)
  <2>1. me.batch = {}
    BY <1>1, <1>4 DEF Lines
  <2>2. t.batch = {} /\ t.logs = sent /\ t.pc = "log" /\ t.service = s /\ t.reply = me.reply
    BY <1>1, <2>1 DEF Thread
  <2> QED
    BY <1>3, <2>2 DEF Lines
<1>9. Tables'
  BY <1>0, <1>4, <1>5 DEF Tables, agent, logs, states, time
<1> QED
  BY <1>4, <1>6, <1>7, <1>8, <1>9, SameTyped DEF agent, logs, time

LEMMA LookLogTyped == ASSUME Typed, NEW b \in Backends, LookLog(b) PROVE Typed'
<1>1. PICK me \in Thread : me = thread[b] /\ Place(me) /\ Lines(me)
  BY Mine
<1>0. Tables /\ Len(entries) \in Nat /\ Len(eventTypes) \in Nat /\ clock \in Nat
  BY Mine DEF Tables
<1>2. PICK i \in Least(me.logs) :
          \/ Set(b, [me EXCEPT !.logs = @ \ {i}]) \/ Go(b, "store")
  BY <1>1 DEF LookLog
<1>3. me.pc = "log" /\ UNCHANGED vs /\ UNCHANGED crashes /\ (Fault \/ Works)
  BY <1>1, <1>2 DEF LookLog, At, Go, Set, vs, agent, logs, states, services, time
<1>4. Tables'
  BY <1>0, <1>3, SameTables
<1>5. CASE Set(b, [me EXCEPT !.logs = @ \ {i}])
  <2> DEFINE t == [me EXCEPT !.logs = @ \ {i}]
  <2>1. thread' = [thread EXCEPT ![b] = t]
    BY <1>5 DEF Set
  <2>2. t \in Thread /\ Place(t) /\ Lines(t)
    <3>1. t \in Thread
      BY <1>1, ZenonT(60) DEF Thread, Pcs
    <3>2. Place(t) /\ Lines(t)
      BY <1>1, <1>3, <3>1, ZenonT(60) DEF InService, Place, Lines, Thread
    <3> QED
      BY <3>1, <3>2
  <2> QED
    BY <1>3, <1>4, <2>1, <2>2, SameTyped DEF vs
<1>6. CASE Go(b, "store")
  <2> DEFINE t == [me EXCEPT !.pc = "store"]
  <2>1. thread' = [thread EXCEPT ![b] = t]
    BY <1>1, <1>6 DEF Go, Set
  <2>2. t \in Thread /\ Place(t) /\ Lines(t)
    <3>1. t \in Thread
      BY <1>1, ZenonT(60) DEF Thread, Pcs
    <3>2. Place(t) /\ Lines(t)
      BY <1>1, <1>3, <3>1, ZenonT(60) DEF InService, Place, Lines, Thread
    <3> QED
      BY <3>1, <3>2
  <2> QED
    BY <1>3, <1>4, <2>1, <2>2, SameTyped DEF vs
<1> QED
  BY <1>2, <1>5, <1>6

\* The id of a level: there is one, in a table that only grows
LEMMA TypeIds ==
    ASSUME eventTypes \in Seq(TypeNames), NEW l \in Levels
    PROVE  /\ EventTypes(l) \in Seq(TypeNames)
           /\ EventTypeId(l) \in 1..Len(EventTypes(l))
           /\ Len(eventTypes) <= Len(EventTypes(l))
           /\ Len(eventTypes) \in Nat /\ Len(EventTypes(l)) \in Nat
<1>1. l \in TypeNames
  BY DEF TypeNames
<1>2. \E k \in DOMAIN EventTypes(l) : EventTypes(l)[k] = l
  <2>1. CASE NewType(l)
    BY <1>1, <2>1, AppendProperties, LenProperties DEF EventTypes
  <2>2. CASE ~ NewType(l)
    BY <2>2 DEF EventTypes, NewType
  <2> QED
    BY <2>1, <2>2
<1>3. EventTypeId(l) \in DOMAIN EventTypes(l)
  BY <1>2 DEF EventTypeId
<1>4. EventTypes(l) \in Seq(TypeNames) /\ Len(eventTypes) <= Len(EventTypes(l))
  BY <1>1, AppendProperties, LenProperties DEF EventTypes
<1> QED
  BY <1>3, <1>4, LenProperties

\* What a step that stores a line leaves: three outcomes
StoreStep(b, me, i, id) ==
    /\ thread' = [thread EXCEPT ![b] = [me EXCEPT !.pc = "log", !.logs = @ \ {i},
                                                  !.batch = @ \cup {i}, !.maxlvl = Larger(@, id)]]
    /\ id <= Len(eventTypes')
    /\ eventTypes' \in {eventTypes, EventTypes(entries[i].level)}
    /\ \/ UNCHANGED logTable /\ Fault /\ id > 0
       \/ /\ logTable' = Put(logTable, i, IF HaveLogEvent(i) THEN logTable[i] ELSE id)
          /\ id > 0 \/ Fault
          /\ Fault \/ Works
    /\ UNCHANGED <<agent, crashes, alerted, mailed, states, services, time>>

LEMMA StoreLogSteps ==
    ASSUME Typed, NEW b \in Backends, StoreLog(b)
    PROVE  /\ thread[b].pc = "store"
           /\ \E i \in Least(thread[b].logs), id \in Nat : StoreStep(b, thread[b], i, id)
<1>1. PICK me \in Thread : me = thread[b] /\ Place(me) /\ Lines(me)
  BY Mine
<1>0. Tables /\ Len(entries) \in Nat /\ Len(eventTypes) \in Nat /\ clock \in Nat
  BY Mine DEF Tables
<1>2. PICK i \in Least(me.logs) :
          LET l  == entries[i].level
              id == EventTypeId(l)
              Store(type) == logTable' = Put(logTable, i, IF HaveLogEvent(i) THEN logTable[i] ELSE type)
              Collected(type) ==
                  Set(b, [me EXCEPT !.pc = "log", !.logs = @ \ {i}, !.batch = @ \cup {i},
                                    !.maxlvl = Larger(@, type)])
          IN  \/ Store(id) /\ Collected(id) /\ eventTypes' = EventTypes(l) /\ Works
              \/ Store(0) /\ Collected(0) /\ eventTypes' \in {eventTypes, EventTypes(l)} /\ Fault
              \/ Collected(id) /\ eventTypes' = EventTypes(l) /\ Fault /\ UNCHANGED logTable
  BY <1>1 DEF StoreLog
<1>3. i \in me.logs
  BY <1>2 DEF Least
<1>4. entries[i].level \in Levels
  <2>1. i \in 1..Len(entries)
    BY <1>0, <1>1, <1>3 DEF Lines, Place, Thread, Reply
  <2>2. entries \in Seq([service : Services, level : Levels])
    BY <1>0 DEF Tables
  <2>3. entries[i] \in [service : Services, level : Levels]
    BY <2>1, <2>2, ElementOfSeq
  <2> QED
    BY <2>3
<1> DEFINE l == entries[i].level
<1>5. PICK id \in Nat : id = EventTypeId(l) /\ id > 0 /\ id <= Len(EventTypes(l))
  <2>1. EventTypeId(l) \in 1..Len(EventTypes(l)) /\ Len(EventTypes(l)) \in Nat
    BY <1>0, <1>4, TypeIds DEF Tables
  <2> HIDE DEF l
  <2> QED
    BY <2>1
<1>6. eventTypes' \in {eventTypes, EventTypes(l)} => 0 <= Len(eventTypes')
  BY <1>0, <1>4, TypeIds DEF Tables
<1>7. UNCHANGED <<alerted, mailed, states, services, time>> /\ me.pc = "store"
  BY <1>1 DEF StoreLog, At
<1>8. CASE StoreStep(b, me, i, id)
  BY <1>1, <1>2, <1>7, <1>8
<1>9. CASE StoreStep(b, me, i, 0)
  BY <1>1, <1>2, <1>7, <1>9
<1>10. StoreStep(b, me, i, id) \/ StoreStep(b, me, i, 0)
  BY <1>2, <1>5, <1>6, <1>7 DEF StoreStep, Set
<1> QED
  BY <1>8, <1>9, <1>10

LEMMA StoreLogTyped == ASSUME Typed, NEW b \in Backends, StoreLog(b) PROVE Typed'
<1>1. PICK me \in Thread : me = thread[b] /\ Place(me) /\ Lines(me)
  BY Mine
<1>0. Tables /\ Len(entries) \in Nat /\ Len(eventTypes) \in Nat /\ clock \in Nat
  BY Mine DEF Tables
<1>2. PICK i \in Least(me.logs), id \in Nat : StoreStep(b, me, i, id)
  BY <1>1, StoreLogSteps
<1>3. me.pc = "store" /\ i \in me.logs /\ me.maxlvl \in Nat
  BY <1>1, <1>2, StoreLogSteps DEF Least, Thread
<1>4. PICK m \in Nat : m = Larger(me.maxlvl, id) /\ m \in {me.maxlvl, id}
  BY <1>3 DEF Larger
<1> DEFINE t == [me EXCEPT !.pc = "log", !.logs = @ \ {i}, !.batch = @ \cup {i}, !.maxlvl = m]
<1>5. /\ thread' = [thread EXCEPT ![b] = t] /\ id <= Len(eventTypes')
      /\ UNCHANGED <<agent, crashes, alerted, mailed, states, services, time>>
      /\ Fault \/ Works
  BY <1>2, <1>4 DEF StoreStep
<1>6. eventTypes' \in Seq(TypeNames) /\ Len(eventTypes) <= Len(eventTypes') /\ Len(eventTypes') \in Nat
  <2>1. i \in 1..Len(entries)
    BY <1>0, <1>1, <1>3 DEF Lines, Place, Thread, Reply
  <2>2. entries[i] \in [service : Services, level : Levels]
    BY <1>0, <2>1, ElementOfSeq DEF Tables
  <2>3. entries[i].level \in Levels
    BY <2>2
  <2>4. eventTypes' = eventTypes \/ eventTypes' = EventTypes(entries[i].level)
    BY <1>2 DEF StoreStep
  <2> QED
    BY <1>0, <2>3, <2>4, TypeIds DEF Tables
<1>7. t \in Thread
  BY <1>1, <1>3, ZenonT(60) DEF Thread, Pcs
<1>8. Place(t)' /\ Lines(t)'
  <2>1. Place(t)'
    <3>1. m <= Len(eventTypes')
      BY <1>0, <1>1, <1>4, <1>5, <1>6 DEF Place, Thread
    <3>2. entries' = entries /\ clock' = clock
      BY <1>5 DEF agent, time
    <3> QED
      BY <1>0, <1>1, <1>3, <3>1, <3>2 DEF Place, Thread, InService
  <2>2. Lines(t)'
    <3>1. entries' = entries
      BY <1>5 DEF agent
    <3> QED
      BY <1>1, <1>3, <3>1 DEF Lines, Thread
  <2> QED
    BY <2>1, <2>2
<1>9. Tables'
  <2>1. \A k \in DOMAIN logTable' : k \in 1..Len(entries) /\ logTable'[k] \in 0..Len(eventTypes')
    <3>1. \A k \in DOMAIN logTable : k \in 1..Len(entries) /\ logTable[k] \in 0..Len(eventTypes')
      BY <1>0, <1>6 DEF Tables
    <3>2. i \in 1..Len(entries)
      BY <1>0, <1>1, <1>3 DEF Lines, Place, Thread, Reply
    <3>3. CASE UNCHANGED logTable
      BY <3>1, <3>3
    <3>4. CASE logTable' = Put(logTable, i, IF HaveLogEvent(i) THEN logTable[i] ELSE id)
      BY <1>5, <1>6, <3>1, <3>2, <3>4 DEF Put, HaveLogEvent
    <3> QED
      BY <1>2, <3>3, <3>4 DEF StoreStep
  <2>2. faults' \in Nat /\ crashes' + faults' <= MaxMishaps
    BY <1>0, <1>5, FaultType
  <2> QED
    BY <1>0, <1>5, <1>6, <2>1, <2>2 DEF Tables, agent, states, services, time
<1>10. Grows
  BY <1>0, <1>5, <1>6 DEF Grows, agent, time
<1> QED
  BY <1>5, <1>7, <1>8, <1>9, <1>10, StepTyped

LEMMA LogsDoneTyped == ASSUME Typed, NEW b \in Backends, LogsDone(b) PROVE Typed'
<1>1. PICK me \in Thread : me = thread[b] /\ Place(me) /\ Lines(me)
  BY Mine
<1>0. Tables /\ Len(entries) \in Nat /\ Len(eventTypes) \in Nat /\ clock \in Nat
  BY Mine DEF Tables
<1> DEFINE t == [me EXCEPT !.batch = {}, !.maxlvl = 0, !.pc = "parts"]
<1>2. /\ thread' = [thread EXCEPT ![b] = t] /\ me.pc = "log" /\ me.logs = {}
      /\ UNCHANGED <<eventTypes, logTable, partTable, told, known, history, entries, up, status, gone, overlap, clock, crashes>> /\ (Fault \/ Works)
  BY <1>1 DEF LogsDone, At, Go, Set, Works, vs, agent, logs, states, services, time
<1>3. t \in Thread /\ Place(t) /\ Lines(t)
  <2>1. t \in Thread
    BY <1>1, <1>2, ZenonT(60) DEF Thread, Pcs
  <2>2. Place(t)
    BY <1>0, <1>1, <1>2 DEF Thread, InService, Place
  <2>3. Lines(t)
    BY <1>1, <1>2 DEF Thread, Lines
  <2> QED
    BY <2>1, <2>2, <2>3
<1>4. faults' \in Nat /\ crashes' \in Nat /\ crashes' + faults' <= MaxMishaps
  BY <1>0, <1>2, FaultType DEF Tables
<1>5. Tables'
  <2>1. alerted' \in [1..MaxEntries -> Nat]
    <3>1. alerted \in [1..MaxEntries -> Nat]
      BY <1>0 DEF Tables
    <3>2. alerted' = alerted \/ alerted' = [i \in DOMAIN alerted |-> alerted[i] + (IF i \in me.batch THEN 1 ELSE 0)]
      BY <1>1 DEF LogsDone
    <3> QED
      BY <3>1, <3>2
  <2> QED
    BY <1>0, <1>2, <1>4, <2>1 DEF Tables
<1> QED
  BY <1>2, <1>3, <1>5, SameTyped

LEMMA PartOkTyped == ASSUME Typed, NEW b \in Backends, PartOk(b) PROVE Typed'
<1>1. PICK me \in Thread : me = thread[b] /\ Place(me) /\ Lines(me)
  BY Mine
<1>0. Tables /\ Len(entries) \in Nat /\ Len(eventTypes) \in Nat /\ clock \in Nat
  BY Mine DEF Tables
<1>9. PICK p \in me.parts :
          /\ Set(b, [me EXCEPT !.parts = @ \ {p}, !.ok = @ + 1])
          /\ \/ /\ partTable' = [partTable EXCEPT ![p] = "ok"]
                /\ told' = [told EXCEPT ![p] = "ok"]
                /\ Works
             \/ Fault /\ UNCHANGED states
  BY <1>1 DEF PartOk
<1>8. PICK n \in Nat : n = me.ok + 1
  BY <1>1 DEF Thread
<1> DEFINE t == [me EXCEPT !.parts = @ \ {p}, !.ok = n]
<1>2. /\ thread' = [thread EXCEPT ![b] = t] /\ me.pc = "parts"
      /\ UNCHANGED <<eventTypes, logTable, alerted, known, history, entries, up, status, gone, overlap, clock, crashes>> /\ (Fault \/ Works)
  BY <1>1, <1>8, <1>9 DEF PartOk, At, Go, Set, Works, vs, agent, logs, states, services, time
<1>3. t \in Thread /\ Place(t) /\ Lines(t)
  <2>1. t \in Thread
    BY <1>1, <1>2, <1>8, <1>9, ZenonT(60) DEF Thread, Pcs
  <2>2. Place(t)
    BY <1>0, <1>1, <1>2, <1>8, <1>9 DEF Thread, InService, Place
  <2>3. Lines(t)
    BY <1>1, <1>2, <1>8, <1>9 DEF Thread, Lines
  <2> QED
    BY <2>1, <2>2, <2>3
<1>4. faults' \in Nat /\ crashes' \in Nat /\ crashes' + faults' <= MaxMishaps
  BY <1>0, <1>2, FaultType DEF Tables
<1>5. Tables'
  <2>1. p \in Parts
    BY <1>1 DEF Thread
  <2>2. partTable' \in [Parts -> {"ok", "ko", None}] /\ told' \in [Parts -> {"ok", "ko"}]
    BY <1>0, <1>9, <2>1 DEF Tables, states
  <2> QED
    BY <1>0, <1>2, <1>4, <2>2 DEF Tables
<1> QED
  BY <1>2, <1>3, <1>5, SameTyped

LEMMA LookPartTyped == ASSUME Typed, NEW b \in Backends, LookPart(b) PROVE Typed'
<1>1. PICK me \in Thread : me = thread[b] /\ Place(me) /\ Lines(me)
  BY Mine
<1>0. Tables /\ Len(entries) \in Nat /\ Len(eventTypes) \in Nat /\ clock \in Nat
  BY Mine DEF Tables
<1>9. PICK p \in me.parts, new \in {0, 1} :
          Set(b, [me EXCEPT !.parts = @ \ {p}, !.part = p, !.pc = "storepart",
                            !.failed = @ + 1, !.nfailed = @ + new])
  BY <1>1 DEF LookPart
<1>8. PICK f \in Nat, n \in Nat : f = me.failed + 1 /\ n = me.nfailed + new
  BY <1>1 DEF Thread
<1>2. me.pc = "parts" /\ UNCHANGED vs /\ UNCHANGED crashes /\ (Fault \/ Works)
  BY <1>1, <1>9 DEF LookPart, At, Go, Set, vs, agent, logs, states, services, time
<1> DEFINE t == [me EXCEPT !.parts = @ \ {p}, !.part = p, !.pc = "storepart",
                           !.failed = f, !.nfailed = n]
<1>3. thread' = [thread EXCEPT ![b] = t]
  BY <1>8, <1>9 DEF Set
<1>4. p \in Parts /\ p # None
  BY <1>1, Constants DEF Thread
<1>5. t \in Thread /\ Place(t) /\ Lines(t)
  <2>1. t \in Thread
    BY <1>1, <1>2, <1>4, ZenonT(60) DEF Thread, Pcs
  <2>2. Place(t)
    BY <1>0, <1>1, <1>2, <1>4 DEF Thread, InService, Place
  <2>3. Lines(t)
    BY <1>1, <1>2 DEF Thread, Lines
  <2> QED
    BY <2>1, <2>2, <2>3
<1>6. Tables'
  BY <1>0, <1>2, SameTables
<1> QED
  BY <1>2, <1>3, <1>5, <1>6, SameTyped DEF vs

LEMMA StorePartTyped == ASSUME Typed, NEW b \in Backends, StorePart(b) PROVE Typed'
<1>1. PICK me \in Thread : me = thread[b] /\ Place(me) /\ Lines(me)
  BY Mine
<1>0. Tables /\ Len(entries) \in Nat /\ Len(eventTypes) \in Nat /\ clock \in Nat
  BY Mine DEF Tables
<1> DEFINE t == [me EXCEPT !.part = None, !.pc = "parts"]
<1>2. /\ thread' = [thread EXCEPT ![b] = t] /\ me.pc = "storepart"
      /\ UNCHANGED <<eventTypes, logTable, told, alerted, known, history, entries, up, status, gone, overlap, clock, crashes>> /\ (Fault \/ Works)
  BY <1>1 DEF StorePart, At, Go, Set, Works, vs, agent, logs, states, services, time
<1>3. t \in Thread /\ Place(t) /\ Lines(t)
  <2>1. t \in Thread
    BY <1>1, <1>2, ZenonT(60) DEF Thread, Pcs
  <2>2. Place(t)
    BY <1>0, <1>1, <1>2 DEF Thread, InService, Place
  <2>3. Lines(t)
    BY <1>1, <1>2 DEF Thread, Lines
  <2> QED
    BY <2>1, <2>2, <2>3
<1>4. faults' \in Nat /\ crashes' \in Nat /\ crashes' + faults' <= MaxMishaps
  BY <1>0, <1>2, FaultType DEF Tables
<1>5. Tables'
  <2>1. me.part \in Parts
    BY <1>1, <1>2 DEF Thread, Place
  <2>2. me.reply.status[me.part] \in {"ok", "ko"}
    BY <1>1, <2>1 DEF Thread, Reply
  <2>3. partTable' = partTable \/ partTable' = [partTable EXCEPT ![me.part] = me.reply.status[me.part]]
    BY <1>1 DEF StorePart
  <2>4. partTable' \in [Parts -> {"ok", "ko", None}]
    BY <1>0, <2>1, <2>2, <2>3 DEF Tables
  <2> QED
    BY <1>0, <1>2, <1>4, <2>4 DEF Tables
<1> QED
  BY <1>2, <1>3, <1>5, SameTyped

LEMMA PartsDoneTyped == ASSUME Typed, NEW b \in Backends, PartsDone(b) PROVE Typed'
<1>1. PICK me \in Thread : me = thread[b] /\ Place(me) /\ Lines(me)
  BY Mine
<1>0. Tables /\ Len(entries) \in Nat /\ Len(eventTypes) \in Nat /\ clock \in Nat
  BY Mine DEF Tables
<1> DEFINE t == [me EXCEPT !.pc = "history"]
<1>2. /\ thread' = [thread EXCEPT ![b] = t] /\ me.pc = "parts" /\ me.parts = {}
      /\ UNCHANGED <<eventTypes, logTable, partTable, alerted, known, history, entries, up, status, gone, overlap, clock, crashes>> /\ (Fault \/ Works)
  BY <1>1 DEF PartsDone, At, Go, Set, Works, vs, agent, logs, states, services, time
<1>3. t \in Thread /\ Place(t) /\ Lines(t)
  <2>1. t \in Thread
    BY <1>1, <1>2, ZenonT(60) DEF Thread, Pcs
  <2>2. Place(t)
    BY <1>0, <1>1, <1>2 DEF Thread, InService, Place
  <2>3. Lines(t)
    BY <1>1, <1>2 DEF Thread, Lines
  <2> QED
    BY <2>1, <2>2, <2>3
<1>4. faults' \in Nat /\ crashes' \in Nat /\ crashes' + faults' <= MaxMishaps
  BY <1>0, <1>2, FaultType DEF Tables
<1>5. Tables'
  <2>1. told' = told \/ told' = [p \in Parts |-> IF p \in OfService(me.service) THEN me.reply.status[p] ELSE told[p]]
    BY <1>1 DEF PartsDone
  <2>2. told' \in [Parts -> {"ok", "ko"}]
    BY <1>0, <1>1, <2>1 DEF Tables, Thread, Reply
  <2> QED
    BY <1>0, <1>2, <1>4, <2>2 DEF Tables
<1> QED
  BY <1>2, <1>3, <1>5, SameTyped

LEMMA HistoryTyped == ASSUME Typed, NEW b \in Backends, History(b) PROVE Typed'
<1>1. PICK me \in Thread : me = thread[b] /\ Place(me) /\ Lines(me)
  BY Mine
<1>0. Tables /\ Len(entries) \in Nat /\ Len(eventTypes) \in Nat /\ clock \in Nat
  BY Mine DEF Tables
<1> DEFINE t == [me EXCEPT !.service = None, !.pc = "next", !.failed = 0, !.nfailed = 0, !.ok = 0]
<1>2. /\ thread' = [thread EXCEPT ![b] = t] /\ me.pc = "history"
      /\ UNCHANGED <<eventTypes, logTable, partTable, told, alerted, known, entries, up, status, gone, overlap, clock, crashes>> /\ (Fault \/ Works)
  BY <1>1 DEF History, ResetCounters, At, Go, Set, Works, vs, agent, logs, states, services, time
<1>3. t \in Thread /\ Place(t) /\ Lines(t)
  <2>1. t \in Thread
    BY <1>1, <1>2, ZenonT(60) DEF Thread, Pcs
  <2>2. Place(t)
    BY <1>0, <1>1, <1>2 DEF Thread, InService, Place
  <2>3. Lines(t)
    BY <1>1, <1>2 DEF Thread, Lines
  <2> QED
    BY <2>1, <2>2, <2>3
<1>4. faults' \in Nat /\ crashes' \in Nat /\ crashes' + faults' <= MaxMishaps
  BY <1>0, <1>2, FaultType DEF Tables
<1>5. Tables'
  <2>1. me.service \in Services /\ me.ts \in 1..clock
    BY <1>0, <1>1, <1>2 DEF Thread, Place, InService
  <2>2. [failed |-> me.failed, missing |-> 0, ok |-> me.ok] \in Counters
    BY <1>1 DEF Thread, Counters
  <2>3. \/ history' = history
        \/ history' = Put(history, <<me.service, me.ts>>, [failed |-> me.failed, missing |-> 0, ok |-> me.ok])
    BY <1>1 DEF History
  <2>4. \A k \in DOMAIN history' : k \in Services \X (1..clock) /\ history'[k] \in Counters
    BY <1>0, <2>1, <2>2, <2>3 DEF Tables, Put
  <2> QED
    BY <1>0, <1>2, <1>4, <2>4 DEF Tables
<1> QED
  BY <1>2, <1>3, <1>5, SameTyped

Gone(h, ts) == {<<s, ts>> : s \in WithoutRow(h, ts)}

MissingStep(b, me, h) ==
    /\ Set(b, [me EXCEPT !.hosts = @ \ {h}])
    /\ \/ /\ history' = [k \in DOMAIN history \cup Gone(h, me.ts) |->
                            IF k \in Gone(h, me.ts) THEN PartsMissing(k[1]) ELSE history[k]]
          /\ Works
       \/ Fault /\ UNCHANGED history

LEMMA MissingSteps ==
    ASSUME NEW b \in Backends, Missing(b)
    PROVE  \E h \in thread[b].hosts : MissingStep(b, thread[b], h)
  BY DEF Missing, MissingStep, Gone

LEMMA MissingTyped == ASSUME Typed, NEW b \in Backends, Missing(b) PROVE Typed'
<1>1. PICK me \in Thread : me = thread[b] /\ Place(me) /\ Lines(me)
  BY Mine
<1>0. Tables /\ Len(entries) \in Nat /\ Len(eventTypes) \in Nat /\ clock \in Nat
  BY Mine DEF Tables
<1>2. PICK h \in me.hosts : MissingStep(b, me, h)
  BY <1>1, MissingSteps
<1> DEFINE t == [me EXCEPT !.hosts = @ \ {h}]
           new == Gone(h, me.ts)
<1>3. /\ thread' = [thread EXCEPT ![b] = t] /\ me.pc = "next"
      /\ UNCHANGED <<known, logs, states, time, agent, crashes>> /\ (Fault \/ Works)
  BY <1>1, <1>2 DEF Missing, MissingStep, At, Set
<1>4. t \in Thread /\ Place(t) /\ Lines(t)
  <2>1. t \in Thread
    BY <1>1 DEF Thread
  <2>2. Place(t)
    BY <1>1, <1>3 DEF Thread, InService, Place
  <2>3. Lines(t)
    BY <1>1 DEF Thread, Lines
  <2> QED
    BY <2>1, <2>2, <2>3
<1>5. Tables'
  <2>1. me.ts \in 1..clock
    BY <1>0, <1>1, <1>3 DEF Thread, Place
  <2>2. \A k \in new : k \in Services \X (1..clock)
    BY <1>0, <2>1 DEF Gone, WithoutRow, Tables
  <2>3. \A k \in new : PartsMissing(k[1]) \in Counters
    <3>1. \A s : PartsMissing(s) \in Counters
      <4> TAKE s
      <4>1. {p \in OfService(s) : partTable[p] # None} \in SUBSET Parts
        BY DEF OfService
      <4> QED
        BY <4>1, PartsFinite DEF PartsMissing, Counters
    <3> QED
      BY <3>1
  <2>4. \/ history' = history
        \/ history' = [k \in DOMAIN history \cup new |->
                         IF k \in new THEN PartsMissing(k[1]) ELSE history[k]]
    BY <1>2 DEF MissingStep
  <2>5. \A k \in DOMAIN history' : k \in Services \X (1..clock) /\ history'[k] \in Counters
    <3> HIDE DEF new
    <3> QED
      BY <1>0, <2>2, <2>3, <2>4 DEF Tables
  <2>6. faults' \in Nat /\ crashes' \in Nat /\ crashes' + faults' <= MaxMishaps
    BY <1>0, <1>3, FaultType DEF Tables
  <2> QED
    BY <1>0, <1>3, <2>5, <2>6 DEF Tables, agent, logs, states, time
<1> QED
  BY <1>3, <1>4, <1>5, SameTyped DEF agent, logs, time

LEMMA StutterTyped == Typed /\ UNCHANGED vars => Typed'
<1> SUFFICES ASSUME Typed, UNCHANGED vars PROVE Typed'
  OBVIOUS
<1>1. UNCHANGED vs /\ UNCHANGED <<thread, crashes, faults>>
  BY DEF vars, agent, logs, states, services, time, vs
<1>2. Tables'
  BY <1>1 DEF Typed, Tables, vs
<1> QED
  BY <1>1, <1>2 DEF Typed, Place, Lines, vs

LEMMA NextTyped == Typed /\ [Next]_vars => Typed'
<1> SUFFICES ASSUME Typed, [Next]_vars PROVE Typed'
  OBVIOUS
<1>1. ASSUME NEW b \in Backends, Start(b) \/ Crash(b) \/ Collect(b) PROVE Typed'
  BY <1>1, StartTyped, CrashTyped, ReadClockTyped, RequestTyped, ErrorBodyTyped,
     RequestFailsTyped, NextServiceTyped, LookLogTyped, StoreLogTyped, LogsDoneTyped,
     PartOkTyped, LookPartTyped, StorePartTyped, PartsDoneTyped, HistoryTyped, MissingTyped,
     CollectDoneTyped DEF Collect
<1> QED
  BY <1>1, AgentLogsTyped, AgentChangesTyped, StutterTyped DEF Next

-----------------------------------------------------------------------------
(***************************************************************************)
(* The counters of a service count its parts                               *)
(***************************************************************************)
Summed == \A b \in Backends : Sums(thread[b])

LEMMA SumsStep ==
    ASSUME Typed, Summed, NEW b \in Backends, NEW t, thread' = [thread EXCEPT ![b] = t],
           Sums(t)
    PROVE  Summed'
<1>1. thread'[b] = t /\ \A o \in Backends \ {b} : thread'[o] = thread[o]
  BY Others DEF Typed
<1> QED
  BY <1>1 DEF Summed

\* A step to another place that has the same counters
LEMMA SumsSame ==
    ASSUME Typed, Summed, NEW b \in Backends, NEW t, NEW me \in Thread, me = thread[b],
           thread' = [thread EXCEPT ![b] = t],
           t.failed = me.failed, t.nfailed = me.nfailed, t.ok = me.ok, t.parts = me.parts,
           me.pc \in InService => t.pc \in InService,
           me.pc \in {"parts", "storepart", "history"} => t.pc \in {"parts", "storepart", "history"},
           t.pc = "history" => t.parts = {}
    PROVE  Summed'
<1>1. Sums(me)
  BY DEF Summed
<1>2. Sums(t)
  BY <1>1 DEF Sums
<1> QED
  BY <1>2, SumsStep

LEMMA NextSummed == Typed /\ Typed' /\ Summed /\ [Next]_vars => Summed'
<1> SUFFICES ASSUME Typed, Typed', Summed, [Next]_vars PROVE Summed'
  OBVIOUS
<1>1. CASE AgentLogs \/ AgentChanges \/ UNCHANGED vars
  BY <1>1 DEF AgentLogs, AgentChanges, vars, Summed
<1>2. ASSUME NEW b \in Backends, Start(b) \/ Crash(b) \/ Collect(b) PROVE Summed'
  <2>1. PICK me \in Thread : me = thread[b] /\ Place(me) /\ Lines(me) /\ Sums(me)
    BY Mine DEF Summed
  <2>2. Sums(Fresh)
    BY PartsFinite, FS_EmptySet DEF Sums, Fresh
  <2>3. CASE Start(b)
    <3> DEFINE t == [me EXCEPT !.pc = "idle"]
    <3>1. thread' = [thread EXCEPT ![b] = t]
      BY <2>1, <2>3 DEF Start, At, Go, Set
    <3>2. /\ t.failed = me.failed /\ t.nfailed = me.nfailed /\ t.ok = me.ok /\ t.parts = me.parts
          /\ me.pc \in InService => t.pc \in InService
          /\ me.pc \in {"parts", "storepart", "history"} => t.pc \in {"parts", "storepart", "history"}
          /\ t.pc = "history" => t.parts = {}
      BY <2>1, <2>3 DEF Start, At, Go, Set, Thread, InService
    <3> HIDE DEF t
    <3> QED
      BY <2>1, <3>1, <3>2, SumsSame
  <2>4. CASE Crash(b)
    BY <2>2, <2>4, SumsStep DEF Crash
  <2>5. CASE ReadClock(b)
    <3> DEFINE t == [me EXCEPT !.ts = clock + 1, !.pc = "ask"]
    <3>1. thread' = [thread EXCEPT ![b] = t]
      BY <2>1, <2>5 DEF ReadClock, At, Go, Set
    <3>2. /\ t.failed = me.failed /\ t.nfailed = me.nfailed /\ t.ok = me.ok /\ t.parts = me.parts
          /\ me.pc \in InService => t.pc \in InService
          /\ me.pc \in {"parts", "storepart", "history"} => t.pc \in {"parts", "storepart", "history"}
          /\ t.pc = "history" => t.parts = {}
      BY <2>1, <2>5 DEF ReadClock, At, Go, Set, Thread, InService
    <3> HIDE DEF t
    <3> QED
      BY <2>1, <3>1, <3>2, SumsSame
  <2>6. CASE Request(b) \/ RequestErrorBody(b)
    <3>9. PICK r, since : Answer(b, r, since)
      BY <2>6 DEF Request, RequestErrorBody
    <3> DEFINE t == [me EXCEPT !.reply = r, !.since = since, !.todo = r.up, !.pc = "next"]
    <3>1. thread' = [thread EXCEPT ![b] = t]
      BY <2>1, <2>6, <3>9 DEF Answer, At, Go, Set
    <3>2. /\ t.failed = me.failed /\ t.nfailed = me.nfailed /\ t.ok = me.ok /\ t.parts = me.parts
          /\ me.pc \in InService => t.pc \in InService
          /\ me.pc \in {"parts", "storepart", "history"} => t.pc \in {"parts", "storepart", "history"}
          /\ t.pc = "history" => t.parts = {}
      BY <2>1, <2>6, <3>9 DEF Answer, At, Go, Set, Thread, InService
    <3> HIDE DEF t
    <3> QED
      BY <2>1, <3>1, <3>2, SumsSame
  <2>7. CASE RequestFails(b)
    <3> DEFINE t == [me EXCEPT !.pc = "idle"]
    <3>1. thread' = [thread EXCEPT ![b] = t]
      BY <2>1, <2>7 DEF RequestFails, At, Go, Set
    <3>2. /\ t.failed = me.failed /\ t.nfailed = me.nfailed /\ t.ok = me.ok /\ t.parts = me.parts
          /\ me.pc \in InService => t.pc \in InService
          /\ me.pc \in {"parts", "storepart", "history"} => t.pc \in {"parts", "storepart", "history"}
          /\ t.pc = "history" => t.parts = {}
      BY <2>1, <2>7 DEF RequestFails, At, Go, Set, Thread, InService
    <3> HIDE DEF t
    <3> QED
      BY <2>1, <3>1, <3>2, SumsSame
  <2>8. CASE CollectDone(b)
    <3> DEFINE t == [me EXCEPT !.pc = "idle"]
    <3>1. thread' = [thread EXCEPT ![b] = t]
      BY <2>1, <2>8 DEF CollectDone, At, Go, Set
    <3>2. /\ t.failed = me.failed /\ t.nfailed = me.nfailed /\ t.ok = me.ok /\ t.parts = me.parts
          /\ me.pc \in InService => t.pc \in InService
          /\ me.pc \in {"parts", "storepart", "history"} => t.pc \in {"parts", "storepart", "history"}
          /\ t.pc = "history" => t.parts = {}
      BY <2>1, <2>8 DEF CollectDone, At, Go, Set, Thread, InService
    <3> HIDE DEF t
    <3> QED
      BY <2>1, <3>1, <3>2, SumsSame
  <2>9. CASE NextService(b)
    <3>9. PICK s, sent : thread' = [thread EXCEPT ![b] = [me EXCEPT !.pc = "log", !.todo = @ \ {s},
              !.hosts = @ \cup {HostOf[s]}, !.service = s, !.logs = sent, !.parts = OfService(s)]]
      BY <2>1, <2>9 DEF NextService, Set
    <3>8. me.pc = "next"
      BY <2>1, <2>9 DEF NextService, At
    <3> DEFINE t == [me EXCEPT !.pc = "log", !.todo = @ \ {s}, !.hosts = @ \cup {HostOf[s]}, !.service = s, !.logs = sent, !.parts = OfService(s)]
    <3>1. thread' = [thread EXCEPT ![b] = t]
      BY <2>1, <2>9, <3>9 DEF NextService, At, Go, Set
    <3>2. Sums(t)
      <4>1. OfService(s) \in SUBSET Parts
        BY DEF OfService
      <4>2. me.failed = 0 /\ me.nfailed = 0 /\ me.ok = 0
        BY <2>1, <3>8 DEF Sums
      <4>3. Cardinality(OfService(s)) \in Nat /\ Cardinality(OfService(s)) <= Cardinality(Parts)
        BY <4>1, PartsFinite
      <4>4. t.parts = OfService(s) /\ t.failed = 0 /\ t.nfailed = 0 /\ t.ok = 0 /\ t.pc = "log"
        BY <2>1, <4>2 DEF Thread
      <4> HIDE DEF t
      <4> QED
        BY <4>3, <4>4 DEF Sums, InService
    <3> HIDE DEF t
    <3> QED
      BY <3>1, <3>2, SumsStep
  <2>10. CASE LookLog(b)
    <3>1. PICK i \in Least(me.logs) :
            \/ thread' = [thread EXCEPT ![b] = [me EXCEPT !.logs = @ \ {i}]]
            \/ thread' = [thread EXCEPT ![b] = [me EXCEPT !.pc = "store"]]
      BY <2>1, <2>10 DEF LookLog, Go, Set
    <3>2. me.pc = "log"
      BY <2>1, <2>10 DEF LookLog, At
    <3>3. Sums([me EXCEPT !.logs = @ \ {i}]) /\ Sums([me EXCEPT !.pc = "store"])
      BY <2>1, <3>2 DEF Sums, Thread, InService
    <3> QED
      BY <3>1, <3>3, SumsStep
  <2>11. CASE StoreLog(b)
    <3>9. PICK i \in Least(me.logs), id \in Nat : StoreStep(b, me, i, id)
      BY <2>1, <2>11, StoreLogSteps
    <3>8. me.pc = "store"
      BY <2>1, <2>11, StoreLogSteps
    <3> DEFINE t == [me EXCEPT !.pc = "log", !.logs = @ \ {i}, !.batch = @ \cup {i}, !.maxlvl = Larger(@, id)]
    <3>1. thread' = [thread EXCEPT ![b] = t]
      BY <2>1, <2>11, <3>8, <3>9 DEF StoreStep
    <3>2. /\ t.failed = me.failed /\ t.nfailed = me.nfailed /\ t.ok = me.ok /\ t.parts = me.parts
          /\ me.pc \in InService => t.pc \in InService
          /\ me.pc \in {"parts", "storepart", "history"} => t.pc \in {"parts", "storepart", "history"}
          /\ t.pc = "history" => t.parts = {}
      BY <2>1, <2>11, <3>8, <3>9 DEF StoreStep, Thread, InService
    <3> HIDE DEF t
    <3> QED
      BY <2>1, <3>1, <3>2, SumsSame
  <2>12. CASE LogsDone(b)
    <3> DEFINE t == [me EXCEPT !.batch = {}, !.maxlvl = 0, !.pc = "parts"]
    <3>1. thread' = [thread EXCEPT ![b] = t]
      BY <2>1, <2>12 DEF LogsDone, At, Go, Set
    <3>2. /\ t.failed = me.failed /\ t.nfailed = me.nfailed /\ t.ok = me.ok /\ t.parts = me.parts
          /\ me.pc \in InService => t.pc \in InService
          /\ me.pc \in {"parts", "storepart", "history"} => t.pc \in {"parts", "storepart", "history"}
          /\ t.pc = "history" => t.parts = {}
      BY <2>1, <2>12 DEF LogsDone, At, Go, Set, Thread, InService
    <3> HIDE DEF t
    <3> QED
      BY <2>1, <3>1, <3>2, SumsSame
  <2>13. CASE PartOk(b)
    <3>9. PICK p \in me.parts : thread' = [thread EXCEPT ![b] = [me EXCEPT !.parts = @ \ {p}, !.ok = @ + 1]]
      BY <2>1, <2>13 DEF PartOk, Set
    <3>8. me.pc = "parts"
      BY <2>1, <2>13 DEF PartOk, At
    <3> DEFINE t == [me EXCEPT !.parts = @ \ {p}, !.ok = @ + 1]
    <3>1. thread' = [thread EXCEPT ![b] = t]
      BY <2>1, <2>13, <3>9 DEF Set
    <3>2. Sums(t)
      <4>1. p \in Parts /\ me.parts \in SUBSET Parts /\ me.parts \ {p} \in SUBSET Parts
        BY <2>1 DEF Thread
      <4>2. Cardinality(me.parts \ {p}) = Cardinality(me.parts) - 1 /\ IsFiniteSet(me.parts)
        BY <4>1, PartsFinite, FS_RemoveElement
      <4>3. Cardinality(Parts) \in Nat /\ Cardinality(me.parts) \in Nat
            /\ Cardinality(me.parts \ {p}) \in Nat
        BY <4>1, PartsFinite
      <4>4. t.pc = "parts" /\ t.parts = me.parts \ {p} /\ t.ok = me.ok + 1
            /\ t.failed = me.failed /\ t.nfailed = me.nfailed
        BY <2>1, <3>8, <3>9 DEF Thread
      <4>5. me.failed \in Nat /\ me.nfailed \in Nat /\ me.ok \in Nat
            /\ me.nfailed <= me.failed
            /\ me.failed + me.ok + Cardinality(me.parts) <= Cardinality(Parts)
        BY <2>1 DEF Thread, Sums
      <4> HIDE DEF t
      <4> QED
        BY <4>2, <4>3, <4>4, <4>5 DEF Sums, InService
    <3> HIDE DEF t
    <3> QED
      BY <3>1, <3>2, SumsStep
  <2>14. CASE LookPart(b)
    <3>9. PICK p \in me.parts, new \in {0, 1} : thread' = [thread EXCEPT ![b] =
              [me EXCEPT !.parts = @ \ {p}, !.part = p, !.pc = "storepart", !.failed = @ + 1, !.nfailed = @ + new]]
      BY <2>1, <2>14 DEF LookPart, Set
    <3> DEFINE t == [me EXCEPT !.parts = @ \ {p}, !.part = p, !.pc = "storepart", !.failed = @ + 1, !.nfailed = @ + new]
    <3>1. thread' = [thread EXCEPT ![b] = t]
      BY <2>1, <2>14, <3>9 DEF Set
    <3>2. Sums(t)
      <4>1. p \in Parts /\ me.parts \in SUBSET Parts /\ me.parts \ {p} \in SUBSET Parts
        BY <2>1 DEF Thread
      <4>2. Cardinality(me.parts \ {p}) = Cardinality(me.parts) - 1 /\ IsFiniteSet(me.parts)
        BY <4>1, PartsFinite, FS_RemoveElement
      <4>3. Cardinality(Parts) \in Nat /\ Cardinality(me.parts) \in Nat
            /\ Cardinality(me.parts \ {p}) \in Nat
        BY <4>1, PartsFinite
      <4>4. t.pc = "storepart" /\ t.parts = me.parts \ {p} /\ t.ok = me.ok
            /\ t.failed = me.failed + 1 /\ t.nfailed = me.nfailed + new
        BY <2>1, <3>9 DEF Thread
      <4>5. me.failed \in Nat /\ me.nfailed \in Nat /\ me.ok \in Nat
            /\ me.nfailed <= me.failed
            /\ me.failed + me.ok + Cardinality(me.parts) <= Cardinality(Parts)
        BY <2>1 DEF Thread, Sums
      <4> HIDE DEF t
      <4> QED
        BY <4>2, <4>3, <4>4, <4>5 DEF Sums, InService
    <3> HIDE DEF t
    <3> QED
      BY <3>1, <3>2, SumsStep
  <2>15. CASE StorePart(b)
    <3> DEFINE t == [me EXCEPT !.part = None, !.pc = "parts"]
    <3>1. thread' = [thread EXCEPT ![b] = t]
      BY <2>1, <2>15 DEF StorePart, At, Go, Set
    <3>2. /\ t.failed = me.failed /\ t.nfailed = me.nfailed /\ t.ok = me.ok /\ t.parts = me.parts
          /\ me.pc \in InService => t.pc \in InService
          /\ me.pc \in {"parts", "storepart", "history"} => t.pc \in {"parts", "storepart", "history"}
          /\ t.pc = "history" => t.parts = {}
      BY <2>1, <2>15 DEF StorePart, At, Go, Set, Thread, InService
    <3> HIDE DEF t
    <3> QED
      BY <2>1, <3>1, <3>2, SumsSame
  <2>16. CASE PartsDone(b)
    <3> DEFINE t == [me EXCEPT !.pc = "history"]
    <3>1. thread' = [thread EXCEPT ![b] = t]
      BY <2>1, <2>16 DEF PartsDone, At, Go, Set
    <3>2. /\ t.failed = me.failed /\ t.nfailed = me.nfailed /\ t.ok = me.ok /\ t.parts = me.parts
          /\ me.pc \in InService => t.pc \in InService
          /\ me.pc \in {"parts", "storepart", "history"} => t.pc \in {"parts", "storepart", "history"}
          /\ t.pc = "history" => t.parts = {}
      BY <2>1, <2>16 DEF PartsDone, At, Go, Set, Thread, InService
    <3> HIDE DEF t
    <3> QED
      BY <2>1, <3>1, <3>2, SumsSame
  <2>17. CASE History(b)
    <3>9. /\ thread' = [thread EXCEPT ![b] = [me EXCEPT !.service = None, !.pc = "next", !.failed = 0, !.nfailed = 0, !.ok = 0]]
          /\ me.pc = "history"
      BY <2>1, <2>17 DEF History, ResetCounters, Set, At
    <3>8. me.parts = {}
      BY <2>1, <3>9 DEF Sums
    <3> DEFINE t == [me EXCEPT !.service = None, !.pc = "next", !.failed = 0, !.nfailed = 0, !.ok = 0]
    <3>1. thread' = [thread EXCEPT ![b] = t]
      BY <2>1, <2>17, <3>9 DEF Set
    <3>2. Sums(t)
      <4>1. t.parts = {} /\ t.failed = 0 /\ t.nfailed = 0 /\ t.ok = 0 /\ t.pc = "next"
        BY <2>1, <3>8 DEF Thread
      <4> HIDE DEF t
      <4> QED
        BY <4>1, PartsFinite, FS_EmptySet DEF Sums, InService
    <3> HIDE DEF t
    <3> QED
      BY <3>1, <3>2, SumsStep
  <2>18. CASE Missing(b)
    <3>9. PICK h : MissingStep(b, me, h)
      BY <2>1, <2>18, MissingSteps
    <3> DEFINE t == [me EXCEPT !.hosts = @ \ {h}]
    <3>1. thread' = [thread EXCEPT ![b] = t]
      BY <2>1, <2>18, <3>9 DEF MissingStep, At, Go, Set
    <3>2. /\ t.failed = me.failed /\ t.nfailed = me.nfailed /\ t.ok = me.ok /\ t.parts = me.parts
          /\ me.pc \in InService => t.pc \in InService
          /\ me.pc \in {"parts", "storepart", "history"} => t.pc \in {"parts", "storepart", "history"}
          /\ t.pc = "history" => t.parts = {}
      BY <2>1, <2>18, <3>9 DEF Sums, MissingStep, At, Go, Set, Thread, InService
    <3> HIDE DEF t
    <3> QED
      BY <2>1, <3>1, <3>2, SumsSame
  <2> QED
    BY <1>2, <2>3, <2>4, <2>5, <2>6, <2>7, <2>8, <2>9, <2>10, <2>11, <2>12, <2>13, <2>14, <2>15, <2>16, <2>17, <2>18 DEF Collect
<1> QED
  BY <1>1, <1>2 DEF Next

LEMMA SumsInit == Init => Summed
<1> SUFFICES ASSUME Init PROVE Summed
  OBVIOUS
<1>1. Sums(Fresh)
  BY PartsFinite, FS_EmptySet DEF Sums, Fresh
<1> QED
  BY <1>1 DEF Init, Summed

Inv == Typed /\ Summed

LEMMA Invariance == Spec => []Inv
<1>1. Init => Inv
  BY InitTyped, SumsInit DEF Inv
<1>2. Inv /\ [Next]_vars => Inv'
  BY NextTyped, NextSummed DEF Inv
<1> QED
  BY <1>1, <1>2, PTL DEF Spec

\* Types of the tables, and of each collect: the lines it handles were sent, the
\* service it is on is a service, and its counters never count a part twice
\* (agentClient.cpp:281-336).
THEOREM TypeCorrect == Spec => []TypeOK
<1>1. Inv => TypeOK
  <2> SUFFICES ASSUME Inv PROVE TypeOK
    OBVIOUS
  <2>1. TypeTables /\ crashes + faults <= MaxMishaps
    BY DEF Inv, Typed, Tables, TypeTables
  <2>2. ASSUME NEW b \in Backends PROVE TypeThread(thread[b])
    <3>1. PICK t \in Thread : t = thread[b] /\ Place(t) /\ Lines(t) /\ Sums(t)
      BY DEF Inv, Typed, Summed
    <3>2. t.logs \cup t.batch \subseteq 1..t.reply.last
      BY <3>1 DEF Thread, Reply, Place, Lines
    <3>3. t.pc \in Pcs /\ t.since \in Nat /\ t.ts \in Nat /\ t.maxlvl \in Nat
      BY <3>1 DEF Thread
    <3> QED
      BY <3>1, <3>2, <3>3 DEF TypeThread, Pcs, Place, Sums, InService, Inv, Typed, Tables
  <2> QED
    BY <2>1, <2>2 DEF TypeOK
<1> QED
  BY <1>1, Invariance, PTL

-----------------------------------------------------------------------------
(***************************************************************************)
(* Missing services: every service the agent reported has its row of the   *)
(* round, or the loop is still to come to it, when missing ones are looked *)
(* for.                                                                    *)
(***************************************************************************)
\* Of a round
Covered(t) ==
    t.pc \notin {"down", "idle", "ask"} =>
        /\ Services \ t.reply.up \subseteq gone
        /\ \A s \in t.reply.up :
              \/ s \in t.todo
              \/ t.pc \in InService /\ s = t.service
              \/ <<s, t.ts>> \in DOMAIN history

AllCovered ==
    faults = 0 =>
        /\ Services \ up \subseteq gone
        /\ \A b \in Backends : Covered(thread[b])
        /\ \A k \in DOMAIN history : history[k].missing > 0 => k[1] \in gone

\* What a thread does to itself and to the history
LEMMA CoveredStep ==
    ASSUME Typed, AllCovered, faults' = 0 => faults = 0,
           NEW b \in Backends, NEW t, thread' = [thread EXCEPT ![b] = t],
           UNCHANGED <<up, gone>>, faults' = 0 => DOMAIN history \subseteq DOMAIN history',
           faults' = 0 => Covered(t)',
           faults' = 0 => \A k \in DOMAIN history' :
               history'[k].missing > 0 =>
                   k[1] \in gone \/ (k \in DOMAIN history /\ history'[k] = history[k])
    PROVE  AllCovered'
<1> SUFFICES ASSUME faults' = 0
             PROVE  /\ Services \ up \subseteq gone
                    /\ \A o \in Backends : Covered(thread[o])'
                    /\ \A k \in DOMAIN history' : history'[k].missing > 0 => k[1] \in gone
  BY DEF AllCovered
<1>1. Services \ up \subseteq gone
  BY DEF AllCovered
<1>2. thread'[b] = t /\ \A o \in Backends \ {b} : thread'[o] = thread[o]
  BY Others DEF Typed
<1>3. ASSUME NEW o \in Backends \ {b} PROVE Covered(thread[o])'
  <2>1. PICK u \in Thread : u = thread[o] /\ u = thread'[o] /\ Covered(u)
    BY <1>2 DEF Typed, AllCovered
  <2>2. Covered(u)'
    BY <2>1 DEF Covered
  <2> QED
    BY <2>1, <2>2
<1>4. Covered(thread[b])'
  BY <1>2
<1> QED
  BY <1>1, <1>3, <1>4 DEF AllCovered

\* Inside a service nothing of this moves
LEMMA CoveredSame ==
    ASSUME Typed, AllCovered, Fault \/ Works, NEW b \in Backends, NEW t,
           NEW me \in Thread, me = thread[b],
           thread' = [thread EXCEPT ![b] = t], UNCHANGED <<up, gone, history>>,
           \/ t.pc \in {"down", "idle", "ask"}
           \/ /\ me.pc \in InService /\ t.pc \in InService
              /\ t.reply = me.reply /\ t.todo = me.todo /\ t.service = me.service /\ t.ts = me.ts
    PROVE  AllCovered'
<1>1. faults' = 0 => faults = 0
  BY DEF Typed, Tables, Fault, Works
<1>2. faults' = 0 => Covered(t)'
  BY <1>1 DEF AllCovered, Covered, InService
<1> QED
  BY <1>1, <1>2, CoveredStep

LEMMA NextCovered ==
    ASSUME \A b \in Backends : Reports[b] = Services, Typed, AllCovered, [Next]_vars
    PROVE  AllCovered'
<1>1. CASE AgentLogs \/ UNCHANGED vars
  <2>1. UNCHANGED <<up, gone, history, thread, faults>>
    BY <1>1 DEF AgentLogs, vars, agent, services
  <2> QED
    BY <2>1 DEF AllCovered, Covered
<1>2. CASE AgentChanges
  <2>1. UNCHANGED <<history, thread, faults>> /\ gone \subseteq gone' /\ Services \ up' \subseteq (Services \ up) \cup gone'
    BY <1>2 DEF AgentChanges, services
  <2> QED
    BY <2>1 DEF AllCovered, Covered
<1>3. ASSUME NEW b \in Backends, Start(b) \/ Crash(b) \/ Collect(b) PROVE AllCovered'
  <2>1. PICK me \in Thread : me = thread[b]
    BY Mine
  <2>3. CASE Start(b)
    <3> DEFINE t == [me EXCEPT !.pc = "idle"]
    <3>1. thread' = [thread EXCEPT ![b] = t] /\ UNCHANGED <<up, gone, history>> /\ (Fault \/ Works)
      BY <2>1, <2>3 DEF Start, At, Go, Set, Works, agent, services
    <3>2. \/ t.pc \in {"down", "idle", "ask"}
          \/ /\ me.pc \in InService /\ t.pc \in InService
             /\ t.reply = me.reply /\ t.todo = me.todo /\ t.service = me.service /\ t.ts = me.ts
      BY <2>1, <2>3 DEF Start, At, Go, Set, Thread, InService
    <3> HIDE DEF t
    <3> QED
      BY <2>1, <3>1, <3>2, CoveredSame
  <2>4. CASE Crash(b)
    BY <2>1, <2>4, CoveredSame DEF Crash, Fresh, agent, services, Works
  <2>5. CASE ReadClock(b)
    <3> DEFINE t == [me EXCEPT !.ts = clock + 1, !.pc = "ask"]
    <3>1. thread' = [thread EXCEPT ![b] = t] /\ UNCHANGED <<up, gone, history>> /\ (Fault \/ Works)
      BY <2>1, <2>5 DEF ReadClock, At, Go, Set, Works, agent, services
    <3>2. \/ t.pc \in {"down", "idle", "ask"}
          \/ /\ me.pc \in InService /\ t.pc \in InService
             /\ t.reply = me.reply /\ t.todo = me.todo /\ t.service = me.service /\ t.ts = me.ts
      BY <2>1, <2>5 DEF ReadClock, At, Go, Set, Thread, InService
    <3> HIDE DEF t
    <3> QED
      BY <2>1, <3>1, <3>2, CoveredSame
  <2>6. CASE Request(b)
    <3>1. PICK r, since : /\ Answer(b, r, since) /\ r.up = up \cap Reports[b] /\ Works
      BY <2>6 DEF Request
    <3> DEFINE t == [me EXCEPT !.reply = r, !.since = since, !.todo = r.up, !.pc = "next"]
    <3>2. thread' = [thread EXCEPT ![b] = t] /\ UNCHANGED <<up, gone, history>>
      BY <2>1, <3>1 DEF Answer, Set, agent, services
    <3>3. r.up = up
      BY <3>1 DEF Typed, Tables
    <3>4. t.reply = r /\ t.todo = r.up
      BY <2>1 DEF Thread
    <3>6. PICK u : u = t
      OBVIOUS
    <3> HIDE DEF t
    <3>5. faults' = 0 => Covered(u)'
      <4>1. u.reply.up = up /\ u.todo = up
        BY <3>3, <3>4, <3>6
      <4>2. faults' = 0 => Services \ up \subseteq gone
        BY <3>1 DEF Works, AllCovered
      <4> QED
        BY <3>2, <4>1, <4>2 DEF Covered
    <3> QED
      BY <3>1, <3>2, <3>5, <3>6, CoveredStep DEF Works
  <2>7. CASE RequestErrorBody(b)
    <3>1. faults \in Nat /\ faults' = faults + 1
      BY <2>7 DEF RequestErrorBody, Fault, Typed, Tables
    <3> QED
      BY <3>1 DEF AllCovered
  <2>8. CASE RequestFails(b)
    <3> DEFINE t == [me EXCEPT !.pc = "idle"]
    <3>1. thread' = [thread EXCEPT ![b] = t] /\ UNCHANGED <<up, gone, history>> /\ (Fault \/ Works)
      BY <2>1, <2>8 DEF RequestFails, At, Go, Set, Works, agent, services
    <3>2. \/ t.pc \in {"down", "idle", "ask"}
          \/ /\ me.pc \in InService /\ t.pc \in InService
             /\ t.reply = me.reply /\ t.todo = me.todo /\ t.service = me.service /\ t.ts = me.ts
      BY <2>1, <2>8 DEF RequestFails, At, Go, Set, Thread, InService
    <3> HIDE DEF t
    <3> QED
      BY <2>1, <3>1, <3>2, CoveredSame
  <2>9. CASE CollectDone(b)
    <3> DEFINE t == [me EXCEPT !.pc = "idle"]
    <3>1. thread' = [thread EXCEPT ![b] = t] /\ UNCHANGED <<up, gone, history>> /\ (Fault \/ Works)
      BY <2>1, <2>9 DEF CollectDone, At, Go, Set, Works, agent, services
    <3>2. \/ t.pc \in {"down", "idle", "ask"}
          \/ /\ me.pc \in InService /\ t.pc \in InService
             /\ t.reply = me.reply /\ t.todo = me.todo /\ t.service = me.service /\ t.ts = me.ts
      BY <2>1, <2>9 DEF CollectDone, At, Go, Set, Thread, InService
    <3> HIDE DEF t
    <3> QED
      BY <2>1, <3>1, <3>2, CoveredSame
  <2>10. CASE NextService(b)
    <3>1. PICK s, sent : s \in me.todo /\ thread' = [thread EXCEPT ![b] = [me EXCEPT !.pc = "log", !.todo = @ \ {s},
              !.hosts = @ \cup {HostOf[s]}, !.service = s, !.logs = sent, !.parts = OfService(s)]]
      BY <2>1, <2>10 DEF NextService, Set
    <3>2. me.pc = "next" /\ UNCHANGED <<up, gone, history, faults>>
      BY <2>1, <2>10 DEF NextService, At, Set, agent
    <3> DEFINE t == [me EXCEPT !.pc = "log", !.todo = @ \ {s},
              !.hosts = @ \cup {HostOf[s]}, !.service = s, !.logs = sent, !.parts = OfService(s)]
    <3>3. t.pc = "log" /\ t.todo = me.todo \ {s} /\ t.service = s /\ t.reply = me.reply /\ t.ts = me.ts
      BY <2>1 DEF Thread
    <3>4. thread' = [thread EXCEPT ![b] = t]
      BY <3>1
    <3>6. PICK u : u = t
      OBVIOUS
    <3> HIDE DEF t
    <3>5. faults' = 0 => Covered(u)'
      <4>1. faults' = 0 => Covered(me)
        BY <2>1, <3>2 DEF AllCovered
      <4>2. /\ u.pc = "log" /\ u.todo = me.todo \ {s} /\ u.service = s /\ u.reply = me.reply
            /\ u.ts = me.ts
        BY <3>3, <3>6
      <4> QED
        BY <3>2, <4>1, <4>2 DEF Covered, InService
    <3> QED
      BY <3>2, <3>4, <3>5, <3>6, CoveredStep
  <2>11. CASE LookLog(b)
    <3>1. PICK i \in Least(me.logs) :
            \/ thread' = [thread EXCEPT ![b] = [me EXCEPT !.logs = @ \ {i}]]
            \/ thread' = [thread EXCEPT ![b] = [me EXCEPT !.pc = "store"]]
      BY <2>1, <2>11 DEF LookLog, Go, Set
    <3>2. me.pc = "log" /\ UNCHANGED <<up, gone, history>> /\ (Fault \/ Works)
      BY <2>1, <2>11 DEF LookLog, At, Go, Set, agent, services
    <3> DEFINE t1 == [me EXCEPT !.logs = @ \ {i}]
               t2 == [me EXCEPT !.pc = "store"]
    <3>3. /\ t1.pc = "log" /\ t1.reply = me.reply /\ t1.todo = me.todo /\ t1.service = me.service /\ t1.ts = me.ts
          /\ t2.pc = "store" /\ t2.reply = me.reply /\ t2.todo = me.todo /\ t2.service = me.service /\ t2.ts = me.ts
      BY <2>1, <3>2 DEF Thread
    <3>4. thread' = [thread EXCEPT ![b] = t1] \/ thread' = [thread EXCEPT ![b] = t2]
      BY <3>1
    <3> HIDE DEF t1, t2
    <3> QED
      BY <2>1, <3>2, <3>3, <3>4, CoveredSame DEF InService
  <2>12. CASE StoreLog(b)
    <3>9. PICK i \in Least(me.logs), id \in Nat : StoreStep(b, me, i, id)
      BY <2>1, <2>12, StoreLogSteps
    <3>8. me.pc = "store"
      BY <2>1, <2>12, StoreLogSteps
    <3> DEFINE t == [me EXCEPT !.pc = "log", !.logs = @ \ {i}, !.batch = @ \cup {i}, !.maxlvl = Larger(@, id)]
    <3>1. thread' = [thread EXCEPT ![b] = t] /\ UNCHANGED <<up, gone, history>> /\ (Fault \/ Works)
      BY <2>1, <2>12, <3>8, <3>9 DEF StoreStep, Works, agent, services
    <3>2. \/ t.pc \in {"down", "idle", "ask"}
          \/ /\ me.pc \in InService /\ t.pc \in InService
             /\ t.reply = me.reply /\ t.todo = me.todo /\ t.service = me.service /\ t.ts = me.ts
      BY <2>1, <2>12, <3>8, <3>9 DEF StoreStep, Thread, InService
    <3> HIDE DEF t
    <3> QED
      BY <2>1, <3>1, <3>2, CoveredSame
  <2>13. CASE LogsDone(b)
    <3> DEFINE t == [me EXCEPT !.batch = {}, !.maxlvl = 0, !.pc = "parts"]
    <3>1. thread' = [thread EXCEPT ![b] = t] /\ UNCHANGED <<up, gone, history>> /\ (Fault \/ Works)
      BY <2>1, <2>13 DEF LogsDone, At, Go, Set, Works, agent, services
    <3>2. \/ t.pc \in {"down", "idle", "ask"}
          \/ /\ me.pc \in InService /\ t.pc \in InService
             /\ t.reply = me.reply /\ t.todo = me.todo /\ t.service = me.service /\ t.ts = me.ts
      BY <2>1, <2>13 DEF LogsDone, At, Go, Set, Thread, InService
    <3> HIDE DEF t
    <3> QED
      BY <2>1, <3>1, <3>2, CoveredSame
  <2>14. CASE PartOk(b)
    <3>9. PICK p : thread' = [thread EXCEPT ![b] = [me EXCEPT !.parts = @ \ {p}, !.ok = @ + 1]]
      BY <2>1, <2>14 DEF PartOk, Set
    <3> DEFINE t == [me EXCEPT !.parts = @ \ {p}, !.ok = @ + 1]
    <3>1. thread' = [thread EXCEPT ![b] = t] /\ UNCHANGED <<up, gone, history>> /\ (Fault \/ Works)
      BY <2>1, <2>14, <3>9 DEF PartOk, At, Go, Set, Works, agent, services
    <3>2. \/ t.pc \in {"down", "idle", "ask"}
          \/ /\ me.pc \in InService /\ t.pc \in InService
             /\ t.reply = me.reply /\ t.todo = me.todo /\ t.service = me.service /\ t.ts = me.ts
      BY <2>1, <2>14, <3>9 DEF PartOk, At, Go, Set, Thread, InService
    <3> HIDE DEF t
    <3> QED
      BY <2>1, <3>1, <3>2, CoveredSame
  <2>15. CASE LookPart(b)
    <3>9. PICK p, new : thread' = [thread EXCEPT ![b] =
              [me EXCEPT !.parts = @ \ {p}, !.part = p, !.pc = "storepart", !.failed = @ + 1, !.nfailed = @ + new]]
      BY <2>1, <2>15 DEF LookPart, Set
    <3> DEFINE t == [me EXCEPT !.parts = @ \ {p}, !.part = p, !.pc = "storepart", !.failed = @ + 1, !.nfailed = @ + new]
    <3>1. thread' = [thread EXCEPT ![b] = t] /\ UNCHANGED <<up, gone, history>> /\ (Fault \/ Works)
      BY <2>1, <2>15, <3>9 DEF LookPart, At, Go, Set, Works, agent, services
    <3>2. \/ t.pc \in {"down", "idle", "ask"}
          \/ /\ me.pc \in InService /\ t.pc \in InService
             /\ t.reply = me.reply /\ t.todo = me.todo /\ t.service = me.service /\ t.ts = me.ts
      BY <2>1, <2>15, <3>9 DEF LookPart, At, Go, Set, Thread, InService
    <3> HIDE DEF t
    <3> QED
      BY <2>1, <3>1, <3>2, CoveredSame
  <2>16. CASE StorePart(b)
    <3> DEFINE t == [me EXCEPT !.part = None, !.pc = "parts"]
    <3>1. thread' = [thread EXCEPT ![b] = t] /\ UNCHANGED <<up, gone, history>> /\ (Fault \/ Works)
      BY <2>1, <2>16 DEF StorePart, At, Go, Set, Works, agent, services
    <3>2. \/ t.pc \in {"down", "idle", "ask"}
          \/ /\ me.pc \in InService /\ t.pc \in InService
             /\ t.reply = me.reply /\ t.todo = me.todo /\ t.service = me.service /\ t.ts = me.ts
      BY <2>1, <2>16 DEF StorePart, At, Go, Set, Thread, InService
    <3> HIDE DEF t
    <3> QED
      BY <2>1, <3>1, <3>2, CoveredSame
  <2>17. CASE PartsDone(b)
    <3> DEFINE t == [me EXCEPT !.pc = "history"]
    <3>1. thread' = [thread EXCEPT ![b] = t] /\ UNCHANGED <<up, gone, history>> /\ (Fault \/ Works)
      BY <2>1, <2>17 DEF PartsDone, At, Go, Set, Works, agent, services
    <3>2. \/ t.pc \in {"down", "idle", "ask"}
          \/ /\ me.pc \in InService /\ t.pc \in InService
             /\ t.reply = me.reply /\ t.todo = me.todo /\ t.service = me.service /\ t.ts = me.ts
      BY <2>1, <2>17 DEF PartsDone, At, Go, Set, Thread, InService
    <3> HIDE DEF t
    <3> QED
      BY <2>1, <3>1, <3>2, CoveredSame
  <2>18. CASE History(b)
    <3>1. /\ thread' = [thread EXCEPT ![b] = [me EXCEPT !.service = None, !.pc = "next", !.failed = 0, !.nfailed = 0, !.ok = 0]]
          /\ me.pc = "history" /\ UNCHANGED <<up, gone>>
          /\ \/ history' = Put(history, <<me.service, me.ts>>, [failed |-> me.failed, missing |-> 0, ok |-> me.ok])
                /\ Works
             \/ Fault
      BY <2>1, <2>18 DEF History, ResetCounters, Set, At, agent
    <3>2. /\ faults' = 0 => /\ faults = 0
                            /\ history' = Put(history, <<me.service, me.ts>>, [failed |-> me.failed, missing |-> 0, ok |-> me.ok])
      BY <3>1 DEF Fault, Works, Typed, Tables
    <3> DEFINE t == [me EXCEPT !.service = None, !.pc = "next", !.failed = 0, !.nfailed = 0, !.ok = 0]
    <3>3. t.pc = "next" /\ t.todo = me.todo /\ t.reply = me.reply /\ t.ts = me.ts
      BY <2>1 DEF Thread
    <3>4. thread' = [thread EXCEPT ![b] = t]
      BY <3>1
    <3> HIDE DEF t
    <3>5. faults' = 0 => /\ DOMAIN history' = DOMAIN history \cup {<<me.service, me.ts>>}
                         /\ \A k \in DOMAIN history' : history'[k].missing > 0 =>
                               k \in DOMAIN history /\ history'[k] = history[k]
      BY <3>2 DEF Put
    <3>6. faults' = 0 => Covered(t)'
      <4>1. faults' = 0 => Covered(me)
        BY <2>1, <3>2 DEF AllCovered
      <4> QED
        BY <3>1, <3>3, <3>5, <4>1 DEF Covered, InService
    <3> QED
      BY <3>1, <3>2, <3>4, <3>5, <3>6, CoveredStep
  <2>19. CASE Missing(b)
    <3>1. PICK h : MissingStep(b, me, h)
      BY <2>1, <2>19, MissingSteps
    <3>2. me.pc = "next" /\ me.todo = {} /\ UNCHANGED <<up, gone>>
      BY <2>1, <2>19, <3>1 DEF Missing, At, MissingStep, Set, agent
    <3>3. faults' = 0 =>
             /\ faults = 0
             /\ history' = [k \in DOMAIN history \cup Gone(h, me.ts) |->
                              IF k \in Gone(h, me.ts) THEN PartsMissing(k[1]) ELSE history[k]]
      BY <3>1 DEF MissingStep, Fault, Works, Typed, Tables
    <3> DEFINE t == [me EXCEPT !.hosts = @ \ {h}]
    <3>4. t.pc = me.pc /\ t.todo = me.todo /\ t.reply = me.reply /\ t.ts = me.ts /\ t.service = me.service
      BY <2>1 DEF Thread
    <3>5. thread' = [thread EXCEPT ![b] = t]
      BY <3>1 DEF MissingStep, Set
    <3> HIDE DEF t
    <3>6. ASSUME faults' = 0, NEW s \in WithoutRow(h, me.ts) PROVE s \in gone
      <4>1. Covered(me)
        BY <2>1, <3>3, <3>6 DEF AllCovered
      <4>2. s \in Services /\ <<s, me.ts>> \notin DOMAIN history
        <5>1. s \in known /\ ~ \E k \in DOMAIN history : k[1] = s /\ k[2] >= me.ts
          BY <3>6 DEF WithoutRow
        <5>2. me.ts \in Nat /\ <<s, me.ts>>[1] = s /\ <<s, me.ts>>[2] = me.ts
          BY <2>1 DEF Thread
        <5> QED
          BY <5>1, <5>2 DEF Typed, Tables
      <4> QED
        BY <3>2, <4>1, <4>2 DEF Covered, InService
    <3>7. faults' = 0 => /\ DOMAIN history \subseteq DOMAIN history'
                         /\ \A k \in DOMAIN history' :
                               k[1] \in gone \/ (k \in DOMAIN history /\ history'[k] = history[k])
      <4>1. faults' = 0 => \A k \in Gone(h, me.ts) : k[1] \in gone
        BY <3>6 DEF Gone
      <4> QED
        BY <3>3, <4>1
    <3>8. faults' = 0 => Covered(t)'
      <4>1. faults' = 0 => Covered(me)
        BY <2>1, <3>3 DEF AllCovered
      <4> QED
        BY <3>2, <3>4, <3>7, <4>1 DEF Covered
    <3> QED
      BY <3>2, <3>3, <3>5, <3>7, <3>8, CoveredStep
  <2> QED
    BY <1>3, <2>3, <2>4, <2>5, <2>6, <2>7, <2>8, <2>9, <2>10, <2>11, <2>12, <2>13, <2>14, <2>15, <2>16, <2>17, <2>18, <2>19 DEF Collect
<1> QED
  BY <1>1, <1>2, <1>3 DEF Next

\* A service its agent always reported is never recorded as missing, if no statement
\* fails and all backends collect the services of the same agent: the select for the
\* missing ones (agentClient.cpp:340) comes after the rows of the round.
THEOREM NothingMissing ==
    ASSUME \A b \in Backends : Reports[b] = Services
    PROVE  Spec => []ReportedNotMissing
<1>1. Init => AllCovered
  BY DEF Init, AllCovered, Covered, Fresh
<1>2. Inv /\ AllCovered /\ [Next]_vars => AllCovered'
  BY NextCovered DEF Inv
<1>3. AllCovered => ReportedNotMissing
  BY DEF AllCovered, ReportedNotMissing
<1> QED
  BY <1>1, <1>2, <1>3, Invariance, PTL DEF Spec

-----------------------------------------------------------------------------
(***************************************************************************)
(* The other steps do not touch the batch of new lines, nor the log table. *)
(***************************************************************************)
Aside(b) ==
    \/ Start(b) \/ ReadClock(b) \/ Request(b) \/ RequestErrorBody(b) \/ RequestFails(b)
    \/ CollectDone(b) \/ NextService(b) \/ PartOk(b) \/ LookPart(b) \/ StorePart(b)
    \/ PartsDone(b) \/ History(b) \/ Missing(b)

LEMMA AsideSteps ==
    ASSUME Typed, NEW b \in Backends, Aside(b)
    PROVE  /\ UNCHANGED <<entries, logTable, alerted, crashes>>
           /\ faults \in Nat /\ faults' \in Nat /\ faults' >= faults
           /\ \E t : /\ thread' = [thread EXCEPT ![b] = t]
                     /\ t.batch = thread[b].batch /\ t.maxlvl = thread[b].maxlvl /\ t.pc # "store"
<1>1. PICK me \in Thread : me = thread[b]
  BY Mine
<1>2. SUFFICES /\ UNCHANGED <<entries, logTable, alerted, crashes>> /\ (Fault \/ Works)
               /\ \E t : /\ thread' = [thread EXCEPT ![b] = t]
                         /\ t.batch = me.batch /\ t.maxlvl = me.maxlvl /\ t.pc # "store"
  <2>1. faults \in Nat /\ (Fault \/ Works => faults' \in Nat /\ faults' >= faults)
    BY DEF Typed, Tables, Fault, Works
  <2> QED
    BY <1>1, <2>1
<1>3. CASE Start(b)
  <2> DEFINE t == [me EXCEPT !.pc = "idle"]
  <2>1. thread' = [thread EXCEPT ![b] = t] /\ UNCHANGED <<entries, logTable, alerted, crashes>>
        /\ (Fault \/ Works)
    BY <1>1, <1>3 DEF Start, At, Go, Set, Works, agent, logs
  <2>2. t.batch = me.batch /\ t.maxlvl = me.maxlvl /\ t.pc # "store"
    BY <1>1, <1>3 DEF Start, At, Go, Set, Thread
  <2> HIDE DEF t
  <2> QED
    BY <1>2, <2>1, <2>2
<1>4. CASE ReadClock(b)
  <2> DEFINE t == [me EXCEPT !.ts = clock + 1, !.pc = "ask"]
  <2>1. thread' = [thread EXCEPT ![b] = t] /\ UNCHANGED <<entries, logTable, alerted, crashes>>
        /\ (Fault \/ Works)
    BY <1>1, <1>4 DEF ReadClock, At, Go, Set, Works, agent, logs
  <2>2. t.batch = me.batch /\ t.maxlvl = me.maxlvl /\ t.pc # "store"
    BY <1>1, <1>4 DEF ReadClock, At, Go, Set, Thread
  <2> HIDE DEF t
  <2> QED
    BY <1>2, <2>1, <2>2
<1>5. CASE Request(b) \/ RequestErrorBody(b)
  <2>9. PICK r, since : Answer(b, r, since) /\ (Fault \/ Works)
    BY <1>5 DEF Request, RequestErrorBody
  <2> DEFINE t == [me EXCEPT !.reply = r, !.since = since, !.todo = r.up, !.pc = "next"]
  <2>1. thread' = [thread EXCEPT ![b] = t] /\ UNCHANGED <<entries, logTable, alerted, crashes>>
        /\ (Fault \/ Works)
    BY <1>1, <1>5, <2>9 DEF Answer, At, Go, Set, Works, agent, logs
  <2>2. t.batch = me.batch /\ t.maxlvl = me.maxlvl /\ t.pc # "store"
    BY <1>1, <1>5, <2>9 DEF Answer, At, Go, Set, Thread
  <2> HIDE DEF t
  <2> QED
    BY <1>2, <2>1, <2>2
<1>6. CASE RequestFails(b)
  <2> DEFINE t == [me EXCEPT !.pc = "idle"]
  <2>1. thread' = [thread EXCEPT ![b] = t] /\ UNCHANGED <<entries, logTable, alerted, crashes>>
        /\ (Fault \/ Works)
    BY <1>1, <1>6 DEF RequestFails, At, Go, Set, Works, agent, logs
  <2>2. t.batch = me.batch /\ t.maxlvl = me.maxlvl /\ t.pc # "store"
    BY <1>1, <1>6 DEF RequestFails, At, Go, Set, Thread
  <2> HIDE DEF t
  <2> QED
    BY <1>2, <2>1, <2>2
<1>7. CASE CollectDone(b)
  <2> DEFINE t == [me EXCEPT !.pc = "idle"]
  <2>1. thread' = [thread EXCEPT ![b] = t] /\ UNCHANGED <<entries, logTable, alerted, crashes>>
        /\ (Fault \/ Works)
    BY <1>1, <1>7 DEF CollectDone, At, Go, Set, Works, agent, logs
  <2>2. t.batch = me.batch /\ t.maxlvl = me.maxlvl /\ t.pc # "store"
    BY <1>1, <1>7 DEF CollectDone, At, Go, Set, Thread
  <2> HIDE DEF t
  <2> QED
    BY <1>2, <2>1, <2>2
<1>8. CASE NextService(b)
  <2>9. PICK s, sent : thread' = [thread EXCEPT ![b] = [me EXCEPT !.pc = "log", !.todo = @ \ {s},
            !.hosts = @ \cup {HostOf[s]}, !.service = s, !.logs = sent, !.parts = OfService(s)]]
    BY <1>1, <1>8 DEF NextService, Set
  <2> DEFINE t == [me EXCEPT !.pc = "log", !.todo = @ \ {s}, !.hosts = @ \cup {HostOf[s]}, !.service = s, !.logs = sent, !.parts = OfService(s)]
  <2>1. thread' = [thread EXCEPT ![b] = t] /\ UNCHANGED <<entries, logTable, alerted, crashes>>
        /\ (Fault \/ Works)
    BY <1>1, <1>8, <2>9 DEF NextService, At, Go, Set, Works, agent, logs
  <2>2. t.batch = me.batch /\ t.maxlvl = me.maxlvl /\ t.pc # "store"
    BY <1>1, <1>8, <2>9 DEF NextService, At, Go, Set, Thread
  <2> HIDE DEF t
  <2> QED
    BY <1>2, <2>1, <2>2
<1>9. CASE PartOk(b)
  <2>9. PICK p : thread' = [thread EXCEPT ![b] = [me EXCEPT !.parts = @ \ {p}, !.ok = @ + 1]]
    BY <1>1, <1>9 DEF PartOk, Set
  <2> DEFINE t == [me EXCEPT !.parts = @ \ {p}, !.ok = @ + 1]
  <2>1. thread' = [thread EXCEPT ![b] = t] /\ UNCHANGED <<entries, logTable, alerted, crashes>>
        /\ (Fault \/ Works)
    BY <1>1, <1>9, <2>9 DEF PartOk, At, Go, Set, Works, agent, logs
  <2>2. t.batch = me.batch /\ t.maxlvl = me.maxlvl /\ t.pc # "store"
    BY <1>1, <1>9, <2>9 DEF PartOk, At, Go, Set, Thread
  <2> HIDE DEF t
  <2> QED
    BY <1>2, <2>1, <2>2
<1>10. CASE LookPart(b)
  <2>9. PICK p, new : thread' = [thread EXCEPT ![b] =
            [me EXCEPT !.parts = @ \ {p}, !.part = p, !.pc = "storepart", !.failed = @ + 1, !.nfailed = @ + new]]
    BY <1>1, <1>10 DEF LookPart, Set
  <2> DEFINE t == [me EXCEPT !.parts = @ \ {p}, !.part = p, !.pc = "storepart", !.failed = @ + 1, !.nfailed = @ + new]
  <2>1. thread' = [thread EXCEPT ![b] = t] /\ UNCHANGED <<entries, logTable, alerted, crashes>>
        /\ (Fault \/ Works)
    BY <1>1, <1>10, <2>9 DEF LookPart, At, Go, Set, Works, agent, logs
  <2>2. t.batch = me.batch /\ t.maxlvl = me.maxlvl /\ t.pc # "store"
    BY <1>1, <1>10, <2>9 DEF LookPart, At, Go, Set, Thread
  <2> HIDE DEF t
  <2> QED
    BY <1>2, <2>1, <2>2
<1>11. CASE StorePart(b)
  <2> DEFINE t == [me EXCEPT !.part = None, !.pc = "parts"]
  <2>1. thread' = [thread EXCEPT ![b] = t] /\ UNCHANGED <<entries, logTable, alerted, crashes>>
        /\ (Fault \/ Works)
    BY <1>1, <1>11 DEF StorePart, At, Go, Set, Works, agent, logs
  <2>2. t.batch = me.batch /\ t.maxlvl = me.maxlvl /\ t.pc # "store"
    BY <1>1, <1>11 DEF StorePart, At, Go, Set, Thread
  <2> HIDE DEF t
  <2> QED
    BY <1>2, <2>1, <2>2
<1>12. CASE PartsDone(b)
  <2> DEFINE t == [me EXCEPT !.pc = "history"]
  <2>1. thread' = [thread EXCEPT ![b] = t] /\ UNCHANGED <<entries, logTable, alerted, crashes>>
        /\ (Fault \/ Works)
    BY <1>1, <1>12 DEF PartsDone, At, Go, Set, Works, agent, logs
  <2>2. t.batch = me.batch /\ t.maxlvl = me.maxlvl /\ t.pc # "store"
    BY <1>1, <1>12 DEF PartsDone, At, Go, Set, Thread
  <2> HIDE DEF t
  <2> QED
    BY <1>2, <2>1, <2>2
<1>13. CASE History(b)
  <2> DEFINE t == [me EXCEPT !.service = None, !.pc = "next", !.failed = 0, !.nfailed = 0, !.ok = 0]
  <2>1. thread' = [thread EXCEPT ![b] = t] /\ UNCHANGED <<entries, logTable, alerted, crashes>>
        /\ (Fault \/ Works)
    BY <1>1, <1>13 DEF History, ResetCounters, At, Go, Set, Works, agent, logs
  <2>2. t.batch = me.batch /\ t.maxlvl = me.maxlvl /\ t.pc # "store"
    BY <1>1, <1>13 DEF History, ResetCounters, At, Go, Set, Thread
  <2> HIDE DEF t
  <2> QED
    BY <1>2, <2>1, <2>2
<1>14. CASE Missing(b)
  <2>9. PICK h : MissingStep(b, me, h)
    BY <1>1, <1>14, MissingSteps
  <2> DEFINE t == [me EXCEPT !.hosts = @ \ {h}]
  <2>1. thread' = [thread EXCEPT ![b] = t] /\ UNCHANGED <<entries, logTable, alerted, crashes>>
        /\ (Fault \/ Works)
    BY <1>1, <1>14, <2>9 DEF Missing, MissingStep, At, Go, Set, Works, agent, logs
  <2>2. t.batch = me.batch /\ t.maxlvl = me.maxlvl /\ t.pc # "store"
    BY <1>1, <1>14, <2>9 DEF Missing, MissingStep, At, Go, Set, Thread
  <2> HIDE DEF t
  <2> QED
    BY <1>2, <2>1, <2>2
<1> QED
  BY <1>3, <1>4, <1>5, <1>6, <1>7, <1>8, <1>9, <1>10, <1>11, <1>12, <1>13, <1>14 DEF Aside

-----------------------------------------------------------------------------
(***************************************************************************)
(* How often a line is alerted.  Who finds it in the table does not alert  *)
(* it; who is to store it, or has it in the batch, will.  Before the line  *)
(* is stored only failures put it into a batch; from then on each backend  *)
(* may be on its way to an alert, and comes there again only by a failure. *)
(***************************************************************************)
Has(t, i)  == i \in t.batch
Will(t, i) == Has(t, i) \/ (t.pc = "store" /\ i \in Least(t.logs))

Waiting(i) == {b \in Backends : Has(thread[b], i)}
Busy(i)    == {b \in Backends : Will(thread[b], i)}

Alerted(i) ==
    IF i \in DOMAIN logTable
    THEN alerted[i] + Cardinality(Busy(i)) <= Cardinality(Backends) + faults
    ELSE alerted[i] + Cardinality(Waiting(i)) <= faults

AllAlerted == \A i \in 1..MaxEntries : Alerted(i)

One(p) == IF p THEN 1 ELSE 0

LEMMA BackendSets ==
    ASSUME NEW S \in SUBSET Backends
    PROVE  /\ IsFiniteSet(S) /\ Cardinality(S) \in Nat
           /\ Cardinality(S) <= Cardinality(Backends) /\ Cardinality(Backends) \in Nat
  BY Constants, FS_Subset, FS_CardinalityType

\* Sets that differ in one element at most
LEMMA Moves ==
    ASSUME NEW S \in SUBSET Backends, NEW T \in SUBSET Backends, NEW b \in Backends,
           S \ {b} = T \ {b}
    PROVE  Cardinality(T) + One(b \in S) = Cardinality(S) + One(b \in T)
<1>1. ASSUME NEW U \in SUBSET Backends
      PROVE  Cardinality(U) = Cardinality(U \ {b}) + One(b \in U)
  <2>1. CASE b \in U
    <3>1. Cardinality(U \ {b}) = Cardinality(U) - 1
      BY <2>1, BackendSets, FS_RemoveElement
    <3> QED
      BY <2>1, <3>1, BackendSets DEF One
  <2>2. CASE b \notin U
    <3>1. U \ {b} = U
      BY <2>2
    <3> QED
      BY <2>2, <3>1, BackendSets DEF One
  <2> QED
    BY <2>1, <2>2
<1>2. Cardinality(S \ {b}) \in Nat /\ One(b \in S) \in Nat /\ One(b \in T) \in Nat
  BY BackendSets DEF One
<1> QED
  BY <1>1, <1>2

LEMMA SetsMove ==
    ASSUME Typed, NEW b \in Backends, NEW t, thread' = [thread EXCEPT ![b] = t], NEW i
    PROVE  /\ Cardinality(Waiting(i)') + One(Has(thread[b], i)) = Cardinality(Waiting(i)) + One(Has(t, i))
           /\ Cardinality(Busy(i)') + One(Will(thread[b], i)) = Cardinality(Busy(i)) + One(Will(t, i))
<1>1. thread'[b] = t /\ \A o \in Backends \ {b} : thread'[o] = thread[o]
  BY Others DEF Typed
<1>2. /\ Waiting(i) \in SUBSET Backends /\ Waiting(i)' \in SUBSET Backends
      /\ Busy(i) \in SUBSET Backends /\ Busy(i)' \in SUBSET Backends
  BY DEF Waiting, Busy
<1>3. Waiting(i) \ {b} = Waiting(i)' \ {b} /\ Busy(i) \ {b} = Busy(i)' \ {b}
  BY <1>1 DEF Waiting, Busy, Has, Will
<1>4. /\ One(b \in Waiting(i)) = One(Has(thread[b], i)) /\ One(b \in Waiting(i)') = One(Has(t, i))
      /\ One(b \in Busy(i)) = One(Will(thread[b], i)) /\ One(b \in Busy(i)') = One(Will(t, i))
  BY <1>1 DEF Waiting, Busy, Has, Will, One
<1> QED
  BY <1>2, <1>3, <1>4, Moves

\* What a step of b may do to line i
LEMMA AlertStep ==
    ASSUME Typed, NEW b \in Backends, NEW t, thread' = [thread EXCEPT ![b] = t],
           NEW i \in 1..MaxEntries, Alerted(i),
           alerted[i] \in Nat, alerted'[i] \in Nat, faults \in Nat, faults' \in Nat,
           \/ /\ i \notin DOMAIN logTable /\ i \notin DOMAIN logTable'
              /\ alerted'[i] + One(Has(t, i)) + faults <= alerted[i] + One(Has(thread[b], i)) + faults'
           \/ /\ i \in DOMAIN logTable /\ i \in DOMAIN logTable'
              /\ alerted'[i] + One(Will(t, i)) + faults <= alerted[i] + One(Will(thread[b], i)) + faults'
           \/ /\ i \notin DOMAIN logTable /\ i \in DOMAIN logTable'
              /\ alerted'[i] = alerted[i] /\ faults <= faults'
    PROVE  Alerted(i)'
<1> DEFINE W  == Cardinality(Waiting(i))
           W2 == Cardinality(Waiting(i)')
           B  == Cardinality(Busy(i))
           B2 == Cardinality(Busy(i)')
           N  == Cardinality(Backends)
<1>1. W \in Nat /\ W2 \in Nat /\ B \in Nat /\ B2 \in Nat /\ B2 <= N /\ N \in Nat
  BY BackendSets DEF Waiting, Busy
<1>2. /\ W2 + One(Has(thread[b], i)) = W + One(Has(t, i))
      /\ B2 + One(Will(thread[b], i)) = B + One(Will(t, i))
  BY SetsMove
<1>3. /\ One(Has(thread[b], i)) \in Nat /\ One(Has(t, i)) \in Nat
      /\ One(Will(thread[b], i)) \in Nat /\ One(Will(t, i)) \in Nat
  BY DEF One
<1>4. IF i \in DOMAIN logTable THEN alerted[i] + B <= N + faults ELSE alerted[i] + W <= faults
  BY DEF Alerted
<1>5. IF i \in DOMAIN logTable' THEN alerted'[i] + B2 <= N + faults' ELSE alerted'[i] + W2 <= faults'
  <2> HIDE DEF W, W2, B, B2, N
  <2> QED
    BY <1>1, <1>2, <1>3, <1>4
<1> QED
  BY <1>5 DEF Alerted

\* A step that neither collects, stores nor alerts lines
LEMMA AlertQuiet ==
    ASSUME Typed, AllAlerted, NEW b \in Backends, NEW t, thread' = [thread EXCEPT ![b] = t],
           UNCHANGED <<logTable, alerted>>, faults \in Nat, faults' \in Nat, faults' >= faults,
           t.batch \subseteq thread[b].batch, t.pc # "store"
    PROVE  AllAlerted'
<1> SUFFICES ASSUME NEW i \in 1..MaxEntries PROVE Alerted(i)'
  BY DEF AllAlerted
<1>1. One(Has(t, i)) <= One(Has(thread[b], i)) /\ One(Will(t, i)) <= One(Will(thread[b], i))
  BY DEF Has, Will, One
<1>2. /\ One(Has(thread[b], i)) \in Nat /\ One(Has(t, i)) \in Nat
      /\ One(Will(thread[b], i)) \in Nat /\ One(Will(t, i)) \in Nat
  BY DEF One
<1>3. alerted[i] \in Nat /\ Alerted(i) /\ alerted'[i] = alerted[i]
  BY DEF Typed, Tables, AllAlerted
<1>4. /\ alerted'[i] + One(Has(t, i)) + faults <= alerted[i] + One(Has(thread[b], i)) + faults'
      /\ alerted'[i] + One(Will(t, i)) + faults <= alerted[i] + One(Will(thread[b], i)) + faults'
  BY <1>1, <1>2, <1>3
<1> QED
  BY <1>3, <1>4, AlertStep

LEMMA LeastOne == ASSUME NEW S \in SUBSET Nat, NEW i \in Least(S), NEW j \in Least(S) PROVE i = j
  BY DEF Least

\* Lines in the table are skipped, or put up for storing after a failure
LEMMA LookLogAlerted ==
    ASSUME Typed, AllAlerted, NEW b \in Backends, LookLog(b)
    PROVE  AllAlerted'
<1>1. PICK me \in Thread : me = thread[b]
  BY Mine
<1>2. faults \in Nat /\ faults' \in Nat /\ faults' >= faults
  BY DEF LookLog, Fault, Works, Typed, Tables
<1>3. PICK i \in Least(me.logs) :
        \/ HaveLogEvent(i) /\ thread' = [thread EXCEPT ![b] = [me EXCEPT !.logs = @ \ {i}]] /\ Works
        \/ ~ HaveLogEvent(i) /\ thread' = [thread EXCEPT ![b] = [me EXCEPT !.pc = "store"]] /\ Works
        \/ HaveLogEvent(i) /\ thread' = [thread EXCEPT ![b] = [me EXCEPT !.pc = "store"]] /\ Fault
  BY <1>1 DEF LookLog, Set, Go
<1>4. me.pc = "log" /\ UNCHANGED <<logTable, alerted>> /\ me.logs \in SUBSET Nat
  BY <1>1 DEF LookLog, At, logs, Thread
<1>5. CASE thread' = [thread EXCEPT ![b] = [me EXCEPT !.logs = @ \ {i}]]
  <2> DEFINE t == [me EXCEPT !.logs = @ \ {i}]
  <2>1. t.batch = me.batch /\ t.pc = "log"
    BY <1>4 DEF Thread
  <2> HIDE DEF t
  <2>2. thread' = [thread EXCEPT ![b] = t]
    BY <1>5 DEF t
  <2> QED
    BY <1>1, <1>2, <1>4, <2>1, <2>2, AlertQuiet
<1>6. CASE /\ thread' = [thread EXCEPT ![b] = [me EXCEPT !.pc = "store"]]
           /\ (~ HaveLogEvent(i) \/ Fault)
  <2> DEFINE t == [me EXCEPT !.pc = "store"]
  <2>1. t.batch = me.batch /\ t.pc = "store" /\ t.logs = me.logs
    BY <1>4 DEF Thread
  <2> HIDE DEF t
  <2>2. thread' = [thread EXCEPT ![b] = t]
    BY <1>6 DEF t
  <2> SUFFICES ASSUME NEW j \in 1..MaxEntries PROVE Alerted(j)'
    BY DEF AllAlerted
  <2>3. alerted[j] \in Nat /\ Alerted(j) /\ alerted'[j] = alerted[j]
    BY <1>4 DEF Typed, Tables, AllAlerted
  <2>4. One(Has(t, j)) = One(Has(me, j)) /\ One(Has(me, j)) \in Nat
    BY <2>1 DEF Has, One
  <2>5. One(Will(t, j)) \in Nat /\ One(Will(me, j)) \in Nat
        /\ One(Will(t, j)) <= One(Will(me, j)) + 1
    BY DEF One
  <2>6. j \in DOMAIN logTable => \/ One(Will(t, j)) <= One(Will(me, j)) \/ faults' = faults + 1
    <3>1. CASE Fault
      BY <3>1 DEF Fault
    <3>2. CASE i \notin DOMAIN logTable
      <4>1. ASSUME j \in DOMAIN logTable, j \in Least(t.logs) PROVE FALSE
        BY <1>3, <1>4, <2>1, <3>2, <4>1, LeastOne
      <4>2. j \in DOMAIN logTable => (Will(t, j) => Will(me, j))
        BY <2>1, <4>1 DEF Will, Has
      <4> QED
        BY <4>2 DEF One
    <3> QED
      BY <1>6, <3>1, <3>2 DEF HaveLogEvent
  <2>7. \/ j \notin DOMAIN logTable /\ j \notin DOMAIN logTable'
           /\ alerted'[j] + One(Has(t, j)) + faults <= alerted[j] + One(Has(me, j)) + faults'
        \/ j \in DOMAIN logTable /\ j \in DOMAIN logTable'
           /\ alerted'[j] + One(Will(t, j)) + faults <= alerted[j] + One(Will(me, j)) + faults'
    BY <1>2, <1>4, <2>3, <2>4, <2>5, <2>6
  <2> QED
    BY <1>1, <1>2, <2>2, <2>3, <2>7, AlertStep
<1> QED
  BY <1>3, <1>5, <1>6

LEMMA StoreLogAlerted ==
    ASSUME Typed, AllAlerted, NEW b \in Backends, StoreLog(b)
    PROVE  AllAlerted'
<1>1. PICK me \in Thread : me = thread[b]
  BY Mine
<1>2. PICK i \in Least(me.logs), id \in Nat : StoreStep(b, me, i, id)
  BY <1>1, StoreLogSteps
<1>3. me.pc = "store" /\ UNCHANGED alerted
  BY <1>1, <1>2, StoreLogSteps DEF StoreStep
<1>4. faults \in Nat /\ faults' \in Nat /\ faults' >= faults
      /\ (logTable' = logTable => faults' = faults + 1 \/ i \in DOMAIN logTable)
      /\ (DOMAIN logTable' = DOMAIN logTable \/ DOMAIN logTable' = DOMAIN logTable \cup {i})
  <2>1. faults \in Nat
    BY DEF Typed, Tables
  <2>2. CASE UNCHANGED logTable /\ Fault
    BY <2>1, <2>2 DEF Fault
  <2>3. CASE /\ logTable' = Put(logTable, i, IF HaveLogEvent(i) THEN logTable[i] ELSE id)
             /\ Fault \/ Works
    BY <2>1, <2>3 DEF Fault, Works, Put
  <2> QED
    BY <1>2, <2>2, <2>3 DEF StoreStep
<1> DEFINE t == [me EXCEPT !.pc = "log", !.logs = @ \ {i}, !.batch = @ \cup {i},
                           !.maxlvl = Larger(@, id)]
<1>5. t.pc = "log" /\ t.batch = me.batch \cup {i}
  BY DEF Thread
<1> HIDE DEF t
<1>6. thread' = [thread EXCEPT ![b] = t]
  BY <1>2 DEF t, StoreStep
<1>7. DOMAIN logTable' = DOMAIN logTable => faults' = faults + 1 \/ i \in DOMAIN logTable
  <2>1. CASE UNCHANGED logTable /\ Fault
    BY <2>1 DEF Fault
  <2>2. CASE logTable' = Put(logTable, i, IF HaveLogEvent(i) THEN logTable[i] ELSE id)
    BY <2>2 DEF Put
  <2> QED
    BY <1>2, <2>1, <2>2 DEF StoreStep
<1> SUFFICES ASSUME NEW j \in 1..MaxEntries PROVE Alerted(j)'
  BY DEF AllAlerted
<1>8. alerted[j] \in Nat /\ Alerted(j) /\ alerted'[j] = alerted[j]
  BY <1>3 DEF Typed, Tables, AllAlerted
<1>9. /\ One(Has(t, j)) \in Nat /\ One(Has(me, j)) \in Nat
      /\ One(Will(t, j)) \in Nat /\ One(Will(me, j)) \in Nat
      /\ One(Has(t, j)) <= One(Has(me, j)) + 1
  BY DEF One
<1>10. One(Will(t, j)) <= One(Will(me, j))
  <2>1. Will(t, j) => Will(me, j)
    BY <1>2, <1>3, <1>5 DEF Will, Has
  <2> QED
    BY <2>1 DEF One
<1>11. j # i => One(Has(t, j)) = One(Has(me, j))
  BY <1>5 DEF Has, One
<1>12. \/ /\ j \notin DOMAIN logTable /\ j \notin DOMAIN logTable'
          /\ alerted'[j] + One(Has(t, j)) + faults <= alerted[j] + One(Has(me, j)) + faults'
       \/ /\ j \in DOMAIN logTable /\ j \in DOMAIN logTable'
          /\ alerted'[j] + One(Will(t, j)) + faults <= alerted[j] + One(Will(me, j)) + faults'
       \/ /\ j \notin DOMAIN logTable /\ j \in DOMAIN logTable'
          /\ alerted'[j] = alerted[j] /\ faults <= faults'
  <2>1. CASE j \in DOMAIN logTable
    BY <1>4, <1>8, <1>9, <1>10, <2>1
  <2>2. CASE j \notin DOMAIN logTable /\ j \in DOMAIN logTable'
    BY <1>4, <1>8, <2>2
  <2>3. CASE j \notin DOMAIN logTable /\ j \notin DOMAIN logTable'
    <3>1. j # i \/ faults' = faults + 1
      BY <1>4, <1>7, <2>3
    <3> QED
      BY <1>4, <1>8, <1>9, <1>11, <2>3, <3>1
  <2> QED
    BY <2>1, <2>2, <2>3
<1> QED
  BY <1>1, <1>4, <1>6, <1>8, <1>12, AlertStep

LEMMA LogsDoneAlerted ==
    ASSUME Typed, AllAlerted, NEW b \in Backends, LogsDone(b)
    PROVE  AllAlerted'
<1>1. PICK me \in Thread : me = thread[b]
  BY Mine
<1>2. faults \in Nat /\ faults' \in Nat /\ faults' >= faults
  BY DEF LogsDone, Fault, Works, Typed, Tables
<1> DEFINE t == [me EXCEPT !.batch = {}, !.maxlvl = 0, !.pc = "parts"]
<1>3. thread' = [thread EXCEPT ![b] = t] /\ UNCHANGED logTable
  BY <1>1 DEF LogsDone, Set
<1>4. t.batch = {} /\ t.pc = "parts"
  BY DEF Thread
<1> HIDE DEF t
<1> SUFFICES ASSUME NEW j \in 1..MaxEntries PROVE Alerted(j)'
  BY DEF AllAlerted
<1>5. alerted \in [1..MaxEntries -> Nat] /\ alerted[j] \in Nat /\ Alerted(j)
  BY DEF Typed, Tables, AllAlerted
<1>6. One(Has(t, j)) = 0 /\ One(Will(t, j)) = 0
  BY <1>4 DEF One, Has, Will
<1>7. /\ One(Has(me, j)) \in Nat /\ One(Will(me, j)) \in Nat
      /\ One(Has(me, j)) <= One(Will(me, j))
  BY DEF One, Will
<1>8. alerted'[j] = alerted[j] \/ alerted'[j] = alerted[j] + One(Has(me, j))
  <2>1. \/ alerted' = alerted
        \/ alerted' = [k \in DOMAIN alerted |-> alerted[k] + (IF k \in me.batch THEN 1 ELSE 0)]
    BY <1>1 DEF LogsDone
  <2> QED
    BY <1>5, <2>1 DEF One, Has
<1>9. \/ /\ j \notin DOMAIN logTable /\ j \notin DOMAIN logTable'
         /\ alerted'[j] + One(Has(t, j)) + faults <= alerted[j] + One(Has(me, j)) + faults'
      \/ /\ j \in DOMAIN logTable /\ j \in DOMAIN logTable'
         /\ alerted'[j] + One(Will(t, j)) + faults <= alerted[j] + One(Will(me, j)) + faults'
  BY <1>2, <1>3, <1>5, <1>6, <1>7, <1>8
<1>10. alerted'[j] \in Nat
  BY <1>5, <1>7, <1>8
<1> QED
  BY <1>1, <1>2, <1>3, <1>5, <1>9, <1>10, AlertStep

LEMMA NextAlerted == Typed /\ AllAlerted /\ [Next]_vars => AllAlerted'
<1> SUFFICES ASSUME Typed, AllAlerted, [Next]_vars PROVE AllAlerted'
  OBVIOUS
<1>1. CASE AgentLogs \/ AgentChanges \/ UNCHANGED vars
  <2>1. UNCHANGED <<thread, logTable, alerted, faults>>
    BY <1>1 DEF AgentLogs, AgentChanges, vars, logs
  <2> QED
    BY <2>1 DEF AllAlerted, Alerted, Waiting, Busy
<1>2. ASSUME NEW b \in Backends, Crash(b) PROVE AllAlerted'
  <2>1. thread' = [thread EXCEPT ![b] = Fresh] /\ UNCHANGED <<logTable, alerted, faults>>
    BY <1>2 DEF Crash, logs
  <2>2. Fresh.batch = {} /\ Fresh.pc = "down" /\ faults \in Nat
    BY DEF Fresh, Typed, Tables
  <2>3. PICK t : t = Fresh
    OBVIOUS
  <2>4. /\ thread' = [thread EXCEPT ![b] = t] /\ t.batch \subseteq thread[b].batch /\ t.pc # "store"
        /\ faults' \in Nat /\ faults' >= faults
    BY <2>1, <2>2, <2>3
  <2> QED
    BY <2>1, <2>2, <2>4, AlertQuiet
<1>3. ASSUME NEW b \in Backends, Aside(b) PROVE AllAlerted'
  <2>1. PICK t : /\ thread' = [thread EXCEPT ![b] = t]
                 /\ t.batch = thread[b].batch /\ t.maxlvl = thread[b].maxlvl /\ t.pc # "store"
    BY <1>3, AsideSteps
  <2> QED
    BY <1>3, <2>1, AsideSteps, AlertQuiet
<1>4. ASSUME NEW b \in Backends, Start(b) \/ Crash(b) \/ Collect(b) PROVE AllAlerted'
  <2>1. Crash(b) \/ Aside(b) \/ LookLog(b) \/ StoreLog(b) \/ LogsDone(b)
    BY <1>4 DEF Collect, Aside
  <2> QED
    BY <1>2, <1>3, <2>1, LookLogAlerted, StoreLogAlerted, LogsDoneAlerted
<1> QED
  BY <1>1, <1>4 DEF Next

\* A log line is alerted at most once by each backend and once more for each failure,
\* whatever the agents send again, whoever stored it first, and through any crashes
\* (haveLogEvent, agentClient.cpp:262).
THEOREM OncePerBackend == Spec => []LogAlertedOnce
<1>1. Init => AllAlerted
  <2> SUFFICES ASSUME Init, NEW i \in 1..MaxEntries PROVE Alerted(i)
    BY DEF AllAlerted
  <2>1. Waiting(i) = {} /\ i \notin DOMAIN logTable /\ alerted[i] = 0 /\ faults = 0
    BY DEF Init, Waiting, Has, Fresh
  <2> QED
    BY <2>1, FS_EmptySet DEF Alerted
<1>2. Inv /\ AllAlerted /\ [Next]_vars => AllAlerted'
  BY NextAlerted DEF Inv
<1>3. Inv /\ AllAlerted => LogAlertedOnce
  <2> SUFFICES ASSUME Inv, AllAlerted, NEW i \in 1..Len(entries)
               PROVE  alerted[i] <= Cardinality(Backends) + faults
    BY DEF LogAlertedOnce
  <2>1. i \in 1..MaxEntries /\ alerted[i] \in Nat /\ faults \in Nat
    <3>1. Len(entries) \in Nat /\ Len(entries) <= MaxEntries
      BY LenProperties DEF Inv, Typed, Tables
    <3> QED
      BY <3>1, Constants DEF Inv, Typed, Tables
  <2>2. Cardinality(Busy(i)) \in Nat /\ Cardinality(Waiting(i)) \in Nat /\ Cardinality(Backends) \in Nat
    BY BackendSets DEF Busy, Waiting
  <2>3. Alerted(i)
    BY <2>1 DEF AllAlerted
  <2> QED
    BY <2>1, <2>2, <2>3 DEF Alerted
<1> QED
  BY <1>1, <1>2, <1>3, Invariance, PTL DEF Spec

-----------------------------------------------------------------------------
(***************************************************************************)
(* Which lines are lost.  A batch is of one service, so each crash or      *)
(* failure loses the lines of one.  A batch is let go without a failure    *)
(* only when no level of it was known, which took a failure before.        *)
(***************************************************************************)
Pending == UNION {thread[b].batch : b \in Backends}
Unheard == {i \in DOMAIN logTable : alerted[i] = 0} \ Pending

UnheardServices == {entries[i].service : i \in Unheard}
Mute == {b \in Backends : thread[b].batch # {} /\ thread[b].maxlvl = 0}

NotSilent == Cardinality(UnheardServices) + Cardinality(Mute) <= crashes + faults

LEMMA UnheardFinite ==
    ASSUME Tables
    PROVE  IsFiniteSet(UnheardServices) /\ Cardinality(UnheardServices) \in Nat
<1>1. Unheard \subseteq 1..Len(entries) /\ Len(entries) \in Nat
  BY LenProperties DEF Unheard, Tables
<1>2. IsFiniteSet(Unheard)
  <2>1. IsFiniteSet(1..Len(entries))
    BY <1>1, FS_Interval
  <2> QED
    BY <1>1, <2>1, FS_Subset
<1>3. IsFiniteSet(UnheardServices)
  <2> DEFINE f == [i \in Unheard |-> entries[i].service]
  <2>1. f \in [Unheard -> UnheardServices] /\ \A s \in UnheardServices : \E i \in Unheard : f[i] = s
    BY DEF UnheardServices
  <2>2. f \in Surjection(Unheard, UnheardServices)
    BY <2>1 DEF Surjection
  <2> HIDE DEF f
  <2> QED
    BY <1>2, <2>2, FS_Surjection
<1> QED
  BY <1>3, FS_CardinalityType

\* What a step may cost
LEMMA SilentStep ==
    ASSUME Typed, Tables', NotSilent, NEW b \in Backends, NEW s,
           LET lost == UnheardServices' \subseteq UnheardServices \cup {s}
               mute == Mute' \subseteq Mute
           IN  \/ /\ UnheardServices' \subseteq UnheardServices /\ mute
                  /\ crashes' + faults' >= crashes + faults
               \/ lost /\ mute /\ crashes' + faults' = crashes + faults + 1
               \/ /\ UnheardServices' \subseteq UnheardServices /\ Mute' \subseteq Mute \cup {b}
                  /\ crashes' + faults' = crashes + faults + 1
               \/ lost /\ b \in Mute /\ Mute' \subseteq Mute \ {b} /\ crashes' + faults' = crashes + faults
    PROVE  NotSilent'
<1> DEFINE U  == UnheardServices
           U2 == UnheardServices'
           M  == Mute
           M2 == Mute'
<1>1. /\ IsFiniteSet(U) /\ IsFiniteSet(U2) /\ Cardinality(U) \in Nat /\ Cardinality(U2) \in Nat
  <2>1. Tables
    BY DEF Typed
  <2>2. (IsFiniteSet(UnheardServices) /\ Cardinality(UnheardServices) \in Nat)'
    BY UnheardFinite, PTL
  <2> QED
    BY <2>1, <2>2, UnheardFinite
<1>2. M \in SUBSET Backends /\ M2 \in SUBSET Backends
  BY DEF Mute
<1>3. /\ IsFiniteSet(M) /\ IsFiniteSet(M2) /\ Cardinality(M) \in Nat /\ Cardinality(M2) \in Nat
  BY <1>2, BackendSets
<1>4. crashes \in Nat /\ faults \in Nat /\ crashes' \in Nat /\ faults' \in Nat
  BY DEF Typed, Tables
<1>5. Cardinality(U) + Cardinality(M) <= crashes + faults
  BY DEF NotSilent
<1> HIDE DEF U, U2, M, M2
<1>6. U2 \subseteq U => Cardinality(U2) <= Cardinality(U)
  BY <1>1, FS_Subset
<1>7. U2 \subseteq U \cup {s} => Cardinality(U2) <= Cardinality(U) + 1
  <2>3. IsFiniteSet(U \cup {s})
        /\ Cardinality(U \cup {s}) = IF s \in U THEN Cardinality(U) ELSE Cardinality(U) + 1
    BY <1>1, FS_AddElement
  <2>1. IsFiniteSet(U \cup {s}) /\ Cardinality(U \cup {s}) <= Cardinality(U) + 1
        /\ Cardinality(U \cup {s}) \in Nat
    BY <1>1, <2>3
  <2>2. U2 \subseteq U \cup {s} => Cardinality(U2) <= Cardinality(U \cup {s})
    BY <2>1, FS_Subset
  <2> QED
    BY <1>1, <2>1, <2>2
<1>8. M2 \subseteq M => Cardinality(M2) <= Cardinality(M)
  BY <1>3, FS_Subset
<1>9. M2 \subseteq M \cup {b} => Cardinality(M2) <= Cardinality(M) + 1
  <2>3. IsFiniteSet(M \cup {b})
        /\ Cardinality(M \cup {b}) = IF b \in M THEN Cardinality(M) ELSE Cardinality(M) + 1
    BY <1>3, FS_AddElement
  <2>1. IsFiniteSet(M \cup {b}) /\ Cardinality(M \cup {b}) <= Cardinality(M) + 1
        /\ Cardinality(M \cup {b}) \in Nat
    BY <1>3, <2>3
  <2>2. M2 \subseteq M \cup {b} => Cardinality(M2) <= Cardinality(M \cup {b})
    BY <2>1, FS_Subset
  <2> QED
    BY <1>3, <2>1, <2>2
<1>10. b \in M /\ M2 \subseteq M \ {b} => Cardinality(M2) + 1 <= Cardinality(M)
  <2> SUFFICES ASSUME b \in M, M2 \subseteq M \ {b} PROVE Cardinality(M2) + 1 <= Cardinality(M)
    OBVIOUS
  <2>1. IsFiniteSet(M \ {b}) /\ Cardinality(M \ {b}) = Cardinality(M) - 1
    BY <1>3, FS_RemoveElement
  <2>2. Cardinality(M2) <= Cardinality(M \ {b})
    BY <2>1, FS_Subset
  <2> QED
    BY <1>3, <2>1, <2>2
<1>11. \/ U2 \subseteq U /\ M2 \subseteq M /\ crashes' + faults' >= crashes + faults
       \/ U2 \subseteq U \cup {s} /\ M2 \subseteq M /\ crashes' + faults' = crashes + faults + 1
       \/ U2 \subseteq U /\ M2 \subseteq M \cup {b} /\ crashes' + faults' = crashes + faults + 1
       \/ /\ U2 \subseteq U \cup {s} /\ b \in M /\ M2 \subseteq M \ {b}
          /\ crashes' + faults' = crashes + faults
  BY DEF U, U2, M, M2
<1>12. Cardinality(U2) + Cardinality(M2) <= crashes' + faults'
  <2> DEFINE u  == Cardinality(U)
             u2 == Cardinality(U2)
             m  == Cardinality(M)
             m2 == Cardinality(M2)
             k  == crashes + faults
             k2 == crashes' + faults'
  <2>1. u \in Nat /\ u2 \in Nat /\ m \in Nat /\ m2 \in Nat /\ k \in Nat /\ k2 \in Nat /\ u + m <= k
    <3>1. u \in Nat /\ u2 \in Nat
      BY <1>1
    <3>2. m \in Nat /\ m2 \in Nat
      BY <1>3
    <3>3. k \in Nat /\ k2 \in Nat
      <4>1. PICK n \in Nat, f \in Nat : n = crashes' /\ f = faults'
        BY <1>4
      <4>2. PICK c \in Nat, g \in Nat : c = crashes /\ g = faults
        BY <1>4
      <4>3. n + f \in Nat /\ c + g \in Nat
        OBVIOUS
      <4> QED
        BY <4>1, <4>2, <4>3
    <3>4. u + m <= k
      BY <1>5
    <3> QED
      BY <3>1, <3>2, <3>3, <3>4
  <2>2. \/ u2 <= u /\ m2 <= m /\ k2 >= k
        \/ u2 <= u + 1 /\ m2 <= m /\ k2 = k + 1
        \/ u2 <= u /\ m2 <= m + 1 /\ k2 = k + 1
        \/ u2 <= u + 1 /\ m2 + 1 <= m /\ k2 = k
    BY <1>6, <1>7, <1>8, <1>9, <1>10, <1>11
  <2> HIDE DEF u, u2, m, m2, k, k2
  <2>3. u2 + m2 <= k2
    BY <2>1, <2>2
  <2> QED
    BY <2>3 DEF u2, m2, k2
<1> QED
  BY <1>12 DEF NotSilent, U2, M2

\* Lines that were neither lost nor pending before were alerted
LEMMA UnheardMoves ==
    ASSUME Typed, NEW b \in Backends, NEW me \in Thread, me = thread[b],
           NEW t, thread' = [thread EXCEPT ![b] = t], UNCHANGED entries
    PROVE  /\ \A o \in Backends \ {b} : o \in Mute' <=> o \in Mute
           /\ b \in Mute' <=> t.batch # {} /\ t.maxlvl = 0
           /\ b \in Mute <=> me.batch # {} /\ me.maxlvl = 0
           /\ \A i : i \in Pending /\ i \notin Pending' => i \in me.batch /\ i \notin t.batch
           /\ t.batch \subseteq Pending'
           /\ (Unheard' \subseteq Unheard) => UnheardServices' \subseteq UnheardServices
           /\ (Unheard' \subseteq Unheard \cup me.batch)
                => UnheardServices' \subseteq UnheardServices \cup {me.service}
<1>1. thread'[b] = t /\ \A o \in Backends \ {b} : thread'[o] = thread[o]
  BY Others DEF Typed
<1>2. \A i \in me.batch : entries[i].service = me.service
  BY Mine DEF Lines
<1> QED
  BY <1>1, <1>2 DEF Mute, Pending, UnheardServices

LEMMA LogsDoneSilent ==
    ASSUME Typed, Tables', NotSilent, NEW b \in Backends, LogsDone(b)
    PROVE  NotSilent'
<1>1. PICK me \in Thread : me = thread[b]
  BY Mine
<1> DEFINE new == [me EXCEPT !.batch = {}, !.maxlvl = 0, !.pc = "parts"]
<1>11. new.batch = {}
  BY DEF Thread
<1>2. PICK t : t = new /\ t.batch = {}
  BY <1>11
<1> HIDE DEF new
<1>3. thread' = [thread EXCEPT ![b] = t] /\ UNCHANGED <<logTable, entries, crashes>>
  BY <1>1, <1>2 DEF LogsDone, Set, new, agent
<1>4. crashes \in Nat /\ faults \in Nat /\ alerted \in [1..MaxEntries -> Nat]
      /\ DOMAIN logTable \subseteq 1..MaxEntries
  <2>1. Len(entries) \in Nat /\ Len(entries) <= MaxEntries /\ MaxEntries \in Nat
    BY LenProperties, Constants DEF Typed, Tables
  <2>2. \A i \in DOMAIN logTable : i \in 1..MaxEntries
    BY <2>1 DEF Typed, Tables
  <2> QED
    BY <2>2 DEF Typed, Tables
<1>5. \/ WorthSending(me.maxlvl) /\ Works
         /\ alerted' = [i \in DOMAIN alerted |-> alerted[i] + (IF i \in me.batch THEN 1 ELSE 0)]
      \/ Fault /\ UNCHANGED alerted
      \/ ~ WorthSending(me.maxlvl) /\ Works /\ UNCHANGED alerted
  BY <1>1 DEF LogsDone
<1>6. Mute' \subseteq Mute \ {b}
  BY <1>1, <1>2, <1>3, UnheardMoves DEF Mute
<1>7. CASE UNCHANGED alerted
  <2>1. Unheard' \subseteq Unheard \cup me.batch
    BY <1>1, <1>3, <1>7, UnheardMoves DEF Unheard
  <2>2. UnheardServices' \subseteq UnheardServices \cup {me.service}
    BY <1>1, <1>3, <2>1, UnheardMoves
  <2>3. CASE Fault
    <3>1. crashes' + faults' = crashes + faults + 1
      BY <1>3, <1>4, <2>3 DEF Fault
    <3> QED
      BY <1>6, <2>2, <3>1, SilentStep
  <2>4. CASE Works /\ me.batch = {}
    <3>1. Unheard' \subseteq Unheard
      BY <2>1, <2>4
    <3>3. UnheardServices' \subseteq UnheardServices
      BY <1>1, <1>3, <3>1, UnheardMoves
    <3>2. UnheardServices' \subseteq UnheardServices /\ crashes' + faults' >= crashes + faults
      BY <1>3, <1>4, <2>4, <3>3 DEF Works
    <3> QED
      BY <1>6, <3>2, SilentStep
  <2>5. CASE Works /\ me.batch # {} /\ ~ WorthSending(me.maxlvl)
    <3>1. me.maxlvl = 0
      BY <2>5 DEF WorthSending, Thread
    <3>2. b \in Mute
      BY <1>1, <2>5, <3>1 DEF Mute
    <3>3. crashes' + faults' = crashes + faults
      BY <1>3, <1>4, <2>5 DEF Works
    <3> QED
      BY <1>6, <2>2, <3>2, <3>3, SilentStep
  <2>6. ASSUME Works, me.batch # {}, WorthSending(me.maxlvl) PROVE Unheard' \subseteq Unheard
    <3>1. faults' # faults + 1
      BY <1>4, <2>6 DEF Works
    <3>2. alerted' = [i \in DOMAIN alerted |-> alerted[i] + (IF i \in me.batch THEN 1 ELSE 0)]
      BY <1>5, <2>6, <3>1 DEF Fault
    <3>3. \A i \in DOMAIN logTable : alerted'[i] = 0 => i \notin me.batch
      BY <1>4, <3>2
    <3> QED
      BY <2>1, <3>3, <1>3 DEF Unheard
  <2>7. CASE Works /\ me.batch # {} /\ WorthSending(me.maxlvl)
    <3>3. UnheardServices' \subseteq UnheardServices
      BY <1>1, <1>3, <2>6, <2>7, UnheardMoves
    <3>2. UnheardServices' \subseteq UnheardServices /\ crashes' + faults' >= crashes + faults
      BY <1>3, <1>4, <2>7, <3>3 DEF Works
    <3> QED
      BY <1>6, <3>2, SilentStep
  <2> QED
    BY <1>5, <2>3, <2>4, <2>5, <2>7
<1>8. CASE /\ Works
           /\ alerted' = [i \in DOMAIN alerted |-> alerted[i] + (IF i \in me.batch THEN 1 ELSE 0)]
  <2>1. \A i \in DOMAIN logTable : alerted'[i] = 0 => alerted[i] = 0 /\ i \notin me.batch
    BY <1>4, <1>8
  <2>2. Unheard' \subseteq Unheard
    BY <1>1, <1>3, <2>1, UnheardMoves DEF Unheard
  <2>4. UnheardServices' \subseteq UnheardServices
    BY <1>1, <1>3, <2>2, UnheardMoves
  <2>3. UnheardServices' \subseteq UnheardServices /\ crashes' + faults' >= crashes + faults
    BY <1>3, <1>4, <1>8, <2>4 DEF Works
  <2> QED
    BY <1>6, <2>3, SilentStep
<1> QED
  BY <1>5, <1>7, <1>8

LEMMA StoreLogSilent ==
    ASSUME Typed, Tables', NotSilent, NEW b \in Backends, StoreLog(b)
    PROVE  NotSilent'
<1>1. PICK me \in Thread : me = thread[b]
  BY Mine
<1>2. PICK i \in Least(me.logs), id \in Nat : StoreStep(b, me, i, id)
  BY <1>1, StoreLogSteps
<1> DEFINE new == [me EXCEPT !.pc = "log", !.logs = @ \ {i}, !.batch = @ \cup {i},
                             !.maxlvl = Larger(@, id)]
<1>11. new.batch = me.batch \cup {i} /\ new.maxlvl = Larger(me.maxlvl, id)
  BY DEF Thread
<1>3. PICK t : t = new /\ t.batch = me.batch \cup {i} /\ t.maxlvl = Larger(me.maxlvl, id)
  BY <1>11
<1> HIDE DEF new
<1>4. thread' = [thread EXCEPT ![b] = t] /\ UNCHANGED <<alerted, entries, crashes>>
  BY <1>2, <1>3 DEF new, StoreStep, agent
<1>5. DOMAIN logTable' \subseteq DOMAIN logTable \cup {i}
  BY <1>2 DEF StoreStep, Put
<1>6. Unheard' \subseteq Unheard
  BY <1>1, <1>3, <1>4, <1>5, UnheardMoves DEF Unheard
<1>7. UnheardServices' \subseteq UnheardServices
  BY <1>1, <1>4, <1>6, UnheardMoves
<1>8. crashes \in Nat /\ faults \in Nat
  BY DEF Typed, Tables
<1>9. CASE id > 0
  <2>1. t.maxlvl > 0
    BY <1>3, <1>9 DEF Thread, Larger
  <2>2. Mute' \subseteq Mute
    BY <1>1, <1>4, <2>1, UnheardMoves DEF Mute
  <2>3. crashes' + faults' >= crashes + faults
    BY <1>2, <1>4, <1>8 DEF StoreStep, Fault, Works
  <2> QED
    BY <1>7, <2>2, <2>3, SilentStep
<1>10. CASE Fault
  <2>1. Mute' \subseteq Mute \cup {b}
    BY <1>1, <1>4, UnheardMoves DEF Mute
  <2>2. crashes' + faults' = crashes + faults + 1
    BY <1>4, <1>8, <1>10 DEF Fault
  <2> QED
    BY <1>7, <2>1, <2>2, SilentStep
<1> QED
  BY <1>2, <1>9, <1>10 DEF StoreStep

LEMMA NextSilent == Typed /\ Typed' /\ NotSilent /\ [Next]_vars => NotSilent'
<1> SUFFICES ASSUME Typed, Typed', NotSilent, [Next]_vars PROVE NotSilent'
  OBVIOUS
<1>0. Tables' /\ crashes \in Nat /\ faults \in Nat
  BY DEF Typed, Tables
<1>1. CASE AgentLogs \/ AgentChanges \/ UNCHANGED vars
  <2>1. UNCHANGED <<thread, logTable, alerted, crashes, faults>>
    BY <1>1 DEF AgentLogs, AgentChanges, vars, logs
  <2>2. \A i \in 1..Len(entries) : entries'[i] = entries[i]
    <3>1. CASE AgentLogs
      <4>1. PICK e : entries' = Append(entries, e)
        BY <3>1 DEF AgentLogs
      <4>2. entries \in Seq([service : Services, level : Levels])
        BY DEF Typed, Tables
      <4>3. e \in [service : Services, level : Levels]
        BY <3>1, <4>1, <4>2 DEF AgentLogs, Typed, Tables
      <4> QED
        BY <4>1, <4>2, <4>3, AppendProperties
    <3>2. CASE AgentChanges \/ UNCHANGED vars
      BY <3>2 DEF AgentChanges, vars, agent
    <3> QED
      BY <1>1, <3>1, <3>2
  <2>3. Unheard' = Unheard /\ Mute' = Mute
    BY <2>1 DEF Unheard, Pending, Mute
  <2>4. UnheardServices' = UnheardServices
    <3>1. \A i \in Unheard : entries'[i] = entries[i]
      BY <2>2 DEF Unheard, Typed, Tables
    <3> QED
      BY <2>3, <3>1 DEF UnheardServices
  <2> QED
    BY <2>1, <2>3, <2>4 DEF NotSilent
<1>2. ASSUME NEW b \in Backends, Crash(b) PROVE NotSilent'
  <2>1. PICK me \in Thread : me = thread[b]
    BY Mine
  <2>9. Fresh.batch = {}
    BY DEF Fresh
  <2>2. PICK t : t = Fresh /\ t.batch = {}
    BY <2>9
  <2>3. thread' = [thread EXCEPT ![b] = t] /\ UNCHANGED <<entries, logTable, alerted>>
        /\ crashes' + faults' = crashes + faults + 1
    BY <1>0, <1>2, <2>2 DEF Crash, logs, agent
  <2>4. Mute' \subseteq Mute
    BY <2>1, <2>2, <2>3, UnheardMoves DEF Mute
  <2>5. Unheard' \subseteq Unheard \cup me.batch
    BY <2>1, <2>3, UnheardMoves DEF Unheard
  <2>6. UnheardServices' \subseteq UnheardServices \cup {me.service}
    BY <2>1, <2>3, <2>5, UnheardMoves
  <2> QED
    BY <1>0, <2>3, <2>4, <2>6, SilentStep
\* Steps that change neither batches nor levels
<1>3. ASSUME NEW b \in Backends, NEW t, thread' = [thread EXCEPT ![b] = t],
             t.batch = thread[b].batch, t.maxlvl = thread[b].maxlvl,
             UNCHANGED <<entries, logTable, alerted, crashes>>, faults' >= faults, faults' \in Nat
      PROVE  NotSilent'
  <2>1. PICK me \in Thread : me = thread[b]
    BY Mine
  <2>4. me.batch = t.batch /\ me.maxlvl = t.maxlvl
    BY <1>3, <2>1
  <2>5. Mute' \subseteq Mute
    BY <1>3, <2>1, <2>4, UnheardMoves DEF Mute
  <2>6. \A i \in Pending : i \in Pending'
    BY <1>3, <2>1, <2>4, UnheardMoves
  <2>7. Unheard' \subseteq Unheard
    BY <1>3, <2>6 DEF Unheard
  <2>2. Unheard' \subseteq Unheard /\ Mute' \subseteq Mute
    BY <2>5, <2>7
  <2>8. UnheardServices' \subseteq UnheardServices
    BY <1>3, <2>1, <2>7, UnheardMoves
  <2>9. crashes' = crashes
    BY <1>3
  <2>10. crashes' + faults' >= crashes + faults
    <3>1. faults' \in Nat /\ faults' >= faults
      BY <1>3
    <3>2. crashes \in Nat /\ faults \in Nat
      BY <1>0
    <3>3. PICK n \in Nat, f \in Nat, c \in Nat : n = faults' /\ f = faults /\ c = crashes
      BY <3>1, <3>2
    <3>5. n >= f
      BY <3>1, <3>3
    <3>4. c + n >= c + f
      BY <3>5
    <3> QED
      BY <2>9, <3>3, <3>4
  <2>3. UnheardServices' \subseteq UnheardServices /\ crashes' + faults' >= crashes + faults
    BY <2>8, <2>10
  <2> QED
    BY <1>0, <1>3, <2>2, <2>3, SilentStep
<1>4. ASSUME NEW b \in Backends, Aside(b) PROVE NotSilent'
  <2>1. PICK t : /\ thread' = [thread EXCEPT ![b] = t]
                 /\ t.batch = thread[b].batch /\ t.maxlvl = thread[b].maxlvl
    BY <1>4, AsideSteps
  <2> QED
    BY <1>3, <1>4, <2>1, AsideSteps
<1>5. ASSUME NEW b \in Backends, LookLog(b) PROVE NotSilent'
  <2>1. PICK me \in Thread : me = thread[b]
    BY Mine
  <2>2. UNCHANGED <<entries, logTable, alerted, crashes>> /\ faults' >= faults /\ faults' \in Nat
    BY <1>0, <1>5 DEF LookLog, Set, Go, Fault, Works, agent, logs
  <2>3. PICK i : \/ thread' = [thread EXCEPT ![b] = [me EXCEPT !.logs = @ \ {i}]]
                 \/ thread' = [thread EXCEPT ![b] = [me EXCEPT !.pc = "store"]]
    BY <1>5, <2>1 DEF LookLog, Set, Go
  <2> DEFINE t1 == [me EXCEPT !.logs = @ \ {i}]
             t2 == [me EXCEPT !.pc = "store"]
  <2>4. t1.batch = me.batch /\ t1.maxlvl = me.maxlvl /\ t2.batch = me.batch /\ t2.maxlvl = me.maxlvl
    BY DEF Thread
  <2>5. thread' = [thread EXCEPT ![b] = t1] \/ thread' = [thread EXCEPT ![b] = t2]
    BY <2>3
  <2> HIDE DEF t1, t2
  <2> QED
    BY <1>3, <2>1, <2>2, <2>4, <2>5
<1>6. ASSUME NEW b \in Backends, Start(b) \/ Crash(b) \/ Collect(b) PROVE NotSilent'
  <2>1. Crash(b) \/ Aside(b) \/ LookLog(b) \/ StoreLog(b) \/ LogsDone(b)
    BY <1>6 DEF Collect, Aside
  <2> QED
    BY <1>0, <1>2, <1>4, <1>5, <2>1, StoreLogSilent, LogsDoneSilent
<1> QED
  BY <1>1, <1>6 DEF Next

\* A line in s$log_events that no alert showed and that no batch holds is the loss of a
\* crash or a failed statement, each of which loses the lines of one service, for any
\* number of backends, services and lines (agentClient.cpp:276: sendLog after the
\* loop that stored them).
THEOREM LossesExplained == Spec => []LogNotSilent
<1>1. Init => NotSilent
  <2> SUFFICES ASSUME Init PROVE NotSilent
    OBVIOUS
  <2>1. Unheard = {} /\ Mute = {} /\ crashes = 0 /\ faults = 0
    BY DEF Init, Unheard, Mute, Fresh
  <2>2. UnheardServices = {}
    BY <2>1 DEF UnheardServices
  <2> QED
    BY <2>1, <2>2, FS_EmptySet DEF NotSilent
<1>2. Inv /\ Inv' /\ NotSilent /\ [Next]_vars => NotSilent'
  BY NextSilent DEF Inv
<1>3. Inv /\ NotSilent => LogNotSilent
  <2> SUFFICES ASSUME Inv, NotSilent PROVE LogNotSilent
    OBVIOUS
  <2>1. Cardinality(UnheardServices) <= crashes + faults
    <3>1. Cardinality(UnheardServices) \in Nat /\ crashes \in Nat /\ faults \in Nat
      BY UnheardFinite DEF Inv, Typed, Tables
    <3>2. Mute \in SUBSET Backends
      BY DEF Mute
    <3> QED
      BY <3>1, <3>2, BackendSets DEF NotSilent
  <2> QED
    BY <2>1 DEF LogNotSilent, UnheardServices, Unheard, Pending
<1> QED
  BY <1>1, <1>2, <1>3, Invariance, PTL DEF Spec

-----------------------------------------------------------------------------
(***************************************************************************)
(* A collect, step by step, as far as its reply, its counters and the      *)
(* tables they come to are concerned: me is the thread before the step and *)
(* t the thread after it.                                                  *)
(***************************************************************************)
SameRound(me, t) == t.ts = me.ts /\ t.reply = me.reply
SameVisits(me, t) == t.todo = me.todo /\ t.hosts = me.hosts /\ t.service = me.service
SameTally(me, t) ==
    /\ t.parts = me.parts /\ t.part = me.part
    /\ t.failed = me.failed /\ t.nfailed = me.nfailed /\ t.ok = me.ok

\* It comes to rest: the process started, the request failed, or all is done
Rests(me, t) ==
    /\ me.pc \in {"down", "ask"} \/ (me.pc = "next" /\ me.todo = {} /\ me.hosts = {})
    /\ t.pc = "idle" /\ SameRound(me, t) /\ SameVisits(me, t) /\ SameTally(me, t)
    /\ UNCHANGED <<states, services, time, crashes, faults>>

Dies(t) == t = Fresh /\ crashes' = crashes + 1 /\ UNCHANGED <<states, services, time, faults>>

Begins(b, me, t) ==
    /\ me.pc = "idle" /\ t.pc = "ask" /\ t.ts = clock + 1 /\ t.reply = me.reply
    /\ SameVisits(me, t) /\ SameTally(me, t)
    /\ clock' = clock + 1
    /\ overlap' = (overlap \/ \E o \in Backends \ {b} : thread[o].pc \notin {"down", "idle"})
    /\ UNCHANGED <<states, services, crashes, faults>>

Hears(me, t) ==
    /\ me.pc = "ask" /\ t.pc = "next" /\ t.ts = me.ts /\ t.todo = t.reply.up
    /\ t.hosts = me.hosts /\ t.service = me.service /\ SameTally(me, t)
    /\ UNCHANGED <<states, services, time, crashes>> /\ (Fault \/ Works)

Visiting(me, t, s) ==
    /\ me.pc = "next" /\ s \in me.todo /\ t.pc = "log" /\ SameRound(me, t)
    /\ t.todo = me.todo \ {s} /\ t.hosts = me.hosts \cup {HostOf[s]} /\ t.service = s
    /\ t.parts = OfService(s) /\ t.part = me.part
    /\ t.failed = me.failed /\ t.nfailed = me.nfailed /\ t.ok = me.ok
    /\ known' = known \cup {s}
    /\ UNCHANGED <<history, states, time, crashes, faults>>

ReadsLogs(me, t) ==
    /\ me.pc \in {"log", "store"} /\ t.pc \in {"log", "store", "parts"}
    /\ SameRound(me, t) /\ SameVisits(me, t) /\ SameTally(me, t)
    /\ UNCHANGED <<states, services, time, crashes>> /\ (Fault \/ Works)

CountsOk(me, t, p) ==
    /\ me.pc = "parts" /\ t.pc = "parts" /\ SameRound(me, t) /\ SameVisits(me, t)
    /\ p \in me.parts /\ me.reply.status[p] = "ok" /\ t.parts = me.parts \ {p}
    /\ t.part = me.part /\ t.failed = me.failed /\ t.nfailed = me.nfailed /\ t.ok = me.ok + 1
    /\ \/ /\ partTable' = [partTable EXCEPT ![p] = "ok"] /\ told' = [told EXCEPT ![p] = "ok"]
          /\ Works
       \/ Fault /\ UNCHANGED states
    /\ UNCHANGED <<services, time, crashes>>

CountsFailed(me, t, p) ==
    /\ me.pc = "parts" /\ t.pc = "storepart" /\ SameRound(me, t) /\ SameVisits(me, t)
    /\ p \in me.parts /\ me.reply.status[p] # "ok" /\ t.parts = me.parts \ {p}
    /\ t.part = p /\ t.failed = me.failed + 1 /\ t.ok = me.ok
    /\ \/ t.nfailed = me.nfailed /\ partTable[p] = me.reply.status[p]
       \/ t.nfailed = me.nfailed + 1
    /\ UNCHANGED <<states, services, time, crashes>> /\ (Fault \/ Works)

StoresFailed(me, t) ==
    /\ me.pc = "storepart" /\ t.pc = "parts" /\ SameRound(me, t) /\ SameVisits(me, t)
    /\ t.parts = me.parts
    /\ t.failed = me.failed /\ t.nfailed = me.nfailed /\ t.ok = me.ok
    /\ \/ partTable' = [partTable EXCEPT ![me.part] = me.reply.status[me.part]] /\ Works
       \/ Fault /\ UNCHANGED partTable
    /\ UNCHANGED <<told, services, time, crashes>>

Tells(me, t) ==
    /\ me.pc = "parts" /\ me.parts = {} /\ t.pc = "history"
    /\ SameRound(me, t) /\ SameVisits(me, t) /\ SameTally(me, t)
    /\ \/ /\ me.nfailed > 0 /\ Works
          /\ told' = [p \in Parts |-> IF p \in OfService(me.service) THEN me.reply.status[p] ELSE told[p]]
       \/ me.nfailed > 0 /\ Fault /\ UNCHANGED told
       \/ me.nfailed = 0 /\ Works /\ UNCHANGED told
    /\ UNCHANGED <<partTable, services, time, crashes>>

Records(me, t) ==
    /\ me.pc = "history" /\ t.pc = "next" /\ SameRound(me, t)
    /\ t.todo = me.todo /\ t.hosts = me.hosts /\ t.parts = me.parts /\ t.part = me.part
    /\ t.failed = 0 /\ t.nfailed = 0 /\ t.ok = 0
    /\ \/ /\ history' = Put(history, <<me.service, me.ts>>,
                            [failed |-> me.failed, missing |-> 0, ok |-> me.ok])
          /\ Works
       \/ Fault /\ UNCHANGED history
    /\ UNCHANGED <<known, states, time, crashes>>

Misses(me, t, h) ==
    /\ me.pc = "next" /\ me.todo = {} /\ h \in me.hosts /\ t.pc = "next" /\ SameRound(me, t)
    /\ t.todo = me.todo /\ t.hosts = me.hosts \ {h} /\ t.service = me.service /\ SameTally(me, t)
    /\ \/ /\ history' = [k \in DOMAIN history \cup Gone(h, me.ts) |->
                            IF k \in Gone(h, me.ts) THEN PartsMissing(k[1]) ELSE history[k]]
          /\ Works
       \/ Fault /\ UNCHANGED history
    /\ UNCHANGED <<known, states, time, crashes>>

OneStep(b, me, t) ==
    \/ Rests(me, t) \/ Dies(t) \/ Begins(b, me, t) \/ Hears(me, t)
    \/ \E s \in Services : Visiting(me, t, s)
    \/ ReadsLogs(me, t)
    \/ \E p \in Parts : CountsOk(me, t, p) \/ CountsFailed(me, t, p)
    \/ StoresFailed(me, t) \/ Tells(me, t) \/ Records(me, t)
    \/ \E h \in STRING : Misses(me, t, h)

LEMMA Steps ==
    ASSUME Typed, NEW b \in Backends, Start(b) \/ Crash(b) \/ Collect(b)
    PROVE  \E t : thread' = [thread EXCEPT ![b] = t] /\ OneStep(b, thread[b], t)
<1>1. PICK me \in Thread : me = thread[b]
  BY Mine
<1>2. SUFFICES \E t : thread' = [thread EXCEPT ![b] = t] /\ OneStep(b, me, t)
  BY <1>1
<1> USE DEF SameRound, SameVisits, SameTally
<1>3. CASE Start(b) \/ RequestFails(b) \/ CollectDone(b)
  <2> DEFINE t == [me EXCEPT !.pc = "idle"]
  <2>1. thread' = [thread EXCEPT ![b] = t]
    BY <1>1, <1>3 DEF Start, RequestFails, CollectDone, Go, Set
  <2>2. me.pc \in {"down", "ask"} \/ (me.pc = "next" /\ me.todo = {} /\ me.hosts = {})
    BY <1>1, <1>3 DEF Start, RequestFails, CollectDone, At
  <2>3. UNCHANGED <<states, services, time, crashes, faults>>
    BY <1>3 DEF Start, RequestFails, CollectDone, Go, Set
  <2>4. t.pc = "idle" /\ SameRound(me, t) /\ SameVisits(me, t) /\ SameTally(me, t)
    BY <1>1 DEF Thread
  <2> HIDE DEF t
  <2>5. Rests(me, t)
    BY <2>2, <2>3, <2>4 DEF Rests
  <2> QED
    BY <2>1, <2>5 DEF OneStep
<1>4. CASE Crash(b)
  <2>1. Dies(Fresh) /\ thread' = [thread EXCEPT ![b] = Fresh]
    BY <1>4 DEF Crash, Dies
  <2> QED
    BY <2>1 DEF OneStep
<1>5. CASE ReadClock(b)
  <2> DEFINE t == [me EXCEPT !.ts = clock + 1, !.pc = "ask"]
  <2>1. thread' = [thread EXCEPT ![b] = t] /\ me.pc = "idle"
    BY <1>1, <1>5 DEF ReadClock, Set, At
  <2>2. /\ clock' = clock + 1
        /\ overlap' = (overlap \/ \E o \in Backends \ {b} : thread[o].pc \notin {"down", "idle"})
        /\ UNCHANGED <<states, services, crashes, faults>>
    BY <1>5 DEF ReadClock, Set
  <2>3. t.pc = "ask" /\ t.ts = clock + 1 /\ t.reply = me.reply /\ SameVisits(me, t) /\ SameTally(me, t)
    BY <1>1 DEF Thread
  <2> HIDE DEF t
  <2>4. Begins(b, me, t)
    BY <2>1, <2>2, <2>3 DEF Begins
  <2> QED
    BY <2>1, <2>4 DEF OneStep
<1>6. CASE Request(b) \/ RequestErrorBody(b)
  <2>1. PICK r, since : Answer(b, r, since) /\ (Fault \/ Works)
    BY <1>6 DEF Request, RequestErrorBody
  <2> DEFINE t == [me EXCEPT !.reply = r, !.since = since, !.todo = r.up, !.pc = "next"]
  <2>2. thread' = [thread EXCEPT ![b] = t] /\ me.pc = "ask"
        /\ UNCHANGED <<states, services, time, crashes>>
    BY <1>1, <2>1 DEF Answer, Set, At
  <2>3. /\ t.pc = "next" /\ t.ts = me.ts /\ t.todo = t.reply.up
        /\ t.hosts = me.hosts /\ t.service = me.service /\ SameTally(me, t)
    BY <1>1 DEF Thread
  <2> HIDE DEF t
  <2>4. Hears(me, t)
    BY <2>1, <2>2, <2>3 DEF Hears
  <2> QED
    BY <2>2, <2>4 DEF OneStep
<1>7. CASE NextService(b)
  <2>1. PICK s, sent :
            /\ s \in me.todo /\ known' = known \cup {s}
            /\ Set(b, [me EXCEPT !.pc = "log", !.todo = @ \ {s}, !.hosts = @ \cup {HostOf[s]},
                                 !.service = s, !.logs = sent, !.parts = OfService(s)])
    BY <1>1, <1>7 DEF NextService
  <2> DEFINE t == [me EXCEPT !.pc = "log", !.todo = @ \ {s}, !.hosts = @ \cup {HostOf[s]},
                             !.service = s, !.logs = sent, !.parts = OfService(s)]
  <2>2. thread' = [thread EXCEPT ![b] = t] /\ me.pc = "next" /\ s \in Services
        /\ UNCHANGED <<history, states, time, crashes, faults>>
    BY <1>1, <1>7, <2>1 DEF NextService, Set, At, Thread
  <2>3. /\ t.pc = "log" /\ SameRound(me, t)
        /\ t.todo = me.todo \ {s} /\ t.hosts = me.hosts \cup {HostOf[s]} /\ t.service = s
        /\ t.parts = OfService(s) /\ t.part = me.part
        /\ t.failed = me.failed /\ t.nfailed = me.nfailed /\ t.ok = me.ok
    BY <1>1 DEF Thread
  <2> HIDE DEF t
  <2>4. Visiting(me, t, s)
    BY <2>1, <2>2, <2>3 DEF Visiting
  <2> QED
    BY <2>2, <2>4 DEF OneStep
<1>8. CASE LookLog(b)
  <2>1. PICK i \in Least(me.logs) :
          \/ thread' = [thread EXCEPT ![b] = [me EXCEPT !.logs = @ \ {i}]]
          \/ thread' = [thread EXCEPT ![b] = [me EXCEPT !.pc = "store"]]
    BY <1>1, <1>8 DEF LookLog, Go, Set
  <2>2. me.pc = "log" /\ UNCHANGED <<states, services, time, crashes>> /\ (Fault \/ Works)
    BY <1>1, <1>8 DEF LookLog, At, Go, Set
  <2> DEFINE t1 == [me EXCEPT !.logs = @ \ {i}]
             t2 == [me EXCEPT !.pc = "store"]
  <2>3. /\ t1.pc = "log" /\ SameRound(me, t1) /\ SameVisits(me, t1) /\ SameTally(me, t1)
        /\ t2.pc = "store" /\ SameRound(me, t2) /\ SameVisits(me, t2) /\ SameTally(me, t2)
    BY <1>1, <2>2 DEF Thread
  <2>4. thread' = [thread EXCEPT ![b] = t1] \/ thread' = [thread EXCEPT ![b] = t2]
    BY <2>1
  <2> HIDE DEF t1, t2
  <2>5. ReadsLogs(me, t1) /\ ReadsLogs(me, t2)
    BY <2>2, <2>3 DEF ReadsLogs
  <2> QED
    BY <2>4, <2>5 DEF OneStep
<1>9. CASE StoreLog(b)
  <2>1. PICK i \in Least(me.logs), id \in Nat : StoreStep(b, me, i, id)
    BY <1>1, <1>9, StoreLogSteps
  <2> DEFINE t == [me EXCEPT !.pc = "log", !.logs = @ \ {i}, !.batch = @ \cup {i}, !.maxlvl = Larger(@, id)]
  <2>2. thread' = [thread EXCEPT ![b] = t] /\ me.pc = "store"
        /\ UNCHANGED <<states, services, time, crashes>> /\ (Fault \/ Works)
    BY <1>1, <1>9, <2>1 DEF StoreStep, Works, StoreLog, At
  <2>3. t.pc = "log" /\ SameRound(me, t) /\ SameVisits(me, t) /\ SameTally(me, t)
    BY <1>1 DEF Thread
  <2> HIDE DEF t
  <2>4. ReadsLogs(me, t)
    BY <2>2, <2>3 DEF ReadsLogs
  <2> QED
    BY <2>2, <2>4 DEF OneStep
<1>10. CASE LogsDone(b)
  <2> DEFINE t == [me EXCEPT !.batch = {}, !.maxlvl = 0, !.pc = "parts"]
  <2>1. thread' = [thread EXCEPT ![b] = t] /\ me.pc = "log"
        /\ UNCHANGED <<states, services, time, crashes>> /\ (Fault \/ Works)
    BY <1>1, <1>10 DEF LogsDone, Set, At
  <2>2. t.pc = "parts" /\ SameRound(me, t) /\ SameVisits(me, t) /\ SameTally(me, t)
    BY <1>1 DEF Thread
  <2> HIDE DEF t
  <2>3. ReadsLogs(me, t)
    BY <2>1, <2>2 DEF ReadsLogs
  <2> QED
    BY <2>1, <2>3 DEF OneStep
<1>11. CASE PartOk(b)
  <2>1. PICK p \in me.parts :
            /\ me.reply.status[p] = "ok"
            /\ Set(b, [me EXCEPT !.parts = @ \ {p}, !.ok = @ + 1])
            /\ \/ /\ partTable' = [partTable EXCEPT ![p] = "ok"]
                  /\ told' = [told EXCEPT ![p] = "ok"]
                  /\ Works
               \/ Fault /\ UNCHANGED states
    BY <1>1, <1>11 DEF PartOk
  <2> DEFINE t == [me EXCEPT !.parts = @ \ {p}, !.ok = @ + 1]
  <2>2. thread' = [thread EXCEPT ![b] = t] /\ me.pc = "parts" /\ p \in Parts
        /\ UNCHANGED <<services, time, crashes>>
    BY <1>1, <1>11, <2>1 DEF PartOk, Set, At, Thread
  <2>3. /\ t.pc = me.pc /\ SameRound(me, t) /\ SameVisits(me, t) /\ t.parts = me.parts \ {p}
        /\ t.part = me.part /\ t.failed = me.failed /\ t.nfailed = me.nfailed /\ t.ok = me.ok + 1
    BY <1>1 DEF Thread
  <2> HIDE DEF t
  <2>4. CountsOk(me, t, p)
    BY <2>1, <2>2, <2>3 DEF CountsOk
  <2> QED
    BY <2>2, <2>4 DEF OneStep
<1>12. CASE LookPart(b)
  <2>9. PICK p \in me.parts :
            LET st == me.reply.status[p]
                Failed(new) == Set(b, [me EXCEPT !.parts = @ \ {p}, !.part = p, !.pc = "storepart",
                                                 !.failed = @ + 1, !.nfailed = @ + new])
            IN  /\ st # "ok"
                /\ \/ HaveStatus(p, st) /\ Failed(0) /\ Works
                   \/ ~ HaveStatus(p, st) /\ Failed(1) /\ Works
                   \/ HaveStatus(p, st) /\ Failed(1) /\ Fault
    BY <1>1, <1>12 DEF LookPart
  <2> DEFINE Failed(new) == Set(b, [me EXCEPT !.parts = @ \ {p}, !.part = p, !.pc = "storepart",
                                              !.failed = @ + 1, !.nfailed = @ + new])
  <2>8. me.reply.status[p] # "ok"
    BY <2>9
  <2>7. (HaveStatus(p, me.reply.status[p]) /\ Failed(0) /\ Works) \/ (Failed(1) /\ (Fault \/ Works))
    BY <2>9
  <2> HIDE DEF Failed
  <2>6. PICK new \in {0, 1} : /\ new = 0 => HaveStatus(p, me.reply.status[p])
                              /\ Failed(new) /\ (Fault \/ Works)
    BY <2>7
  <2> USE DEF Failed
  <2> DEFINE t == [me EXCEPT !.parts = @ \ {p}, !.part = p, !.pc = "storepart",
                                 !.failed = @ + 1, !.nfailed = @ + new]
  <2>2. thread' = [thread EXCEPT ![b] = t] /\ me.pc = "parts" /\ p \in Parts
        /\ UNCHANGED <<states, services, time, crashes>>
    BY <1>1, <1>12, <2>6 DEF LookPart, Set, At, Thread
  <2>3. /\ t.pc = "storepart" /\ SameRound(me, t) /\ SameVisits(me, t) /\ t.parts = me.parts \ {p}
        /\ t.part = p /\ t.failed = me.failed + 1 /\ t.nfailed = me.nfailed + new /\ t.ok = me.ok
    BY <1>1 DEF Thread
  <2>4. me.nfailed \in Nat
    BY <1>1 DEF Thread
  <2> HIDE DEF t
  <2>5. CountsFailed(me, t, p)
    BY <2>2, <2>3, <2>4, <2>6, <2>8 DEF CountsFailed, HaveStatus
  <2> QED
    BY <2>2, <2>5 DEF OneStep
<1>13. CASE StorePart(b)
  <2> DEFINE t == [me EXCEPT !.part = None, !.pc = "parts"]
  <2>1. thread' = [thread EXCEPT ![b] = t] /\ me.pc = "storepart"
        /\ UNCHANGED <<told, services, time, crashes>>
        /\ \/ partTable' = [partTable EXCEPT ![me.part] = me.reply.status[me.part]] /\ Works
           \/ Fault /\ UNCHANGED partTable
    BY <1>1, <1>13 DEF StorePart, Set, At
  <2>2. /\ t.pc = "parts" /\ SameRound(me, t) /\ SameVisits(me, t) /\ t.parts = me.parts
        /\ t.failed = me.failed /\ t.nfailed = me.nfailed /\ t.ok = me.ok
    BY <1>1 DEF Thread
  <2> HIDE DEF t
  <2>3. StoresFailed(me, t)
    BY <2>1, <2>2 DEF StoresFailed
  <2> QED
    BY <2>1, <2>3 DEF OneStep
<1>14. CASE PartsDone(b)
  <2> DEFINE t == [me EXCEPT !.pc = "history"]
  <2>1. /\ thread' = [thread EXCEPT ![b] = t] /\ me.pc = "parts" /\ me.parts = {}
        /\ UNCHANGED <<partTable, services, time, crashes>>
        /\ \/ /\ me.nfailed > 0 /\ Works
              /\ told' = [p \in Parts |-> IF p \in OfService(me.service) THEN me.reply.status[p] ELSE told[p]]
           \/ me.nfailed > 0 /\ Fault /\ UNCHANGED told
           \/ me.nfailed = 0 /\ Works /\ UNCHANGED told
    BY <1>1, <1>14 DEF PartsDone, Go, Set, At
  <2>2. t.pc = "history" /\ SameRound(me, t) /\ SameVisits(me, t) /\ SameTally(me, t)
    BY <1>1 DEF Thread
  <2> HIDE DEF t
  <2>3. Tells(me, t)
    BY <2>1, <2>2 DEF Tells
  <2> QED
    BY <2>1, <2>3 DEF OneStep
<1>15. CASE History(b)
  <2> DEFINE t == [me EXCEPT !.service = None, !.pc = "next", !.failed = 0, !.nfailed = 0, !.ok = 0]
  <2>1. /\ thread' = [thread EXCEPT ![b] = t] /\ me.pc = "history"
        /\ UNCHANGED <<known, states, time, crashes>>
        /\ \/ /\ history' = Put(history, <<me.service, me.ts>>, [failed |-> me.failed, missing |-> 0, ok |-> me.ok])
              /\ Works
           \/ Fault /\ UNCHANGED history
    BY <1>1, <1>15 DEF History, ResetCounters, Set, At
  <2>2. /\ t.pc = "next" /\ SameRound(me, t)
        /\ t.todo = me.todo /\ t.hosts = me.hosts /\ t.parts = me.parts /\ t.part = me.part
        /\ t.failed = 0 /\ t.nfailed = 0 /\ t.ok = 0
    BY <1>1 DEF Thread
  <2> HIDE DEF t
  <2>3. Records(me, t)
    BY <2>1, <2>2 DEF Records
  <2> QED
    BY <2>1, <2>3 DEF OneStep
<1>16. CASE Missing(b)
  <2>1. PICK h \in me.hosts : MissingStep(b, me, h)
    BY <1>1, <1>16, MissingSteps
  <2> DEFINE t == [me EXCEPT !.hosts = @ \ {h}]
  <2>2. /\ thread' = [thread EXCEPT ![b] = t] /\ me.pc = "next" /\ me.todo = {} /\ h \in STRING
        /\ UNCHANGED <<known, states, time, crashes>>
        /\ \/ /\ history' = [k \in DOMAIN history \cup Gone(h, me.ts) |->
                                IF k \in Gone(h, me.ts) THEN PartsMissing(k[1]) ELSE history[k]]
              /\ Works
           \/ Fault /\ UNCHANGED history
    BY <1>1, <1>16, <2>1 DEF Missing, MissingStep, Set, At, Thread
  <2>3. /\ t.pc = me.pc /\ SameRound(me, t) /\ t.todo = me.todo /\ t.hosts = me.hosts \ {h}
        /\ t.service = me.service /\ SameTally(me, t)
    BY <1>1 DEF Thread
  <2> HIDE DEF t
  <2>4. Misses(me, t, h)
    BY <2>1, <2>2, <2>3 DEF Misses
  <2> QED
    BY <2>2, <2>4 DEF OneStep
<1> QED
  BY <1>3, <1>4, <1>5, <1>6, <1>7, <1>8, <1>9, <1>10, <1>11, <1>12, <1>13, <1>14, <1>15, <1>16 DEF Collect

-----------------------------------------------------------------------------
(***************************************************************************)
(* Collects that do not overlap                                            *)
(***************************************************************************)
Collecting(t) == t.pc \notin {"down", "idle"}

\* No two rounds have one timestamp; who collects has the latest, and is alone
Alone ==
    /\ \A b \in Backends : thread[b].pc = "down" => thread[b].ts = 0
    /\ \A b, o \in Backends : b # o => thread[b].ts # thread[o].ts \/ thread[b].ts = 0
    /\ ~ overlap => \A b \in Backends : Collecting(thread[b]) =>
           thread[b].ts = clock /\ \A o \in Backends \ {b} : ~ Collecting(thread[o])

\* The parts still to visit are of the service, all of them before the first
Visits(t) ==
    /\ t.pc \in InService => t.parts \subseteq OfService(t.service)
    /\ t.pc \in {"log", "store"} => t.parts = OfService(t.service)
    /\ t.pc = "storepart" => t.part \in OfService(t.service) /\ t.reply.status[t.part] = "ko"

AllVisits == \A b \in Backends : Visits(thread[b])

LEMMA Paced ==
    ASSUME NEW b \in Backends, NEW me, NEW t, OneStep(b, me, t)
    PROVE  \/ Begins(b, me, t)
           \/ /\ UNCHANGED time
              /\ t.ts = me.ts \/ (t.ts = 0 /\ ~ Collecting(t))
              /\ t.pc = "down" => t.ts = 0
              /\ Collecting(t) => Collecting(me)
<1> USE DEF SameRound, Collecting
<1>1. CASE Rests(me, t)
  BY <1>1 DEF Rests
<1>2. CASE Dies(t)
  BY <1>2 DEF Dies, Fresh
<1>3. CASE Hears(me, t) \/ ReadsLogs(me, t) \/ StoresFailed(me, t) \/ Tells(me, t) \/ Records(me, t)
  BY <1>3 DEF Hears, ReadsLogs, StoresFailed, Tells, Records
<1>4. ASSUME NEW s \in Services, Visiting(me, t, s)
      PROVE  UNCHANGED time /\ t.ts = me.ts /\ t.pc # "down" /\ Collecting(me)
  BY <1>4 DEF Visiting
<1>5. ASSUME NEW p \in Parts, CountsOk(me, t, p) \/ CountsFailed(me, t, p)
      PROVE  UNCHANGED time /\ t.ts = me.ts /\ t.pc # "down" /\ Collecting(me)
  BY <1>5 DEF CountsOk, CountsFailed
<1>6. ASSUME NEW h \in STRING, Misses(me, t, h)
      PROVE  UNCHANGED time /\ t.ts = me.ts /\ t.pc # "down" /\ Collecting(me)
  BY <1>6 DEF Misses
<1> QED
  BY <1>1, <1>2, <1>3, <1>4, <1>5, <1>6 DEF OneStep

LEMMA AloneStep ==
    ASSUME Typed, Alone, NEW b \in Backends, NEW t, thread' = [thread EXCEPT ![b] = t],
           OneStep(b, thread[b], t)
    PROVE  Alone'
<1>1. thread'[b] = t /\ \A o \in Backends \ {b} : thread'[o] = thread[o]
  BY Others DEF Typed
<1>2. PICK me \in Thread : me = thread[b] /\ me.ts \in Nat
  BY Mine DEF Thread
<1>3. CASE Begins(b, me, t)
  <2>1. PICK n \in Nat : n = clock /\ \A o \in Backends : thread[o].ts \in Nat /\ thread[o].ts <= n
    BY DEF Typed, Tables, Place, Thread
  <2>2. t.ts = n + 1 /\ clock' = n + 1 /\ t.pc = "ask"
        /\ (~ overlap' => ~ overlap /\ \A o \in Backends \ {b} : ~ Collecting(thread[o]))
    BY <1>3, <2>1 DEF Begins, Collecting
  <2>3. ASSUME NEW o \in Backends \ {b} PROVE thread'[o].ts # t.ts /\ thread'[o].ts \in Nat
    <3>1. thread[o].ts \in Nat /\ thread[o].ts <= n
      BY <2>1
    <3> QED
      BY <1>1, <2>1, <2>2, <3>1
  <2>4. \A c, o \in Backends : c # o => thread'[c].ts # thread'[o].ts \/ thread'[c].ts = 0
    BY <1>1, <2>3 DEF Alone
  <2> QED
    BY <1>1, <2>2, <2>4 DEF Alone, Collecting
<1>4. CASE /\ UNCHANGED time
           /\ t.ts = me.ts \/ (t.ts = 0 /\ ~ Collecting(t))
           /\ t.pc = "down" => t.ts = 0
           /\ Collecting(t) => Collecting(me)
  <2>1. \A o \in Backends : thread'[o].pc = "down" => thread'[o].ts = 0
    BY <1>1, <1>4 DEF Alone
  <2>2. \A c, o \in Backends : c # o => thread'[c].ts # thread'[o].ts \/ thread'[c].ts = 0
    <3>1. ASSUME NEW c \in Backends, NEW o \in Backends, c # o, c # b, o # b
          PROVE  thread'[c].ts # thread'[o].ts \/ thread'[c].ts = 0
      BY <1>1, <3>1 DEF Alone
    <3>2. ASSUME NEW o \in Backends \ {b}
          PROVE  t.ts = 0 \/ t.ts # thread'[o].ts
      BY <1>1, <1>2, <1>4, <3>2 DEF Alone
    <3>3. ASSUME NEW c \in Backends \ {b}
          PROVE  thread'[c].ts # t.ts \/ thread'[c].ts = 0
      BY <1>1, <1>2, <1>4, <3>3 DEF Alone
    <3> QED
      BY <1>1, <3>1, <3>2, <3>3
  <2>3. overlap' = overlap /\ clock' = clock
    BY <1>4 DEF time
  <2>4. ASSUME ~ overlap, NEW c \in Backends, Collecting(thread'[c])
        PROVE  thread'[c].ts = clock /\ \A o \in Backends \ {c} : ~ Collecting(thread'[o])
    <3>1. Collecting(thread[c]) /\ thread'[c].ts = thread[c].ts
      BY <1>1, <1>2, <1>4, <2>4
    <3>2. thread[c].ts = clock /\ \A o \in Backends \ {c} : ~ Collecting(thread[o])
      BY <2>4, <3>1 DEF Alone
    <3> QED
      BY <1>1, <1>2, <1>4, <3>1, <3>2
  <2> QED
    BY <2>1, <2>2, <2>3, <2>4 DEF Alone
<1> QED
  BY <1>2, <1>3, <1>4, Paced

LEMMA VisitsStep ==
    ASSUME Typed, NEW b \in Backends, NEW t, NEW me \in Thread, Visits(me), OneStep(b, me, t)
    PROVE  Visits(t)
<1> USE DEF SameRound, SameVisits, SameTally, InService, Visits
<1>1. CASE Rests(me, t) \/ Begins(b, me, t) \/ Hears(me, t)
  BY <1>1 DEF Rests, Begins, Hears
<1>2. CASE Dies(t)
  BY <1>2 DEF Dies, Fresh
<1>3. CASE ReadsLogs(me, t)
  BY <1>3 DEF ReadsLogs
<1>4. CASE StoresFailed(me, t) \/ Tells(me, t) \/ Records(me, t)
  BY <1>4 DEF StoresFailed, Tells, Records
<1>5. ASSUME NEW s \in Services, Visiting(me, t, s) PROVE Visits(t)
  BY <1>5 DEF Visiting
<1>6. ASSUME NEW p \in Parts, CountsOk(me, t, p) PROVE Visits(t)
  BY <1>6 DEF CountsOk
<1>7. ASSUME NEW p \in Parts, CountsFailed(me, t, p) PROVE Visits(t)
  <2>1. me.reply.status[p] \in {"ok", "ko"}
    BY DEF Thread, Reply
  <2> QED
    BY <1>7, <2>1 DEF CountsFailed
<1>8. ASSUME NEW h \in STRING, Misses(me, t, h) PROVE Visits(t)
  BY <1>8 DEF Misses
<1> HIDE DEF Visits
<1> QED
  BY <1>1, <1>2, <1>3, <1>4, <1>5, <1>6, <1>7, <1>8 DEF OneStep

LEMMA AllVisitsStep ==
    ASSUME Typed, AllVisits, NEW b \in Backends, NEW t, thread' = [thread EXCEPT ![b] = t],
           OneStep(b, thread[b], t)
    PROVE  AllVisits'
<1>1. thread'[b] = t /\ \A o \in Backends \ {b} : thread'[o] = thread[o]
  BY Others DEF Typed
<1>2. Visits(t)
  BY Mine, VisitsStep DEF AllVisits
<1> QED
  BY <1>1, <1>2 DEF AllVisits

-----------------------------------------------------------------------------
(***************************************************************************)
(* A failed part that nobody was told of                                   *)
(***************************************************************************)
InParts(t) == t.pc \in {"parts", "storepart"}

\* The collect will tell of the parts of service s
WillTell(t, s) == InParts(t) /\ t.service = s /\ t.nfailed > 0

\* It found the part well, but could not store that
Missed(t, p) ==
    InParts(t) /\ t.service = ServiceOf[p] /\ p \notin t.parts /\ t.reply.status[p] = "ok"

\* Parts that may stay failed in the tables without an alert
Untold ==
    {p \in Parts :
        /\ partTable[p] = "ko"
        /\ \/ told[p] = "ok" /\ \A b \in Backends : ~ WillTell(thread[b], ServiceOf[p])
           \/ \E b \in Backends : Missed(thread[b], p)}

UntoldServices == {ServiceOf[p] : p \in Untold}

FewUntold == Cardinality(UntoldServices) <= crashes + faults

\* A failure that is not new is in the table already
OldFailure(t) == t.pc = "storepart" /\ t.nfailed = 0 => partTable[t.part] = "ko"

ToldInv ==
    /\ Alone /\ AllVisits
    /\ ~ overlap => /\ \A b \in Backends : OldFailure(thread[b])
                    /\ FewUntold

LEMMA UntoldFinite == IsFiniteSet(UntoldServices) /\ Cardinality(UntoldServices) \in Nat
<1>1. IsFiniteSet(Untold)
  BY PartsFinite DEF Untold
<1> DEFINE f == [p \in Untold |-> ServiceOf[p]]
<1>2. f \in [Untold -> UntoldServices] /\ \A s \in UntoldServices : \E p \in Untold : f[p] = s
  BY DEF UntoldServices
<1>3. f \in Surjection(Untold, UntoldServices)
  BY <1>2 DEF Surjection
<1> HIDE DEF f
<1> QED
  BY <1>1, <1>3, FS_Surjection, FS_CardinalityType

\* What a step may cost: nothing, or service s if something went wrong
CostsNothing == Untold' \subseteq Untold /\ crashes + faults <= crashes' + faults'
CostsOne(s) ==
    /\ \A p \in Untold' \ Untold : ServiceOf[p] = s
    /\ crashes + faults + 1 <= crashes' + faults'

LEMMA UntoldStep ==
    ASSUME Typed, Typed', FewUntold, NEW s, CostsNothing \/ CostsOne(s)
    PROVE  FewUntold'
<1>1. PICK m \in Nat : m = crashes + faults
  BY DEF Typed, Tables
<1>2. PICK n \in Nat : n = crashes' + faults'
  <2>1. PICK x \in Nat : x = crashes'
    BY DEF Typed, Tables
  <2>2. PICK y \in Nat : y = faults'
    BY DEF Typed, Tables
  <2>3. x + y \in Nat
    OBVIOUS
  <2> QED
    BY <2>1, <2>2, <2>3
<1>3. IsFiniteSet(UntoldServices) /\ IsFiniteSet(UntoldServices')
  <2>1. IsFiniteSet(UntoldServices)
    BY UntoldFinite
  <2>2. IsFiniteSet(UntoldServices)'
    BY UntoldFinite, PTL
  <2> QED
    BY <2>1, <2>2
<1>4. ASSUME Untold' \subseteq Untold, m <= n PROVE FewUntold'
  <2>1. UntoldServices' \subseteq UntoldServices
    BY <1>4 DEF UntoldServices
  <2>2. PICK c \in Nat : c = Cardinality(UntoldServices)
    BY UntoldFinite
  <2>3. PICK d \in Nat : d = Cardinality(UntoldServices')
    BY <1>3, FS_CardinalityType
  <2>4. d <= c
    BY <1>3, <2>1, <2>2, <2>3, FS_Subset
  <2>5. c <= m
    BY <1>1, <2>2 DEF FewUntold
  <2>6. d <= n
    BY <1>4, <2>4, <2>5
  <2> QED
    BY <1>2, <2>3, <2>6 DEF FewUntold
<1>5. ASSUME \A p \in Untold' \ Untold : ServiceOf[p] = s, m + 1 <= n PROVE FewUntold'
  <2>1. UntoldServices' \subseteq UntoldServices \cup {s}
    BY <1>5 DEF UntoldServices
  <2>2. PICK c \in Nat : c = Cardinality(UntoldServices)
    BY UntoldFinite
  <2>3. PICK d \in Nat : d = Cardinality(UntoldServices')
    BY <1>3, FS_CardinalityType
  <2>4. IsFiniteSet(UntoldServices \cup {s})
        /\ Cardinality(UntoldServices \cup {s}) = IF s \in UntoldServices THEN c ELSE c + 1
    BY <1>3, <2>2, FS_AddElement
  <2>5. Cardinality(UntoldServices \cup {s}) \in Nat
    BY <2>4, FS_CardinalityType
  <2>6. d <= Cardinality(UntoldServices \cup {s})
    BY <2>1, <2>3, <2>4, FS_Subset
  <2>7. d <= c + 1
    BY <2>4, <2>5, <2>6
  <2>8. c <= m
    BY <1>1, <2>2 DEF FewUntold
  <2>9. d <= n
    BY <1>5, <2>7, <2>8
  <2> QED
    BY <1>2, <2>3, <2>9 DEF FewUntold
<1> QED
  BY <1>1, <1>2, <1>4, <1>5 DEF CostsNothing, CostsOne

\* A collect that has not begun with the parts, or is through with them
Plain(t) == InParts(t) => t.nfailed = 0 /\ t.parts = OfService(t.service)

\* The untold parts, as long as nobody but t is in the loop over the parts
UntoldBy(t, table, told_) ==
    {p \in Parts : /\ table[p] = "ko"
                   /\ (told_[p] = "ok" /\ ~ WillTell(t, ServiceOf[p])) \/ Missed(t, p)}

LEMMA PlainUntold ==
    ASSUME NEW t, Plain(t), NEW p \in Parts
    PROVE  ~ Missed(t, p) /\ ~ WillTell(t, ServiceOf[p])
  BY DEF Plain, Missed, WillTell, OfService

LEMMA UntoldOutside ==
    ASSUME Typed, NEW b \in Backends, NEW t, thread' = [thread EXCEPT ![b] = t],
           Plain(thread[b]), Plain(t), UNCHANGED states
    PROVE  Untold' = Untold
<1>1. thread'[b] = t /\ \A o \in Backends \ {b} : thread'[o] = thread[o]
  BY Others DEF Typed
<1>2. ASSUME NEW p \in Parts
      PROVE  /\ ~ Missed(t, p) /\ ~ WillTell(t, ServiceOf[p])
             /\ ~ Missed(thread[b], p) /\ ~ WillTell(thread[b], ServiceOf[p])
  BY PlainUntold
<1>3. ASSUME NEW p \in Parts
      PROVE  /\ (\E o \in Backends : Missed(thread'[o], p)) <=> (\E o \in Backends : Missed(thread[o], p))
             /\ (\A o \in Backends : ~ WillTell(thread'[o], ServiceOf[p]))
                    <=> (\A o \in Backends : ~ WillTell(thread[o], ServiceOf[p]))
  BY <1>1, <1>2
<1>4. UNCHANGED <<partTable, told>>
  BY DEF states
<1> QED
  BY <1>3, <1>4 DEF Untold

LEMMA UntoldInside ==
    ASSUME Typed, Alone, ~ overlap, NEW b \in Backends, Collecting(thread[b]),
           NEW t, thread' = [thread EXCEPT ![b] = t]
    PROVE  /\ Untold = UntoldBy(thread[b], partTable, told)
           /\ Untold' = UntoldBy(t, partTable', told')
           /\ \A o \in Backends \ {b} : ~ InParts(thread[o]) /\ thread'[o] = thread[o]
           /\ thread'[b] = t
<1>1. thread'[b] = t /\ \A o \in Backends \ {b} : thread'[o] = thread[o]
  BY Others DEF Typed
<1>2. \A o \in Backends \ {b} : ~ InParts(thread[o])
  BY DEF Alone, Collecting, InParts
<1>3. \A o \in Backends \ {b}, p \in Parts :
          ~ Missed(thread[o], p) /\ ~ WillTell(thread[o], ServiceOf[p])
  BY <1>2 DEF Missed, WillTell
<1>4. \A o \in Backends \ {b}, p \in Parts :
          ~ Missed(thread'[o], p) /\ ~ WillTell(thread'[o], ServiceOf[p])
  BY <1>1, <1>3
<1>5. Untold = UntoldBy(thread[b], partTable, told)
  BY <1>3 DEF Untold, UntoldBy
<1>6. Untold' = UntoldBy(t, partTable', told')
  BY <1>1, <1>4 DEF Untold, UntoldBy
<1> QED
  BY <1>1, <1>2, <1>5, <1>6

\* What happens in one service costs one at most
LEMMA UntoldLocal ==
    ASSUME NEW me, NEW t, NEW p \in Parts, NEW T, NEW T2, NEW A, NEW A2,
           InParts(me) => me.service # ServiceOf[p], InParts(t) => t.service # ServiceOf[p],
           T2[p] = T[p], A2[p] = A[p], p \in UntoldBy(t, T2, A2)
    PROVE  p \in UntoldBy(me, T, A)
<1>1. ~ Missed(t, p) /\ ~ WillTell(me, ServiceOf[p])
  BY DEF Missed, WillTell
<1>2. T[p] = "ko" /\ A[p] = "ok"
  BY <1>1 DEF UntoldBy
<1> QED
  BY <1>1, <1>2 DEF UntoldBy

LEMMA FaultCosts ==
    ASSUME Typed, Typed', Fault, UNCHANGED crashes
    PROVE  crashes + faults + 1 <= crashes' + faults'
<1>1. PICK x \in Nat : x = crashes
  BY DEF Typed, Tables
<1>2. PICK y \in Nat : y = faults
  BY DEF Typed, Tables
<1>3. faults' = y + 1 /\ crashes' = x
  BY <1>1, <1>2 DEF Fault
<1> QED
  BY <1>1, <1>2, <1>3

LEMMA NoCost ==
    ASSUME Typed, Typed', Fault \/ Works, UNCHANGED crashes
    PROVE  crashes + faults <= crashes' + faults'
<1>1. PICK x \in Nat : x = crashes
  BY DEF Typed, Tables
<1>2. PICK y \in Nat : y = faults
  BY DEF Typed, Tables
<1>3. (faults' = y \/ faults' = y + 1) /\ crashes' = x
  BY <1>1, <1>2 DEF Fault, Works
<1>4. x + y <= x + y /\ x + y <= x + (y + 1)
  OBVIOUS
<1> QED
  BY <1>1, <1>2, <1>3, <1>4

LEMMA CrashCosts ==
    ASSUME Typed, Typed', UNCHANGED faults, crashes' = crashes + 1
    PROVE  crashes + faults + 1 <= crashes' + faults'
<1>1. PICK x \in Nat : x = crashes
  BY DEF Typed, Tables
<1>2. PICK y \in Nat : y = faults
  BY DEF Typed, Tables
<1>3. faults' = y /\ crashes' = x + 1
  BY <1>1, <1>2
<1> QED
  BY <1>1, <1>2, <1>3

\* The first part of the invariant for the thread that moves, the second for the count
LEMMA CollectTold ==
    ASSUME Typed, Typed', Alone, ~ overlap, FewUntold, NEW b \in Backends,
           NEW t, thread' = [thread EXCEPT ![b] = t],
           NEW me \in Thread, me = thread[b], Sums(me), Visits(me), OldFailure(me), OneStep(b, me, t)
    PROVE  FewUntold' /\ OldFailure(t)'
<1> DEFINE s == me.service
<1> USE DEF SameRound, SameVisits, SameTally
<1>0. partTable \in [Parts -> {"ok", "ko", None}] /\ told \in [Parts -> {"ok", "ko"}]
  BY DEF Typed, Tables
<1>2. ASSUME Plain(me), Plain(t), UNCHANGED states, t.pc # "storepart",
             crashes + faults <= crashes' + faults'
      PROVE  FewUntold' /\ OldFailure(t)'
  <2>1. CostsNothing
    BY <1>2, UntoldOutside DEF CostsNothing
  <2> QED
    BY <1>2, <2>1, UntoldStep DEF OldFailure
<1>3. CASE Rests(me, t) \/ Begins(b, me, t) \/ Hears(me, t)
  <2>1. Plain(me) /\ Plain(t) /\ t.pc # "storepart" /\ UNCHANGED states
    BY <1>3 DEF Rests, Begins, Hears, Plain, InParts
  <2>2. crashes + faults <= crashes' + faults'
    BY <1>3, NoCost DEF Rests, Begins, Hears, Works
  <2> QED
    BY <1>2, <2>1, <2>2
<1>4. ASSUME NEW r \in Services, Visiting(me, t, r) PROVE FewUntold' /\ OldFailure(t)'
  <2>1. Plain(me) /\ Plain(t) /\ t.pc # "storepart" /\ UNCHANGED states
    BY <1>4 DEF Visiting, Plain, InParts
  <2>2. crashes + faults <= crashes' + faults'
    BY <1>4, NoCost DEF Visiting, Works
  <2> QED
    BY <1>2, <2>1, <2>2
<1>5. CASE ReadsLogs(me, t)
  <2>1. me.nfailed = 0 /\ me.parts = OfService(me.service)
    BY <1>5 DEF ReadsLogs, Sums, Visits
  <2>2. Plain(me) /\ Plain(t) /\ t.pc # "storepart" /\ UNCHANGED states
    BY <1>5, <2>1 DEF ReadsLogs, Plain, InParts
  <2>3. crashes + faults <= crashes' + faults'
    BY <1>5, NoCost DEF ReadsLogs
  <2> QED
    BY <1>2, <2>2, <2>3
<1>6. CASE Records(me, t)
  <2>1. Plain(me) /\ Plain(t) /\ t.pc # "storepart" /\ UNCHANGED states
    BY <1>6 DEF Records, Plain, InParts
  <2>2. crashes + faults <= crashes' + faults'
    BY <1>6, NoCost DEF Records
  <2> QED
    BY <1>2, <2>1, <2>2
<1>7. ASSUME NEW h \in STRING, Misses(me, t, h) PROVE FewUntold' /\ OldFailure(t)'
  <2>1. Plain(me) /\ Plain(t) /\ t.pc # "storepart" /\ UNCHANGED states
    BY <1>7 DEF Misses, Plain, InParts
  <2>2. crashes + faults <= crashes' + faults'
    BY <1>7, NoCost DEF Misses
  <2> QED
    BY <1>2, <2>1, <2>2
<1>8. CASE Dies(t)
  <2>1. ~ InParts(t) /\ Plain(t) /\ UNCHANGED <<partTable, told>> /\ OldFailure(t)'
    BY <1>8 DEF Dies, Fresh, InParts, Plain, OldFailure, states
  <2>2. CASE ~ Collecting(me)
    <3>1. Plain(me) /\ UNCHANGED states
      BY <1>8, <2>2 DEF Plain, InParts, Collecting, Dies
    <3>2. crashes + faults <= crashes' + faults'
      <4>1. PICK x \in Nat : x = crashes
        BY DEF Typed, Tables
      <4>2. PICK y \in Nat : y = faults
        BY DEF Typed, Tables
      <4>3. crashes' = x + 1 /\ faults' = y
        BY <1>8, <4>1, <4>2 DEF Dies
      <4> QED
        BY <4>1, <4>2, <4>3
    <3>3. CostsNothing
      BY <2>1, <3>1, <3>2, UntoldOutside DEF CostsNothing
    <3> QED
      BY <2>1, <3>3, UntoldStep
  <2>3. CASE Collecting(me)
    <3>1. /\ Untold = UntoldBy(me, partTable, told)
          /\ Untold' = UntoldBy(t, partTable', told')
      BY <2>3, UntoldInside
    <3>7. PICK T, A : T = partTable' /\ A = told' /\ T = partTable /\ A = told
      BY <2>1
    <3>2. \A p \in UntoldBy(t, partTable', told') \ UntoldBy(me, partTable, told) : ServiceOf[p] = s
      <4>1. ASSUME NEW p \in Parts, p \in UntoldBy(t, T, A), ServiceOf[p] # s
            PROVE  p \in UntoldBy(me, T, A)
        BY <2>1, <4>1, UntoldLocal
      <4>2. UntoldBy(t, T, A) \subseteq Parts
        BY DEF UntoldBy
      <4> QED
        BY <3>7, <4>1, <4>2
    <3>3. crashes + faults + 1 <= crashes' + faults'
      BY <1>8, CrashCosts DEF Dies
    <3>4. CostsOne(s)
      BY <3>1, <3>2, <3>3 DEF CostsOne
    <3> HIDE DEF s
    <3> QED
      BY <2>1, <3>4, UntoldStep
  <2> QED
    BY <2>2, <2>3
<1>9. ASSUME InParts(me), Fault, UNCHANGED crashes, InParts(t) => t.service = s,
             \A p \in Parts : ServiceOf[p] # s => partTable'[p] = partTable[p] /\ told'[p] = told[p]
      PROVE  FewUntold'
  <2>1. /\ Untold = UntoldBy(me, partTable, told)
        /\ Untold' = UntoldBy(t, partTable', told')
    BY <1>9, UntoldInside DEF InParts, Collecting
  <2>7. PICK T2, A2 : T2 = partTable' /\ A2 = told'
    OBVIOUS
  <2>8. PICK T, A : T = partTable /\ A = told
    OBVIOUS
  <2>9. ASSUME NEW p \in Parts, p \in UntoldBy(t, T2, A2), ServiceOf[p] # s
        PROVE  p \in UntoldBy(me, T, A)
    <3>1. T2[p] = T[p] /\ A2[p] = A[p]
      BY <1>9, <2>7, <2>8, <2>9
    <3> QED
      BY <1>9, <2>9, <3>1, UntoldLocal
  <2>10. UntoldBy(t, T2, A2) \subseteq Parts
    BY DEF UntoldBy
  <2>2. \A p \in UntoldBy(t, partTable', told') \ UntoldBy(me, partTable, told) : ServiceOf[p] = s
    BY <2>7, <2>8, <2>9, <2>10
  <2>3. crashes + faults + 1 <= crashes' + faults'
    BY <1>9, FaultCosts
  <2>4. CostsOne(s)
    BY <2>1, <2>2, <2>3 DEF CostsOne
  <2> HIDE DEF s
  <2> QED
    BY <2>4, UntoldStep
<1>10. ASSUME InParts(me), Fault \/ Works, UNCHANGED crashes,
              UntoldBy(t, partTable', told') \subseteq UntoldBy(me, partTable, told)
      PROVE  FewUntold'
  <2>1. /\ Untold = UntoldBy(me, partTable, told)
        /\ Untold' = UntoldBy(t, partTable', told')
    BY <1>10, UntoldInside DEF InParts, Collecting
  <2>2. CostsNothing
    BY <1>10, <2>1, NoCost DEF CostsNothing
  <2> QED
    BY <2>2, UntoldStep
<1>11. ASSUME NEW p \in Parts, CountsOk(me, t, p) PROVE FewUntold' /\ OldFailure(t)'
  <2>1. OldFailure(t)' /\ InParts(me) /\ InParts(t) /\ t.service = s /\ UNCHANGED crashes
        /\ t.nfailed = me.nfailed /\ t.parts = me.parts \ {p} /\ t.reply = me.reply
    BY <1>11 DEF CountsOk, OldFailure, InParts
  <2>2. CASE Fault /\ UNCHANGED states
    BY <1>9, <2>1, <2>2 DEF states
  <2>3. CASE /\ partTable' = [partTable EXCEPT ![p] = "ok"] /\ told' = [told EXCEPT ![p] = "ok"]
             /\ Works
    <3>1. partTable'[p] = "ok" /\ \A q \in Parts \ {p} : partTable'[q] = partTable[q] /\ told'[q] = told[q]
      BY <1>0, <2>3
    <3>2. UntoldBy(t, partTable', told') \subseteq UntoldBy(me, partTable, told)
      BY <2>1, <3>1 DEF UntoldBy, WillTell, Missed, InParts
    <3> QED
      BY <1>10, <2>1, <2>3, <3>2
  <2> QED
    BY <1>11, <2>2, <2>3 DEF CountsOk
<1>12. ASSUME NEW p \in Parts, CountsFailed(me, t, p) PROVE FewUntold' /\ OldFailure(t)'
  <2>1. InParts(me) /\ InParts(t) /\ t.service = s /\ UNCHANGED <<crashes, partTable, told>>
        /\ t.parts = me.parts \ {p} /\ t.reply = me.reply /\ me.reply.status[p] # "ok" /\ t.part = p
        /\ ((t.nfailed = me.nfailed /\ partTable[p] = me.reply.status[p]) \/ t.nfailed = me.nfailed + 1)
        /\ (Fault \/ Works)
    BY <1>12 DEF CountsFailed, InParts, states
  <2>2. me.nfailed \in Nat /\ me.reply.status[p] \in {"ok", "ko"}
    BY DEF Thread, Reply
  <2>3. t.nfailed = 0 => me.nfailed = 0
    BY <2>1, <2>2
  <2>4. OldFailure(t)'
    BY <2>1, <2>2, <2>3 DEF OldFailure
  <2>5. me.nfailed > 0 => t.nfailed > 0
    BY <2>1, <2>2
  <2>7. \A q \in Parts : /\ Missed(t, q) => Missed(me, q)
                         /\ WillTell(me, ServiceOf[q]) => WillTell(t, ServiceOf[q])
    BY <2>1, <2>5 DEF WillTell, Missed
  <2>6. UntoldBy(t, partTable', told') \subseteq UntoldBy(me, partTable, told)
    BY <2>1, <2>7 DEF UntoldBy
  <2> QED
    BY <1>10, <2>1, <2>4, <2>6
<1>13. CASE StoresFailed(me, t)
  <2>1. InParts(me) /\ InParts(t) /\ t.service = s /\ UNCHANGED <<crashes, told>>
        /\ t.parts = me.parts /\ t.reply = me.reply /\ t.nfailed = me.nfailed
        /\ me.pc = "storepart" /\ t.pc = "parts"
    BY <1>13 DEF StoresFailed, InParts
  <2>2. OldFailure(t)'
    BY <2>1 DEF OldFailure
  <2>3. me.part \in Parts /\ ServiceOf[me.part] = s /\ me.reply.status[me.part] = "ko"
    BY <2>1 DEF Visits, OfService
  <2>4. CASE Fault /\ UNCHANGED partTable
    BY <1>9, <2>1, <2>2, <2>4
  <2>5. CASE partTable' = [partTable EXCEPT ![me.part] = me.reply.status[me.part]] /\ Works
    <3>1. \A q \in Parts \ {me.part} : partTable'[q] = partTable[q]
      BY <1>0, <2>5
    <3>2. me.nfailed = 0 => partTable[me.part] = "ko"
      BY <2>1 DEF OldFailure
    <3>3. me.nfailed \in Nat
      BY DEF Thread
    <3>4. me.part \in UntoldBy(t, partTable', told') => me.part \in UntoldBy(me, partTable, told)
      BY <2>1, <2>3, <3>2, <3>3 DEF UntoldBy, WillTell, Missed, InParts
    <3>5. UntoldBy(t, partTable', told') \subseteq UntoldBy(me, partTable, told)
      BY <2>1, <3>1, <3>4 DEF UntoldBy, WillTell, Missed, InParts
    <3> QED
      BY <1>10, <2>1, <2>2, <2>5, <3>5
  <2> QED
    BY <1>13, <2>4, <2>5 DEF StoresFailed
<1>14. CASE Tells(me, t)
  <2>1. InParts(me) /\ ~ InParts(t) /\ t.pc = "history" /\ me.parts = {} /\ UNCHANGED <<crashes, partTable>>
    BY <1>14 DEF Tells, InParts
  <2>2. OldFailure(t)'
    BY <2>1 DEF OldFailure
  <2>3. me.nfailed \in Nat
    BY DEF Thread
  <2>4. CASE Fault /\ UNCHANGED told
    BY <1>9, <2>1, <2>2, <2>4
  <2>5. CASE me.nfailed = 0 /\ Works /\ UNCHANGED told
    <3>2. \A p \in Parts : ~ Missed(t, p) /\ ~ WillTell(me, ServiceOf[p])
      BY <2>1, <2>5 DEF WillTell, Missed
    <3>1. UntoldBy(t, partTable', told') \subseteq UntoldBy(me, partTable, told)
      BY <2>1, <2>5, <3>2 DEF UntoldBy
    <3> QED
      BY <1>10, <2>1, <2>2, <2>5, <3>1
  <2>6. CASE /\ Works
             /\ told' = [p \in Parts |-> IF p \in OfService(s) THEN me.reply.status[p] ELSE told[p]]
    <3>1. ASSUME NEW p \in UntoldBy(t, partTable', told') PROVE p \in UntoldBy(me, partTable, told)
      <4>1. p \in Parts /\ partTable[p] = "ko" /\ told'[p] = "ok"
        BY <2>1, <3>1 DEF UntoldBy, Missed
      <4>2. CASE ServiceOf[p] = s
        <5>1. me.reply.status[p] = "ok"
          BY <2>6, <4>1, <4>2 DEF OfService
        <5> QED
          BY <2>1, <4>1, <4>2, <5>1 DEF UntoldBy, Missed
      <4>3. CASE ServiceOf[p] # s
        <5>1. told[p] = "ok"
          BY <2>6, <4>1, <4>3 DEF OfService
        <5> QED
          BY <4>1, <4>3, <5>1 DEF UntoldBy, WillTell
      <4> QED
        BY <4>2, <4>3
    <3> QED
      BY <1>10, <2>1, <2>2, <2>6, <3>1
  <2> QED
    BY <1>14, <2>4, <2>5, <2>6 DEF Tells
<1> HIDE DEF s
<1> QED
  BY <1>3, <1>4, <1>5, <1>6, <1>7, <1>8, <1>11, <1>12, <1>13, <1>14 DEF OneStep

LEMMA NextTold ==
    ASSUME Inv, Inv', ToldInv, [Next]_vars
    PROVE  ToldInv'
<1>0. Typed /\ Typed' /\ Summed
  BY DEF Inv
<1>1. CASE AgentLogs \/ AgentChanges \/ UNCHANGED vars
  <2>1. UNCHANGED <<states, time, thread, crashes, faults>>
    BY <1>1 DEF AgentLogs, AgentChanges, vars
  <2>2. UNCHANGED <<partTable, told, overlap, clock>>
    BY <2>1 DEF states, time
  <2>3. Alone' /\ AllVisits'
    BY <2>1, <2>2 DEF ToldInv, Alone, AllVisits
  <2>4. Untold' = Untold
    BY <2>1, <2>2 DEF Untold
  <2>5. FewUntold => FewUntold'
    BY <2>1, <2>4 DEF FewUntold, UntoldServices
  <2>6. (\A b \in Backends : OldFailure(thread[b])) => \A b \in Backends : OldFailure(thread[b])'
    BY <2>1, <2>2 DEF OldFailure
  <2> QED
    BY <2>2, <2>3, <2>5, <2>6 DEF ToldInv
<1>2. ASSUME NEW b \in Backends, Start(b) \/ Crash(b) \/ Collect(b) PROVE ToldInv'
  <2>1. PICK t : thread' = [thread EXCEPT ![b] = t] /\ OneStep(b, thread[b], t)
    BY <1>0, <1>2, Steps
  <2>2. PICK me \in Thread : me = thread[b] /\ Sums(me) /\ Visits(me)
    BY <1>0, Mine DEF Summed, ToldInv, AllVisits
  <2>3. Alone' /\ AllVisits'
    BY <1>0, <2>1, AloneStep, AllVisitsStep DEF ToldInv
  <2>4. thread'[b] = t /\ \A o \in Backends \ {b} : thread'[o] = thread[o]
    BY <1>0, <2>1, Others DEF Typed
  <2>5. ASSUME ~ overlap' PROVE FewUntold' /\ \A o \in Backends : OldFailure(thread[o])'
    <3>1. ~ overlap
      BY <2>1, <2>5, Paced DEF Begins, time
    <3>2. FewUntold /\ \A o \in Backends : OldFailure(thread[o])
      BY <3>1 DEF ToldInv
    <3>3. FewUntold' /\ OldFailure(t)'
      BY <1>0, <2>1, <2>2, <3>1, <3>2, CollectTold DEF ToldInv
    <3>4. ASSUME NEW o \in Backends \ {b} PROVE OldFailure(thread[o])'
      <4>1. CASE Collecting(thread[b])
        <5>1. thread'[o].pc # "storepart"
          BY <2>4, <3>1, <3>4, <4>1 DEF ToldInv, Alone, Collecting
        <5> QED
          BY <5>1 DEF OldFailure
      <4>2. CASE ~ Collecting(thread[b])
        <5>1. UNCHANGED partTable
          <6>1. Rests(me, t) \/ Dies(t) \/ Begins(b, me, t)
            BY <2>1, <2>2, <4>2 DEF OneStep, Collecting, Hears, Visiting, ReadsLogs, CountsOk,
               CountsFailed, StoresFailed, Tells, Records, Misses
          <6> QED
            BY <6>1 DEF Rests, Dies, Begins, states
        <5>2. thread'[o] = thread[o] /\ OldFailure(thread[o])
          BY <2>4, <3>2, <3>4
        <5> QED
          BY <5>1, <5>2 DEF OldFailure
      <4> QED
        BY <4>1, <4>2
    <3> QED
      BY <2>4, <3>3, <3>4
  <2> QED
    BY <2>3, <2>5 DEF ToldInv
<1> QED
  BY <1>1, <1>2 DEF Next

LEMMA InitTold == Init => ToldInv
<1> SUFFICES ASSUME Init PROVE ToldInv
  OBVIOUS
<1>1. \A b \in Backends : thread[b] = Fresh
  BY DEF Init
<1>2. Alone /\ AllVisits /\ \A b \in Backends : OldFailure(thread[b])
  BY <1>1 DEF Alone, AllVisits, Visits, OldFailure, Fresh, Collecting, InService
<1>3. Untold = {}
  BY DEF Init, Untold, None
<1>4. UntoldServices = {}
  BY <1>3 DEF UntoldServices
<1>5. Cardinality(UntoldServices) = 0 /\ crashes = 0 /\ faults = 0
  BY <1>4, FS_EmptySet DEF Init
<1>6. FewUntold
  BY <1>5 DEF FewUntold
<1> QED
  BY <1>2, <1>6 DEF ToldInv

\* A failed part that the tables show was shown in an alert since it was last ok, but for
\* one service for each crash and each failed statement: whatever was found failed before
\* the tables were written is told at the end of the service (agentClient.cpp:302), if no
\* other backend collected meanwhile.
THEOREM FailuresTold == Spec => []FailureTold
<1>1. Init => Inv /\ ToldInv
  BY InitTyped, SumsInit, InitTold DEF Inv
<1>2. Inv /\ ToldInv /\ [Next]_vars => Inv' /\ ToldInv'
  <2>1. Inv /\ [Next]_vars => Inv'
    BY NextTyped, NextSummed DEF Inv
  <2> QED
    BY <2>1, NextTold
<1>3. Inv /\ ToldInv => FailureTold
  <2> SUFFICES ASSUME Inv, ToldInv, AtRest, ~ overlap PROVE FailureTold
    BY DEF FailureTold
  <2>1. \A b \in Backends : ~ InParts(thread[b])
    BY DEF AtRest, At, InParts
  <2>2. Untold = {q \in Parts : partTable[q] = "ko" /\ told[q] = "ok"}
    BY <2>1 DEF Untold, Missed, WillTell
  <2>3. UntoldServices = {ServiceOf[p] : p \in {q \in Parts : partTable[q] = "ko" /\ told[q] = "ok"}}
    BY <2>2 DEF UntoldServices
  <2> QED
    BY <2>3 DEF ToldInv, FewUntold, FailureTold
<1> QED
  BY <1>1, <1>2, <1>3, PTL DEF Spec

-----------------------------------------------------------------------------
(***************************************************************************)
(* The rows of a round                                                     *)
(***************************************************************************)
\* The parts of a service that a reply shows well, or not
PartsThat(s, r, well) == {p \in OfService(s) : (r.status[p] = "ok") = well}

RowOf(s, r) == [failed  |-> Cardinality(PartsThat(s, r, FALSE)), missing |-> 0,
                ok      |-> Cardinality(PartsThat(s, r, TRUE))]

\* The counters count the parts visited
Counted(t) ==
    t.pc \in InService =>
        /\ t.failed = Cardinality(PartsThat(t.service, t.reply, FALSE) \ t.parts)
        /\ t.ok = Cardinality(PartsThat(t.service, t.reply, TRUE) \ t.parts)

\* What the table says of the round of t
Kept(s, t) == <<s, t.ts>> \in DOMAIN history /\ history[<<s, t.ts>>] = RowOf(s, t.reply)
Full(h, t) == \A s \in known : HostOf[s] = h => <<s, t.ts>> \in DOMAIN history
NoRows(t)  == \A s \in Services : <<s, t.ts>> \notin DOMAIN history

\* Services the loop is through with have their row; hosts that are no longer to be
\* looked at have one for each service
Going(t) ==
    /\ t.todo \subseteq t.reply.up
    /\ t.pc \in InService => t.service \in t.reply.up \ t.todo
    /\ \A s \in t.reply.up \ t.todo :
          /\ (t.pc \in InService /\ s = t.service) \/ Kept(s, t)
          /\ HostOf[s] \in t.hosts \/ (t.todo = {} /\ t.pc = "next" /\ Full(HostOf[s], t))

Over(t) == \A s \in t.reply.up : Kept(s, t) /\ Full(HostOf[s], t)

Stage(t) ==
    /\ t.pc = "ask" => NoRows(t)
    /\ t.pc \in InService \cup {"next"} => Going(t)
    /\ t.pc = "idle" => NoRows(t) \/ Over(t)

RoundInv ==
    /\ Alone /\ AllVisits
    /\ ~ overlap /\ faults = 0 =>
           \A b \in Backends : Counted(thread[b]) /\ (thread[b].ts = clock => Stage(thread[b]))

LEMMA PartsThatFinite ==
    ASSUME NEW s, NEW r, NEW well, NEW S
    PROVE  /\ PartsThat(s, r, well) \ S \in SUBSET Parts
           /\ IsFiniteSet(PartsThat(s, r, well) \ S)
           /\ Cardinality(PartsThat(s, r, well) \ S) \in Nat
<1>1. PartsThat(s, r, well) \ S \in SUBSET Parts
  BY DEF PartsThat, OfService
<1> QED
  BY <1>1, PartsFinite

LEMMA CountedStep ==
    ASSUME Typed, NEW b \in Backends, NEW t, NEW me \in Thread,
           Sums(me), Visits(me), Counted(me), OneStep(b, me, t)
    PROVE  Counted(t)
<1> USE DEF SameRound, SameVisits, SameTally
<1>1. CASE Rests(me, t) \/ Begins(b, me, t) \/ Hears(me, t) \/ Records(me, t)
  BY <1>1 DEF Rests, Begins, Hears, Records, Counted, InService
<1>2. CASE Dies(t)
  BY <1>2 DEF Dies, Fresh, Counted, InService
<1>3. CASE ReadsLogs(me, t)
  BY <1>3 DEF ReadsLogs, Counted, InService
<1>4. CASE StoresFailed(me, t)
  BY <1>4 DEF StoresFailed, Counted, InService
<1>5. CASE Tells(me, t)
  BY <1>5 DEF Tells, Counted, InService
<1>6. ASSUME NEW h \in STRING, Misses(me, t, h) PROVE Counted(t)
  BY <1>6 DEF Misses, Counted, InService
<1>7. ASSUME NEW s \in Services, Visiting(me, t, s) PROVE Counted(t)
  <2>1. me.failed = 0 /\ me.ok = 0
    BY <1>7 DEF Visiting, Sums
  <2>2. t.failed = 0 /\ t.ok = 0 /\ t.service = s /\ t.parts = OfService(s)
    BY <1>7, <2>1 DEF Visiting
  <2>3. /\ PartsThat(s, t.reply, FALSE) \ OfService(s) = {}
        /\ PartsThat(s, t.reply, TRUE) \ OfService(s) = {}
    BY DEF PartsThat
  <2>4. Cardinality({}) = 0
    BY FS_EmptySet
  <2> QED
    BY <2>2, <2>3, <2>4 DEF Counted
<1>8. ASSUME NEW p \in Parts, CountsOk(me, t, p) PROVE Counted(t)
  <2>1. /\ me.pc \in InService /\ t.service = me.service /\ t.reply = me.reply
        /\ p \in me.parts /\ me.reply.status[p] = "ok" /\ t.parts = me.parts \ {p}
        /\ t.failed = me.failed /\ t.ok = me.ok + 1
    BY <1>8 DEF CountsOk, InService
  <2>2. PICK A : A = PartsThat(me.service, me.reply, TRUE) \ me.parts /\ IsFiniteSet(A)
    BY PartsThatFinite
  <2>3. PICK B : B = PartsThat(me.service, me.reply, TRUE) \ t.parts
    OBVIOUS
  <2>4. B = A \cup {p} /\ p \notin A
    BY <2>1, <2>2, <2>3 DEF PartsThat, Visits
  <2>5. Cardinality(B) = Cardinality(A) + 1
    BY <2>2, <2>4, FS_AddElement
  <2>6. PartsThat(me.service, me.reply, FALSE) \ t.parts = PartsThat(me.service, me.reply, FALSE) \ me.parts
    BY <2>1 DEF PartsThat
  <2> QED
    BY <2>1, <2>2, <2>3, <2>5, <2>6 DEF Counted
<1>9. ASSUME NEW p \in Parts, CountsFailed(me, t, p) PROVE Counted(t)
  <2>1. /\ me.pc \in InService /\ t.service = me.service /\ t.reply = me.reply
        /\ p \in me.parts /\ me.reply.status[p] # "ok" /\ t.parts = me.parts \ {p}
        /\ t.failed = me.failed + 1 /\ t.ok = me.ok
    BY <1>9 DEF CountsFailed, InService
  <2>2. PICK A : A = PartsThat(me.service, me.reply, FALSE) \ me.parts /\ IsFiniteSet(A)
    BY PartsThatFinite
  <2>3. PICK B : B = PartsThat(me.service, me.reply, FALSE) \ t.parts
    OBVIOUS
  <2>4. B = A \cup {p} /\ p \notin A
    BY <2>1, <2>2, <2>3 DEF PartsThat, Visits
  <2>5. Cardinality(B) = Cardinality(A) + 1
    BY <2>2, <2>4, FS_AddElement
  <2>6. PartsThat(me.service, me.reply, TRUE) \ t.parts = PartsThat(me.service, me.reply, TRUE) \ me.parts
    BY <2>1 DEF PartsThat
  <2> QED
    BY <2>1, <2>2, <2>3, <2>5, <2>6 DEF Counted
<1> QED
  BY <1>1, <1>2, <1>3, <1>4, <1>5, <1>6, <1>7, <1>8, <1>9 DEF OneStep

\* Nothing that Stage looks at moves
LEMMA StageSame ==
    ASSUME NEW t, UNCHANGED <<history, known>>, Stage(t)
    PROVE  Stage(t)'
  BY DEF Stage, NoRows, Going, Over, Kept, Full

LEMMA RecordsStage ==
    ASSUME Typed, NEW t, NEW me \in Thread, Records(me, t), Works,
           Sums(me), Counted(me), Going(me)
    PROVE  Going(t)'
<1> USE DEF SameRound
<1>1. /\ me.pc = "history" /\ t.pc = "next" /\ t.ts = me.ts /\ t.reply = me.reply
      /\ t.todo = me.todo /\ t.hosts = me.hosts /\ known' = known
      /\ \/ history' = Put(history, <<me.service, me.ts>>, [failed |-> me.failed, missing |-> 0, ok |-> me.ok])
         \/ Fault
  BY DEF Records
<1>2. ~ Fault
  BY DEF Fault, Works, Typed, Tables
<1>3. me.parts = {}
  BY <1>1 DEF Sums, InService
<1>4. PICK row : row = RowOf(me.service, me.reply) /\ row = [failed |-> me.failed, missing |-> 0, ok |-> me.ok]
  <2>1. /\ PartsThat(me.service, me.reply, FALSE) \ {} = PartsThat(me.service, me.reply, FALSE)
        /\ PartsThat(me.service, me.reply, TRUE) \ {} = PartsThat(me.service, me.reply, TRUE)
    OBVIOUS
  <2>2. /\ me.failed = Cardinality(PartsThat(me.service, me.reply, FALSE))
        /\ me.ok = Cardinality(PartsThat(me.service, me.reply, TRUE))
    BY <1>1, <1>3, <2>1 DEF Counted, InService
  <2> QED
    BY <2>2 DEF RowOf
<1>5. history' = Put(history, <<me.service, me.ts>>, row)
  BY <1>1, <1>2, <1>4
<1>6. Kept(me.service, t)'
  <2>1. <<me.service, me.ts>> \in DOMAIN history' /\ history'[<<me.service, me.ts>>] = row
    BY <1>5 DEF Put
  <2> QED
    BY <1>1, <1>4, <2>1 DEF Kept
<1>7. ASSUME NEW s \in t.reply.up \ t.todo PROVE Kept(s, t)'
  <2>1. CASE s = me.service
    BY <1>6, <2>1
  <2>2. CASE s # me.service
    <3>1. Kept(s, me)
      BY <1>1, <1>7, <2>2 DEF Going
    <3>2. <<s, me.ts>> # <<me.service, me.ts>>
      BY <2>2
    <3>3. <<s, me.ts>> \in DOMAIN history' /\ history'[<<s, me.ts>>] = history[<<s, me.ts>>]
      BY <1>5, <3>1, <3>2 DEF Put, Kept
    <3> QED
      BY <1>1, <3>1, <3>3 DEF Kept
  <2> QED
    BY <2>1, <2>2
<1>8. \A s \in t.reply.up \ t.todo : HostOf[s] \in t.hosts
  BY <1>1 DEF Going
<1> QED
  BY <1>1, <1>7, <1>8 DEF Going, InService

LEMMA MissesStage ==
    ASSUME Typed, NEW t, NEW me \in Thread, NEW h \in STRING, Misses(me, t, h), Works,
           me.ts = clock, Going(me)
    PROVE  Going(t)'
<1> USE DEF SameRound
<1>1. /\ me.pc = "next" /\ t.pc = "next" /\ t.ts = me.ts /\ t.reply = me.reply /\ me.todo = {}
      /\ t.todo = {} /\ t.hosts = me.hosts \ {h} /\ known' = known
      /\ \/ history' = [k \in DOMAIN history \cup Gone(h, me.ts) |->
                            IF k \in Gone(h, me.ts) THEN PartsMissing(k[1]) ELSE history[k]]
         \/ Fault
  BY DEF Misses
<1>2. ~ Fault
  BY DEF Fault, Works, Typed, Tables
<1>3. /\ DOMAIN history' = DOMAIN history \cup Gone(h, me.ts)
      /\ \A k \in DOMAIN history \ Gone(h, me.ts) : history'[k] = history[k]
  BY <1>1, <1>2
<1>4. me.ts \in Nat
  BY DEF Thread
<1>5. ASSUME NEW s \in me.reply.up, Kept(s, me) PROVE Kept(s, t)'
  <2>1. <<s, me.ts>> \in DOMAIN history /\ <<s, me.ts>>[1] = s /\ <<s, me.ts>>[2] = me.ts
    BY <1>5 DEF Kept
  <2>2. s \notin WithoutRow(h, me.ts)
    BY <1>4, <2>1 DEF WithoutRow
  <2>3. <<s, me.ts>> \notin Gone(h, me.ts)
    BY <2>2 DEF Gone
  <2>4. <<s, me.ts>> \in DOMAIN history' /\ history'[<<s, me.ts>>] = history[<<s, me.ts>>]
    BY <1>3, <2>1, <2>3
  <2> QED
    BY <1>1, <1>5, <2>4 DEF Kept
<1>6. Full(h, t)'
  <2>1. ASSUME NEW s \in known, HostOf[s] = h PROVE <<s, me.ts>> \in DOMAIN history'
    <3>1. CASE s \in WithoutRow(h, me.ts)
      BY <1>3, <3>1 DEF Gone
    <3>2. CASE s \notin WithoutRow(h, me.ts)
      <4>1. PICK k \in DOMAIN history : k[1] = s /\ k[2] >= me.ts
        BY <2>1, <3>2 DEF WithoutRow
      <4>2. k \in Services \X (1..clock)
        BY DEF Typed, Tables
      <4>3. k[2] = me.ts
        BY <1>4, <4>1, <4>2
      <4>4. k = <<s, me.ts>>
        BY <4>1, <4>2, <4>3
      <4> QED
        BY <1>3, <4>4
    <3> QED
      BY <3>1, <3>2
  <2> QED
    BY <1>1, <2>1 DEF Full
<1>7. ASSUME NEW g, Full(g, me) PROVE Full(g, t)'
  BY <1>1, <1>3, <1>7 DEF Full
<1>8. ASSUME NEW s \in t.reply.up
      PROVE  Kept(s, t)' /\ (HostOf[s] \in t.hosts \/ Full(HostOf[s], t)')
  <2>1. Kept(s, me) /\ (HostOf[s] \in me.hosts \/ Full(HostOf[s], me))
    BY <1>1, <1>8 DEF Going, InService
  <2>2. HostOf[s] \in me.hosts => HostOf[s] \in t.hosts \/ HostOf[s] = h
    BY <1>1
  <2> QED
    BY <1>1, <1>5, <1>6, <1>7, <2>1, <2>2
<1> QED
  BY <1>1, <1>8 DEF Going, InService

\* The stage of the thread that moves
LEMMA StageStep ==
    ASSUME Typed, NEW b \in Backends, NEW t, NEW me \in Thread, me = thread[b], Place(me),
           me.pc = "down" => me.ts = 0, Collecting(me) => me.ts = clock,
           Sums(me), Visits(me), Counted(me), me.ts = clock => Stage(me),
           faults' = 0, OneStep(b, me, t), t.ts = clock'
    PROVE  Stage(t)'
<1> USE DEF SameRound, SameVisits, SameTally
<1>1. Fault \/ Works => Works
  BY DEF Fault, Works, Typed, Tables
<1>0. \A k \in DOMAIN history : k \in Services \X (1..clock)
  BY DEF Typed, Tables
<1>2. CASE Rests(me, t)
  <2>1. t.pc = "idle" /\ t.ts = me.ts /\ t.reply = me.reply /\ UNCHANGED <<history, known, clock>>
    BY <1>2 DEF Rests, services, time
  <2>2. CASE me.pc = "down"
    <3>1. clock = 0
      BY <2>1, <2>2
    <3>2. NoRows(t)
      <4>1. 1..clock = {}
        BY <3>1
      <4> QED
        BY <1>0, <4>1 DEF NoRows
    <3> QED
      BY <2>1, <3>2 DEF Stage, NoRows, InService
  <2>3. CASE me.pc = "ask"
    <3>1. NoRows(me)
      BY <2>1, <2>3 DEF Stage
    <3> QED
      BY <2>1, <3>1 DEF Stage, NoRows, InService
  <2>4. CASE me.pc = "next" /\ me.todo = {} /\ me.hosts = {}
    <3>1. Going(me)
      BY <2>1, <2>4 DEF Stage
    <3>2. Over(me)
      BY <2>4, <3>1 DEF Going, Over, InService
    <3>3. Over(t)'
      BY <2>1, <3>2 DEF Over, Kept, Full
    <3> QED
      BY <2>1, <3>3 DEF Stage, InService
  <2> QED
    BY <1>2, <2>2, <2>3, <2>4 DEF Rests
<1>3. CASE Dies(t)
  BY <1>3 DEF Dies, Fresh, Stage, InService
<1>4. CASE Begins(b, me, t)
  <2>1. t.pc = "ask" /\ t.ts = clock + 1 /\ UNCHANGED history
    BY <1>4 DEF Begins, services
  <2>2. clock \in Nat
    BY DEF Typed, Tables
  <2>3. PICK n \in Nat : n = t.ts /\ n \notin 1..clock
    BY <2>1, <2>2
  <2>4. NoRows(t)'
    BY <1>0, <2>1, <2>3 DEF NoRows
  <2> QED
    BY <2>1, <2>4 DEF Stage, InService
<1>5. CASE Hears(me, t)
  <2>1. t.pc = "next" /\ t.todo = t.reply.up
    BY <1>5 DEF Hears
  <2>2. Going(t)'
    BY <2>1 DEF Going, InService
  <2> QED
    BY <2>1, <2>2 DEF Stage, InService
<1>6. ASSUME NEW s \in Services, Visiting(me, t, s) PROVE Stage(t)'
  <2>1. /\ me.pc = "next" /\ s \in me.todo /\ t.pc = "log" /\ t.ts = me.ts /\ t.reply = me.reply
        /\ t.todo = me.todo \ {s} /\ t.hosts = me.hosts \cup {HostOf[s]} /\ t.service = s
        /\ UNCHANGED <<history, clock>>
    BY <1>6 DEF Visiting, time
  <2>2. Going(me)
    BY <2>1 DEF Stage
  <2>3. s \in t.reply.up \ t.todo /\ t.todo \subseteq t.reply.up
    BY <2>1, <2>2 DEF Going
  <2>4. ASSUME NEW r \in t.reply.up \ t.todo
        PROVE  (r = s \/ Kept(r, t)') /\ HostOf[r] \in t.hosts
    <3>1. CASE r = s
      BY <2>1, <3>1
    <3>2. CASE r # s
      <4>1. r \in me.reply.up \ me.todo
        BY <2>1, <2>4, <3>2
      <4>2. Kept(r, me) /\ HostOf[r] \in me.hosts
        BY <2>1, <2>2, <4>1 DEF Going, InService
      <4> QED
        BY <2>1, <4>2 DEF Kept
    <3> QED
      BY <3>1, <3>2
  <2>5. Going(t)'
    BY <2>1, <2>3, <2>4 DEF Going, InService
  <2> QED
    BY <2>1, <2>5 DEF Stage, InService
<1>7. ASSUME me.pc \in InService, t.pc \in InService, t.ts = me.ts, t.reply = me.reply,
             t.todo = me.todo, t.hosts = me.hosts, t.service = me.service,
             UNCHANGED <<history, known, clock>>
      PROVE  Stage(t)'
  <2>1. Going(me)
    BY <1>7 DEF Stage
  <2>2. me.pc # "next" /\ t.pc # "next" /\ t.pc # "ask" /\ t.pc # "idle"
    BY <1>7 DEF InService
  <2>3. Going(t)'
    BY <1>7, <2>1, <2>2 DEF Going, Kept
  <2> QED
    BY <2>2, <2>3 DEF Stage
<1>8. CASE ReadsLogs(me, t)
  BY <1>7, <1>8 DEF ReadsLogs, InService, services, time
<1>9. ASSUME NEW p \in Parts, CountsOk(me, t, p) PROVE Stage(t)'
  BY <1>7, <1>9 DEF CountsOk, InService, services, time
<1>10. ASSUME NEW p \in Parts, CountsFailed(me, t, p) PROVE Stage(t)'
  BY <1>7, <1>10 DEF CountsFailed, InService, services, time
<1>11. CASE StoresFailed(me, t)
  BY <1>7, <1>11 DEF StoresFailed, InService, services, time
<1>12. CASE Tells(me, t)
  BY <1>7, <1>12 DEF Tells, InService, services, time
<1>13. CASE Records(me, t)
  <2>1. me.pc = "history" /\ t.pc = "next" /\ t.ts = me.ts /\ UNCHANGED clock /\ Works
    BY <1>1, <1>13 DEF Records, time
  <2>2. Going(me)
    BY <2>1 DEF Stage, InService
  <2>3. Going(t)'
    BY <1>13, <2>1, <2>2, RecordsStage
  <2> QED
    BY <2>1, <2>3 DEF Stage, InService
<1>14. ASSUME NEW h \in STRING, Misses(me, t, h) PROVE Stage(t)'
  <2>1. me.pc = "next" /\ t.pc = "next" /\ t.ts = me.ts /\ UNCHANGED clock /\ Works
    BY <1>1, <1>14 DEF Misses, time
  <2>2. Going(me) /\ me.ts = clock
    BY <2>1 DEF Stage
  <2>3. Going(t)'
    BY <1>14, <2>1, <2>2, MissesStage
  <2> QED
    BY <2>1, <2>3 DEF Stage, InService
<1> QED
  BY <1>2, <1>3, <1>4, <1>5, <1>6, <1>8, <1>9, <1>10, <1>11, <1>12, <1>13, <1>14 DEF OneStep

LEMMA NextRound ==
    ASSUME Inv, Inv', RoundInv, [Next]_vars
    PROVE  RoundInv'
<1>0. Typed /\ Summed
  BY DEF Inv
<1>1. CASE AgentLogs \/ AgentChanges \/ UNCHANGED vars
  <2>1. UNCHANGED <<services, time, thread, faults>>
    BY <1>1 DEF AgentLogs, AgentChanges, vars
  <2>2. UNCHANGED <<known, history, overlap, clock>>
    BY <2>1 DEF services, time
  <2>3. Alone' /\ AllVisits'
    BY <2>1, <2>2 DEF RoundInv, Alone, AllVisits
  <2>4. ASSUME NEW b \in Backends, Counted(thread[b]), thread[b].ts = clock => Stage(thread[b])
        PROVE  Counted(thread[b])' /\ (thread'[b].ts = clock' => Stage(thread[b])')
    <3>1. PICK u : u = thread[b] /\ u = thread'[b]
      BY <2>1
    <3>2. Counted(u)' /\ (Stage(u) => Stage(u)')
      BY <2>2, <2>4, <3>1, StageSame DEF Counted
    <3> QED
      BY <2>2, <2>4, <3>1, <3>2
  <2> QED
    BY <2>1, <2>2, <2>3, <2>4 DEF RoundInv
<1>2. ASSUME NEW b \in Backends, Start(b) \/ Crash(b) \/ Collect(b) PROVE RoundInv'
  <2>1. PICK t : thread' = [thread EXCEPT ![b] = t] /\ OneStep(b, thread[b], t)
    BY <1>0, <1>2, Steps
  <2>2. PICK me \in Thread : me = thread[b] /\ Place(me) /\ Sums(me) /\ Visits(me)
    BY <1>0, Mine DEF Summed, RoundInv, AllVisits
  <2>3. Alone' /\ AllVisits'
    BY <1>0, <2>1, AloneStep, AllVisitsStep DEF RoundInv
  <2>4. thread'[b] = t /\ \A o \in Backends \ {b} : thread'[o] = thread[o]
    BY <1>0, <2>1, Others DEF Typed
  <2>5. ASSUME ~ overlap', faults' = 0, NEW o \in Backends
        PROVE  Counted(thread[o])' /\ (thread'[o].ts = clock' => Stage(thread[o])')
    <3>1. ~ overlap
      BY <2>1, <2>5, Paced DEF Begins, time
    <3>2. faults = 0
      <4>1. faults' = faults \/ faults' = faults + 1
        BY <1>2 DEF Start, Crash, Collect, ReadClock, Request, RequestErrorBody, RequestFails,
           NextService, LookLog, StoreLog, LogsDone, PartOk, LookPart, StorePart, PartsDone,
           History, Missing, CollectDone, Fault, Works, Go, Set
      <4> QED
        BY <1>0, <2>5, <4>1 DEF Typed, Tables
    <3>3. \A c \in Backends : Counted(thread[c]) /\ (thread[c].ts = clock => Stage(thread[c]))
      BY <3>1, <3>2 DEF RoundInv
    <3>4. me.pc = "down" => me.ts = 0
      BY <2>2 DEF RoundInv, Alone
    <3>5. Collecting(me) => me.ts = clock
      BY <2>2, <3>1 DEF RoundInv, Alone
    <3>6. CASE o = b
      <4>1. Counted(t)
        BY <1>0, <2>1, <2>2, <3>3, CountedStep
      <4>2. t.ts = clock' => Stage(t)'
        BY <1>0, <2>1, <2>2, <2>5, <3>3, <3>4, <3>5, StageStep
      <4>3. PICK u : u = t /\ u = thread'[b]
        BY <2>4
      <4> QED
        BY <3>6, <4>1, <4>2, <4>3 DEF Counted
    <3>7. CASE o # b
      <4>1. PICK u \in Thread : u = thread[o] /\ u = thread'[o] /\ Counted(u) /\ (u.ts = clock => Stage(u))
            /\ u.ts <= clock
        BY <1>0, <2>4, <3>3, <3>7 DEF Typed, Place
      <4>2. CASE Collecting(me)
        <5>1. me.ts = clock /\ me.ts \in Nat /\ me.ts # 0 /\ me.ts # u.ts
          <6>1. me.ts = clock /\ me.ts \in Nat /\ me.ts >= 1
            BY <2>2, <3>5, <4>2 DEF Collecting, Place, Thread
          <6>2. me.ts # u.ts \/ me.ts = 0
            BY <2>2, <3>7, <4>1 DEF RoundInv, Alone
          <6> QED
            BY <6>1, <6>2
        <5>2. clock' = clock
          BY <2>1, <2>2, <4>2, Paced DEF Begins, Collecting, time
        <5> QED
          BY <4>1, <5>1, <5>2 DEF Counted
      <4>3. CASE ~ Collecting(me)
        <5>1. Rests(me, t) \/ Dies(t) \/ Begins(b, me, t)
          BY <2>1, <2>2, <4>3 DEF OneStep, Collecting, Hears, Visiting, ReadsLogs, CountsOk,
             CountsFailed, StoresFailed, Tells, Records, Misses
        <5>2. UNCHANGED <<history, known>>
          BY <5>1 DEF Rests, Dies, Begins, services
        <5>3. clock' = clock \/ clock' = clock + 1
          BY <5>1 DEF Rests, Dies, Begins, time
        <5>4. u.ts = clock' => u.ts = clock
          BY <1>0, <4>1, <5>3 DEF Typed, Tables, Thread
        <5>5. u.ts = clock' => Stage(u)'
          BY <4>1, <5>2, <5>4, StageSame
        <5> QED
          BY <4>1, <5>5 DEF Counted
      <4> QED
        BY <4>2, <4>3
    <3> QED
      BY <3>6, <3>7
  <2> QED
    BY <2>3, <2>5 DEF RoundInv
<1> QED
  BY <1>1, <1>2 DEF Next

LEMMA InitRound == Init => RoundInv
<1> SUFFICES ASSUME Init PROVE RoundInv
  OBVIOUS
<1>1. \A b \in Backends : thread[b] = Fresh
  BY DEF Init
<1>2. Alone /\ AllVisits
  BY <1>1 DEF Alone, AllVisits, Visits, Fresh, Collecting, InService
<1>3. Counted(Fresh) /\ Stage(Fresh)
  BY DEF Counted, Stage, Fresh, InService
<1> QED
  BY <1>1, <1>2, <1>3 DEF RoundInv

\* After a round that nothing disturbed every service of the hosts it saw has its row: the
\* reported ones count each of their parts once, well or failed, and those without a row
\* are recorded as missing (agentClient.cpp:330-345).
THEOREM RoundsRecorded == Spec => []RoundRecorded
<1>1. Init => Inv /\ RoundInv
  BY InitTyped, SumsInit, InitRound DEF Inv
<1>2. Inv /\ RoundInv /\ [Next]_vars => Inv' /\ RoundInv'
  <2>1. Inv /\ [Next]_vars => Inv'
    BY NextTyped, NextSummed DEF Inv
  <2> QED
    BY <2>1, NextRound
<1>3. Inv /\ RoundInv => RoundRecorded
  <2> SUFFICES ASSUME Inv, RoundInv, NEW b \in Backends,
                      ~ overlap, faults = 0, At(b, "idle"), thread[b].ts = clock,
                      {s \in thread[b].reply.up : <<s, thread[b].ts>> \in DOMAIN history} # {}
               PROVE  LET t == thread[b]
                          answered == {s \in t.reply.up : <<s, t.ts>> \in DOMAIN history}
                          count(s, st) == Cardinality({p \in OfService(s) : (t.reply.status[p] = "ok") = st})
                      IN  /\ \A s \in known : HostOf[s] \in {HostOf[r] : r \in answered} =>
                                <<s, t.ts>> \in DOMAIN history
                          /\ \A s \in answered : history[<<s, t.ts>>] =
                                [failed |-> count(s, FALSE), missing |-> 0, ok |-> count(s, TRUE)]
    BY DEF RoundRecorded
  <2>1. PICK t \in Thread : t = thread[b]
    BY Mine DEF Inv
  <2>2. Stage(t) /\ t.pc = "idle"
    BY <2>1 DEF RoundInv, At
  <2>3. t.reply.up \subseteq Services
    BY DEF Thread, Reply
  <2>4. ~ NoRows(t)
    BY <2>1, <2>3 DEF NoRows
  <2>5. Over(t)
    BY <2>2, <2>4 DEF Stage
  <2>6. \A s \in known : HostOf[s] \in {HostOf[r] : r \in t.reply.up} => <<s, t.ts>> \in DOMAIN history
    BY <2>5 DEF Over, Full
  <2>7. \A s \in t.reply.up : history[<<s, t.ts>>] = RowOf(s, t.reply)
    BY <2>5 DEF Over, Kept
  <2>8. \A s \in t.reply.up : history[<<s, t.ts>>] =
            [failed  |-> Cardinality({p \in OfService(s) : (t.reply.status[p] = "ok") = FALSE}),
             missing |-> 0,
             ok      |-> Cardinality({p \in OfService(s) : (t.reply.status[p] = "ok") = TRUE})]
    BY <2>7 DEF RowOf, PartsThat
  <2> QED
    BY <2>1, <2>6, <2>8
<1> QED
  BY <1>1, <1>2, <1>3, PTL DEF Spec
=============================================================================
