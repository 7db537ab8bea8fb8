--------------------------- MODULE Configuration ---------------------------
(***************************************************************************)
(* The configuration of the backend from main to main loop (backend.cpp):  *)
(* Config reads the file and is given the settings that are missing by the *)
(* parts that use them; the whole is written back twice, before and after  *)
(* agentManager::init.  The operator edits the same file; the process may  *)
(* be killed at any step and is started again (watched.back.service).      *)
(*                                                                         *)
(* A document is a function from the settings it has to values.  A value   *)
(* is "default", "user", "wrong" (a JSON type its reader throws on), or    *)
(* the name of a log level, in small letters or in capitals.               *)
(***************************************************************************)
EXTENDS Naturals, FiniteSets

CONSTANTS
    Edits,       \* documents the operator writes
    MaxEdits, MaxMishaps   \* bounds

VARIABLES
    file,     \* "absent", "torn" (not a JSON document) or a document, as [is, doc]
    data,     \* Config::data
    pc,       \* "off", a stage of main, or "write" with then
    then,     \* the stage after the save
    wishes,   \* history: the operator's last document; when he wrote it between the
              \* reading and the last save of a start-up, also the one before
    edits, mishaps

vars == <<file, data, pc, then, wishes, edits, mishaps>>

Empty == [k \in {} |-> "default"]

\* The settings each stage of main looks for and, if need be, sets
Owned == [load    |-> {"SSL_cert", "SSL_key", "SSL_verify", "SSL_verify_name",
                       "central_id", "pool_freq"},
          pool    |-> {"connection_string", "database_name", "login", "password", "pool_size"},
          log     |-> {"file", "level"},
          alerter |-> {"alerter_cpp", "alerter_lua"},
          init    |-> {"aggregate"}]

Settings == UNION {Owned[s] : s \in DOMAIN Owned}

\* And those whose value it converts: Json::Value throws if it cannot
Converted == [pool |-> {"pool_size"}, log |-> {"level"}, alerter |-> {"alerter_cpp", "alerter_lua"},
              init |-> {"central_id"}, run |-> {"pool_freq"}]

Levels == {"NONE", "ERROR", "WARN", "NOTICE", "INFO", "DEBUG", "ALL"}

\* Any case is understood; what is no level becomes NOTICE
Upper  == [info |-> "INFO", warn |-> "WARN"]
Normal(v) == CASE v \in Levels -> v [] v \in DOMAIN Upper -> Upper[v] [] OTHER -> "NOTICE"

ASSUME ConfigurationAssumption ==
    /\ MaxEdits \in Nat /\ MaxMishaps \in Nat
    /\ \A f \in Edits : DOMAIN f \subseteq Settings

Default(k) == IF k = "level" THEN "NOTICE" ELSE "default"

\* Deviation: a stage sets all that it owns when one of it is missing
FilledAll(d, stage) ==
    [k \in DOMAIN d \cup Owned[stage] |->
        IF k \in Owned[stage] /\ ~ Owned[stage] \subseteq DOMAIN d THEN Default(k) ELSE d[k]]

Filled(d, stage) ==
    [k \in DOMAIN d \cup Owned[stage] |-> IF k \in DOMAIN d THEN d[k] ELSE Default(k)]

Throws(d, stage) == stage \in DOMAIN Converted /\ \E k \in Converted[stage] : d[k] = "wrong"

Init ==
    /\ file \in {[is |-> "absent", doc |-> Empty]} \cup {[is |-> "json", doc |-> f] : f \in Edits}
    /\ wishes = {file.doc}
    /\ data = Empty /\ pc = "off" /\ then = "off"
    /\ edits = 0 /\ mishaps = 0

Dies == pc' = "off" /\ data' = Empty /\ then' = "off"

(***************************************************************************)
(* The operator, the service manager, the machine                          *)
(***************************************************************************)
\* What main has read it will still write
StartsUp == pc \notin {"off", "load", "run"}

Edit ==
    /\ edits < MaxEdits /\ edits' = edits + 1
    /\ \E f \in Edits :
          /\ file' = [is |-> "json", doc |-> f]
          /\ wishes' = IF StartsUp THEN wishes \cup {f} ELSE {f}
    /\ UNCHANGED <<data, pc, then, mishaps>>

Start ==
    /\ pc = "off" /\ pc' = "load"
    /\ UNCHANGED <<file, data, then, wishes, edits, mishaps>>

Mishap == mishaps < MaxMishaps /\ mishaps' = mishaps + 1

Crash ==
    /\ pc # "off" /\ Mishap /\ Dies
    /\ UNCHANGED <<file, wishes, edits>>

(***************************************************************************)
(* main                                                                    *)
(***************************************************************************)
\* Deviations: a file that is not there is parsed as well; a text that is no document
\* is taken for none
ReadableOnly(f) == f.is = "json"
ReadableAll(f) == TRUE

\* The exception of a text that is no document is not caught
Readable(f) == f.is # "torn"

Load ==
    /\ pc = "load"
    /\ IF Readable(file)
       THEN data' = Filled(file.doc, "load") /\ pc' = "pool" /\ UNCHANGED then
       ELSE Dies
    /\ UNCHANGED <<file, wishes, edits, mishaps>>

\* Deviation: alerterManager is made after the first save, and after init
AfterLate == [pool |-> "log", log |-> "save1", init |-> "save2"]

After == [pool |-> "log", log |-> "alerter", alerter |-> "save1", init |-> "save2"]

\* getDB and dbPool; getLog and log; getAlerter and alerterManager; getAggregate and
\* agentManager::init with updateAgents
Stage ==
    /\ pc \in DOMAIN After
    /\ LET d == Filled(data, pc) IN
       IF Throws(d, pc) THEN Dies
       ELSE /\ data' = IF pc = "log" THEN [d EXCEPT !["level"] = Normal(@)] ELSE d
            /\ pc' = After[pc] /\ UNCHANGED then
    /\ UNCHANGED <<file, wishes, edits, mishaps>>

\* Config::save empties the file, if it may open it
Truncate ==
    /\ pc \in {"save1", "save2"}
    /\ then' = IF pc = "save1" THEN "init" ELSE "run"
    /\ \/ /\ file' = [is |-> "torn", doc |-> Empty] /\ pc' = "write"
          /\ UNCHANGED mishaps
       \/ /\ Mishap
          /\ pc' = then' /\ UNCHANGED file
    /\ UNCHANGED <<data, wishes, edits>>

\* And writes it; no error is looked at.  An editor that replaced the file meanwhile
\* leaves the process the old one.
Write ==
    /\ pc = "write" /\ pc' = then
    /\ \/ file' = [is |-> "json", doc |-> data] /\ UNCHANGED mishaps
       \/ file.is = "json" /\ UNCHANGED <<file, mishaps>>
       \/ Mishap /\ file' = [is |-> "torn", doc |-> Empty]
    /\ UNCHANGED <<data, then, wishes, edits>>

\* The main loop converts pool_freq on every turn
Loop ==
    /\ pc = "run"
    /\ IF Throws(data, "run") THEN Dies /\ UNCHANGED <<file, wishes, edits, mishaps>>
                              ELSE UNCHANGED vars

Main == Load \/ Stage \/ Truncate \/ Write \/ Loop

Next == Edit \/ Start \/ Crash \/ Main

Spec == Init /\ [][Next]_vars

\* main goes on, and systemd or the operator starts what has ended
FairSpec == Spec /\ WF_vars(Main) /\ WF_vars(Start)

(***************************************************************************)
(* Properties                                                              *)
(***************************************************************************)
\* The form of the state; only a document has settings
TypeOK ==
    /\ file.is \in {"absent", "torn", "json"} /\ (file.is # "json" => file.doc = Empty)
    /\ DOMAIN file.doc \cup DOMAIN data \subseteq Settings
    /\ pc \in {"off", "load", "pool", "log", "alerter", "save1", "init", "save2", "write", "run"}
    /\ pc = "off" => data = Empty
    /\ edits \in 0..MaxEdits /\ mishaps \in 0..MaxMishaps

\* d has the settings of the document w, with the spelling of the level changed at most
Kept(w, d) ==
    \A k \in DOMAIN w :
        /\ k \in DOMAIN d
        /\ \/ d[k] = w[k]
           \/ k = "level" /\ d[k] = Normal(w[k])

Told(d) == \E w \in wishes : Kept(w, d)

\* The file is the operator's, through any number of starts, deaths and saves: what it
\* says, and what a start-up is about to write over it, has all the settings of his last
\* document, or of the last two when he wrote during a start-up, whole and never mixed
\* (backend.cpp:27, 29).  The settings are lost to a death or a full disk between the
\* two halves of a save only (config.cpp:134-135); then the text is no document, and no
\* start-up puts its defaults in the place of it.
WishKept ==
    /\ file.is # "torn" => Told(file.doc)
    /\ StartsUp => Told(data)
    /\ file.is = "torn" => pc = "write" \/ mishaps > 0

\* The threads of the main loop read the settings through operator[], which would
\* insert a missing one into the shared map without a lock (config.cpp:33, log.cpp:47):
\* nothing they read is missing, whatever the file was and whatever befell the saves
NothingToInsert ==
    pc = "run" => DOMAIN data = Settings /\ data["level"] \in Levels

\* If nobody kills it for good, the backend gets to its main loop again and again, or
\* its file stays torn or has a value of a wrong type (config.cpp:86)
ComesUp ==
    \/ []<>(pc = "run")
    \/ <>[](file.is = "torn" \/ \E k \in DOMAIN file.doc : file.doc[k] = "wrong")
=============================================================================
