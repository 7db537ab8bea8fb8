------------------------ MODULE ConfigurationProofs ------------------------
(***************************************************************************)
(* Proofs about Configuration: its type invariant, that the operator's     *)
(* settings survive, and that the threads find every setting.              *)
(***************************************************************************)
EXTENDS Configuration, TLAPS

(***************************************************************************)
(* What the stages do to a document                                        *)
(***************************************************************************)
\* The parser of the log levels yields a level
LEMMA NormalLevel == \A v : Normal(v) \in Levels
  BY DEF Normal, Levels, Upper

\* And takes a level as it is, so that the spelling changes once
LEMMA NormalTwice == \A v : Normal(Normal(v)) = Normal(v)
<1>1. \A v \in Levels : Normal(v) = v
  BY DEF Normal, Levels, Upper
<1> QED
  BY <1>1, NormalLevel

\* A stage adds its settings and changes none (config.cpp:107)
LEMMA FilledFacts ==
    ASSUME NEW d, NEW s
    PROVE  /\ DOMAIN Filled(d, s) = DOMAIN d \cup Owned[s]
           /\ \A k \in DOMAIN d : Filled(d, s)[k] = d[k]
  BY DEF Filled

\* All settings are those of the stages
LEMMA SettingsFacts ==
    /\ Settings = Owned["load"] \cup Owned["pool"] \cup Owned["log"]
                    \cup Owned["alerter"] \cup Owned["init"]
    /\ "level" \in Owned["log"]
<1>1. DOMAIN Owned = {"load", "pool", "log", "alerter", "init"}
  BY DEF Owned
<1>2. "level" \in Owned["log"]
  BY DEF Owned
<1> QED
  BY <1>1, <1>2 DEF Settings

LEMMA EmptyDomain == DOMAIN Empty = {}
  BY DEF Empty

(***************************************************************************)
(* The invariants                                                          *)
(***************************************************************************)
\* The stage main is at, or the one it comes to when the file is written
Place == IF pc = "write" THEN then ELSE pc

\* What main has set before a stage
Before(p) ==
    (IF p \in {"pool", "log", "alerter", "save1", "init", "save2", "run"}
       THEN Owned["load"] ELSE {})
    \cup (IF p \in {"log", "alerter", "save1", "init", "save2", "run"}
            THEN Owned["pool"] ELSE {})
    \cup (IF p \in {"alerter", "save1", "init", "save2", "run"} THEN Owned["log"] ELSE {})
    \cup (IF p \in {"save1", "init", "save2", "run"} THEN Owned["alerter"] ELSE {})
    \cup (IF p \in {"save2", "run"} THEN Owned["init"] ELSE {})

\* Stages add to the settings only, in the order of main
StagesInv ==
    /\ pc = "write" => then \in {"init", "run"}
    /\ Before(Place) \subseteq DOMAIN data
    /\ Place \in {"alerter", "save1", "init", "save2", "run"} => data["level"] \in Levels

Inv == TypeOK /\ StagesInv /\ WishKept

(***************************************************************************)
(* What is kept                                                            *)
(***************************************************************************)
LEMMA KeptSelf == \A w : Kept(w, w)
  BY DEF Kept

\* A stage that adds settings keeps what was told
LEMMA KeptMore ==
    ASSUME NEW w, NEW d, NEW e, Kept(w, d),
           DOMAIN d \subseteq DOMAIN e,
           \A k \in DOMAIN d : e[k] = d[k] \/ (k = "level" /\ e[k] = Normal(d[k]))
    PROVE  Kept(w, e)
<1> SUFFICES ASSUME NEW k \in DOMAIN w
             PROVE  k \in DOMAIN e /\ (e[k] = w[k] \/ (k = "level" /\ e[k] = Normal(w[k])))
  BY DEF Kept
<1>1. k \in DOMAIN d /\ (d[k] = w[k] \/ (k = "level" /\ d[k] = Normal(w[k])))
  BY DEF Kept
<1>2. k \in DOMAIN e /\ (e[k] = d[k] \/ (k = "level" /\ e[k] = Normal(d[k])))
  BY <1>1
<1> QED
  BY <1>1, <1>2, NormalTwice

(***************************************************************************)
(* Steps                                                                   *)
(***************************************************************************)
LEMMA InitInv == Init => Inv
<1> SUFFICES ASSUME Init PROVE Inv
  OBVIOUS
<1>1. DOMAIN file.doc \subseteq Settings /\ file.is \in {"absent", "json"}
      /\ (file.is = "absent" => file.doc = Empty)
  BY ConfigurationAssumption, EmptyDomain DEF Init
<1>2. TypeOK
  BY <1>1, EmptyDomain, ConfigurationAssumption DEF Init, TypeOK
<1>3. StagesInv
  BY DEF Init, StagesInv, Place, Before
<1>4. WishKept
  BY <1>1, KeptSelf DEF Init, WishKept, Told, StartsUp
<1> QED
  BY <1>2, <1>3, <1>4 DEF Inv

LEMMA EditInv == Inv /\ Edit => Inv'
<1> SUFFICES ASSUME Inv, Edit PROVE Inv'
  OBVIOUS
<1>1. PICK f \in Edits : /\ file' = [is |-> "json", doc |-> f]
                          /\ wishes' = IF StartsUp THEN wishes \cup {f} ELSE {f}
  BY DEF Edit
<1>2. TypeOK'
  BY <1>1, ConfigurationAssumption DEF Inv, TypeOK, Edit
<1>3. StagesInv'
  BY DEF Inv, StagesInv, Edit, Place
<1>4. WishKept'
  <2>1. Told(file.doc)'
    BY <1>1, KeptSelf DEF Told
  <2>2. StartsUp' => Told(data)'
    <3> SUFFICES ASSUME StartsUp' PROVE Told(data)'
      OBVIOUS
    <3>1. StartsUp /\ data' = data
      BY DEF Edit, StartsUp
    <3>2. PICK w \in wishes : Kept(w, data)
      BY <3>1 DEF Inv, WishKept, Told
    <3> QED
      BY <1>1, <3>1, <3>2 DEF Told
  <2> QED
    BY <1>1, <2>1, <2>2 DEF WishKept
<1> QED
  BY <1>2, <1>3, <1>4 DEF Inv

\* The process is not there: nothing is known of it, and the file is as it was
LEMMA DiesInv ==
    ASSUME Inv, Dies, UNCHANGED wishes, edits' \in 0..MaxEdits,
           mishaps' \in 0..MaxMishaps, UNCHANGED file,
           (mishaps' = mishaps /\ pc # "write") \/ mishaps' > 0
    PROVE  Inv'
<1>1. TypeOK'
  BY EmptyDomain DEF Inv, TypeOK, Dies
<1>2. StagesInv'
  BY DEF StagesInv, Dies, Place, Before
<1>3. WishKept'
  BY DEF Inv, WishKept, Told, Dies, StartsUp
<1> QED
  BY <1>1, <1>2, <1>3 DEF Inv

LEMMA CrashInv == Inv /\ Crash => Inv'
<1> SUFFICES ASSUME Inv, Crash PROVE Inv'
  OBVIOUS
<1>1. mishaps' \in 0..MaxMishaps /\ edits' \in 0..MaxEdits /\ mishaps' > 0
  BY ConfigurationAssumption DEF Inv, TypeOK, Crash, Mishap
<1> QED
  BY <1>1, DiesInv DEF Crash

LEMMA StartInv == Inv /\ Start => Inv'
<1> SUFFICES ASSUME Inv, Start PROVE Inv'
  OBVIOUS
<1>1. TypeOK'
  BY DEF Inv, TypeOK, Start
<1>2. StagesInv'
  BY DEF StagesInv, Start, Place, Before
<1>3. WishKept'
  BY DEF Inv, WishKept, Told, Start, StartsUp
<1> QED
  BY <1>1, <1>2, <1>3 DEF Inv

LEMMA LoadInv == Inv /\ Load => Inv'
<1> SUFFICES ASSUME Inv, Load PROVE Inv'
  OBVIOUS
<1>1. CASE ~ Readable(file)
  BY <1>1, DiesInv DEF Inv, TypeOK, Load
<1>2. CASE Readable(file)
  <2> DEFINE d == Filled(file.doc, "load")
  <2>1. data' = d /\ pc' = "pool" /\ UNCHANGED <<file, then, wishes, edits, mishaps>>
    BY <1>2 DEF Load
  <2>2. DOMAIN d = DOMAIN file.doc \cup Owned["load"] /\ \A k \in DOMAIN file.doc : d[k] = file.doc[k]
    BY FilledFacts
  <2>3. TypeOK'
    BY <2>1, <2>2, SettingsFacts DEF Inv, TypeOK
  <2>4. StagesInv'
    BY <2>1, <2>2 DEF StagesInv, Place, Before
  <2>5. PICK w \in wishes : Kept(w, file.doc)
    BY <1>2 DEF Inv, WishKept, Told, Readable
  <2>6. Kept(w, d)
    <3>1. DOMAIN file.doc \subseteq DOMAIN d /\ \A k \in DOMAIN file.doc : d[k] = file.doc[k]
      BY <2>2
    <3> QED
      BY <2>5, <3>1, KeptMore
  <2>7. WishKept'
    BY <1>2, <2>1, <2>5, <2>6 DEF WishKept, Told, Readable
  <2> QED
    BY <2>3, <2>4, <2>7 DEF Inv
<1> QED
  BY <1>1, <1>2

LEMMA StageInv == Inv /\ Stage => Inv'
<1> SUFFICES ASSUME Inv, Stage PROVE Inv'
  OBVIOUS
<1> DEFINE d == Filled(data, pc)
<1>1. CASE Throws(d, pc)
  <2>1. pc # "write" /\ Dies /\ UNCHANGED <<file, wishes, edits, mishaps>>
    BY <1>1 DEF Stage, After
  <2> QED
    BY <2>1, DiesInv DEF Inv, TypeOK
<1>2. CASE ~ Throws(d, pc)
  <2>1. /\ pc \in {"pool", "log", "alerter", "init"}
        /\ data' = IF pc = "log" THEN [d EXCEPT !["level"] = Normal(@)] ELSE d
        /\ pc' = CASE pc = "pool" -> "log" [] pc = "log" -> "alerter"
                   [] pc = "alerter" -> "save1" [] pc = "init" -> "save2"
        /\ UNCHANGED <<file, then, wishes, edits, mishaps>>
    BY <1>2 DEF Stage, After
  <2>2. DOMAIN d = DOMAIN data \cup Owned[pc] /\ \A k \in DOMAIN data : d[k] = data[k]
    BY FilledFacts
  <2>3. /\ DOMAIN data' = DOMAIN data \cup Owned[pc]
        /\ \A k \in DOMAIN data : data'[k] = IF pc = "log" /\ k = "level" THEN Normal(data[k]) ELSE data[k]
        /\ pc = "log" => data'["level"] \in Levels
    <3>1. CASE pc = "log"
      <4>1. "level" \in DOMAIN d
        BY <2>2, <3>1, SettingsFacts
      <4>2. data' = [d EXCEPT !["level"] = Normal(d["level"])]
        BY <2>1, <3>1
      <4>3. DOMAIN data' = DOMAIN d /\ data'["level"] = Normal(d["level"])
            /\ \A k \in DOMAIN d : k # "level" => data'[k] = d[k]
        BY <4>1, <4>2
      <4> QED
        BY <4>3, <3>1, <2>2, NormalLevel
    <3>2. CASE pc # "log"
      BY <2>1, <2>2, <3>2
    <3> QED
      BY <3>1, <3>2
  <2>4. Owned[pc] \subseteq Settings
    BY <2>1, SettingsFacts
  <2>5. TypeOK'
    BY <2>1, <2>3, <2>4 DEF Inv, TypeOK
  <2>6. StagesInv'
    <3>1. Place = pc /\ Place' = pc'
      BY <2>1 DEF Place
    <3>2. Before(pc') \subseteq DOMAIN data'
      BY <2>1, <2>3, <3>1 DEF Inv, StagesInv, Before
    <3>3. pc' \in {"alerter", "save1", "save2"} => data'["level"] \in Levels
      <4>1. CASE pc = "log"
        BY <4>1, <2>3
      <4>2. CASE pc \in {"alerter", "init"}
        <5>1. "level" \in DOMAIN data /\ data["level"] \in Levels
          BY <4>2, <3>1, SettingsFacts DEF Inv, StagesInv, Before
        <5> QED
          BY <5>1, <4>2, <2>3
      <4>3. CASE pc = "pool"
        BY <4>3, <2>1
      <4> QED
        BY <4>1, <4>2, <4>3, <2>1
    <3> QED
      BY <2>1, <3>1, <3>2, <3>3 DEF StagesInv
  <2>7. WishKept'
    <3>1. PICK w \in wishes : Kept(w, data)
      BY <2>1 DEF Inv, WishKept, Told, StartsUp
    <3>2. Kept(w, data')
      <4>1. /\ DOMAIN data \subseteq DOMAIN data'
            /\ \A k \in DOMAIN data :
                  data'[k] = data[k] \/ (k = "level" /\ data'[k] = Normal(data[k]))
        BY <2>3
      <4> QED
        BY <3>1, <4>1, KeptMore
    <3> QED
      BY <3>2, <2>1 DEF Inv, WishKept, Told
  <2> QED
    BY <2>5, <2>6, <2>7 DEF Inv
<1> QED
  BY <1>1, <1>2

LEMMA TruncateInv == Inv /\ Truncate => Inv'
<1> SUFFICES ASSUME Inv, Truncate PROVE Inv'
  OBVIOUS
<1>1. /\ pc \in {"save1", "save2"} /\ then' = (IF pc = "save1" THEN "init" ELSE "run")
      /\ pc' \in {"write", then'}
      /\ file' \in {file, [is |-> "torn", doc |-> Empty]}
      /\ mishaps' \in 0..MaxMishaps
      /\ UNCHANGED <<data, wishes, edits>>
  BY ConfigurationAssumption DEF Inv, TypeOK, Truncate, Mishap
<1>2. TypeOK'
  BY <1>1, EmptyDomain DEF Inv, TypeOK
<1>3. StagesInv'
  <2>1. Place = pc /\ Place' = (IF pc = "save1" THEN "init" ELSE "run")
    BY <1>1 DEF Place
  <2> QED
    BY <1>1, <2>1 DEF Inv, StagesInv, Before
<1>4. WishKept'
  <2>1. Told(data) /\ UNCHANGED <<wishes, data>>
    BY <1>1 DEF Inv, WishKept, StartsUp
  <2>2. (file' = file /\ mishaps' > 0) \/ (file'.is = "torn" /\ pc' = "write")
    <3>1. CASE Mishap /\ UNCHANGED file
      BY <3>1, ConfigurationAssumption DEF Mishap, Inv, TypeOK
    <3>2. CASE file' = [is |-> "torn", doc |-> Empty] /\ pc' = "write"
      BY <3>2
    <3> QED
      BY <3>1, <3>2 DEF Truncate
  <2> QED
    BY <2>1, <2>2 DEF Inv, WishKept, Told
<1> QED
  BY <1>2, <1>3, <1>4 DEF Inv

LEMMA WriteInv == Inv /\ Write => Inv'
<1> SUFFICES ASSUME Inv, Write PROVE Inv'
  OBVIOUS
<1>1. /\ pc = "write" /\ pc' = then /\ then \in {"init", "run"}
      /\ file' \in {file, [is |-> "json", doc |-> data], [is |-> "torn", doc |-> Empty]}
      /\ mishaps' \in 0..MaxMishaps
      /\ UNCHANGED <<data, then, wishes, edits>>
  BY ConfigurationAssumption DEF Inv, TypeOK, StagesInv, Write, Mishap
<1>2. TypeOK'
  BY <1>1, EmptyDomain DEF Inv, TypeOK
<1>3. StagesInv'
  <2>1. Place = then /\ Place' = then
    BY <1>1 DEF Place
  <2> QED
    BY <1>1, <2>1 DEF Inv, StagesInv, Before
<1>4. WishKept'
  <2>1. Told(data) /\ UNCHANGED <<wishes, data>>
    BY <1>1 DEF Inv, WishKept, StartsUp
  <2>2. \/ file'.is = "json" /\ file'.doc = data
        \/ file'.is = "json" /\ file' = file
        \/ file'.is = "torn" /\ mishaps' > 0
    BY ConfigurationAssumption DEF Write, Mishap, Inv, TypeOK
  <2> QED
    BY <2>1, <2>2 DEF Inv, WishKept, Told
<1> QED
  BY <1>2, <1>3, <1>4 DEF Inv

LEMMA LoopInv == Inv /\ Loop => Inv'
<1> SUFFICES ASSUME Inv, Loop PROVE Inv'
  OBVIOUS
<1>1. CASE UNCHANGED vars
  BY <1>1 DEF Inv, TypeOK, StagesInv, Place, Before, WishKept, Told, StartsUp, vars
<1>2. CASE Dies /\ UNCHANGED <<file, wishes, edits, mishaps>>
  <2>1. pc # "write"
    BY DEF Loop
  <2> QED
    BY <1>2, <2>1, DiesInv DEF Inv, TypeOK
<1> QED
  BY <1>1, <1>2 DEF Loop

LEMMA NextInv == Inv /\ [Next]_vars => Inv'
<1> SUFFICES ASSUME Inv, [Next]_vars PROVE Inv'
  OBVIOUS
<1>1. CASE Edit
  BY <1>1, EditInv
<1>2. CASE Start
  BY <1>2, StartInv
<1>3. CASE Crash
  BY <1>3, CrashInv
<1>4. CASE Load
  BY <1>4, LoadInv
<1>5. CASE Stage
  BY <1>5, StageInv
<1>6. CASE Truncate
  BY <1>6, TruncateInv
<1>7. CASE Write
  BY <1>7, WriteInv
<1>8. CASE Loop
  BY <1>8, LoopInv
<1>9. CASE UNCHANGED vars
  BY <1>9 DEF Inv, TypeOK, StagesInv, Place, Before, WishKept, Told, StartsUp, vars
<1> QED
  BY <1>1, <1>2, <1>3, <1>4, <1>5, <1>6, <1>7, <1>8, <1>9 DEF Next, Main

(***************************************************************************)
(* Theorems                                                                *)
(***************************************************************************)
LEMMA InvHolds == Spec => []Inv
<1>1. Init => Inv
  BY InitInv
<1>2. Inv /\ [Next]_vars => Inv'
  BY NextInv
<1> QED
  BY <1>1, <1>2, PTL DEF Spec

\* main and the service manager are at one of their stages, documents have settings
\* of the program only, and a file that is no document has none
THEOREM TypeCorrect == Spec => []TypeOK
<1>1. Inv => TypeOK
  BY DEF Inv
<1> QED
  BY <1>1, InvHolds, PTL

\* Whatever documents the operator writes and however often: a file that is a document
\* has his last settings, or his last but one whole, and it is one unless a death or a
\* full disk met a save; then no start-up makes a document of it
THEOREM SettingsSurvive == Spec => []WishKept
<1>1. Inv => WishKept
  BY DEF Inv
<1> QED
  BY <1>1, InvHolds, PTL

\* Whatever the file was, the threads find every setting and a level that is one
THEOREM ThreadsOnlyRead == Spec => []NothingToInsert
<1>1. Inv => NothingToInsert
  BY SettingsFacts DEF Inv, TypeOK, StagesInv, Place, Before, NothingToInsert
<1> QED
  BY <1>1, InvHolds, PTL
=============================================================================
