------------------------ MODULE ResourceEventsProofs ------------------------
(***************************************************************************)
(* Theorems about ResourceEvents, for any rules, samples, backends and     *)
(* bounds: type correctness; one open row per writer and rule; the balance *)
(* of rows and alerts; the refinement of AlarmBook; what is stored of the  *)
(* lines; that the open rows agree with the last line; and what the rows   *)
(* of a lone backend say of the lines it has gone through.                 *)
(***************************************************************************)
EXTENDS ResourceEvents, SequenceTheorems, FiniteSetTheorems, TLAPS

\* A function on the domain of a sequence, with values in S, is a sequence.
LEMMA MapIsSeq ==
    ASSUME NEW S, NEW T, NEW s \in Seq(T), NEW g \in [DOMAIN s -> S]
    PROVE  g \in Seq(S) /\ Len(g) = Len(s)
<1>1. Len(s) \in Nat /\ DOMAIN s = 1..Len(s)
  OBVIOUS
<1>2. g \in [1..Len(s) -> S]
  BY <1>1
<1>3. g \in Seq(S)
  BY <1>1, <1>2, SeqDef
<1> QED
  BY <1>1, <1>2, <1>3

\* asFloat() maps a line number to a natural number.
LEMMA StampType == ASSUME NEW i \in Nat PROVE Stamp(i) \in Nat
<1>1. Grain \in Nat /\ Grain > 0
  BY BoundsAssumption
<1>2. \A x, y \in Nat : y > 0 => x \div y \in Nat
  OBVIOUS
<1>3. \A x, y \in Nat : x * y \in Nat
  OBVIOUS
<1>4. 2 * i + Grain \in Nat /\ 2 * Grain \in Nat /\ 2 * Grain > 0
  BY <1>1
<1> QED
  BY <1>1, <1>2, <1>3, <1>4 DEF Stamp

\* Before any process runs: empty tables, nothing in memory.
LEMMA InitTypeOK == Init => TypeOK
<1> SUFFICES ASSUME Init PROVE TypeOK
  OBVIOUS
<1>1. TypeStore
  BY BoundsAssumption DEF Init, TypeStore, EventRow, Null
<1>2. TypeThread
  BY DEF Init, TypeThread
<1>3. TypeEvents
  BY DEF Init, TypeEvents
<1>4. TypeBounds
  BY BoundsAssumption DEF Init, TypeBounds
<1> QED
  BY <1>1, <1>2, <1>3, <1>4 DEF TypeOK

-----------------------------------------------------------------------------
(***************************************************************************)
(* One lemma per action, or per group of actions with the same effects.    *)
(***************************************************************************)
\* A line the agent reports or an edit of event_factory leaves the rest alone.
LEMMA EnvironmentTypeOK ==
    ASSUME TypeOK, AgentReports \/ EditFactory PROVE TypeOK'
<1> USE DEF TypeOK, memory
<1>1. CASE AgentReports
  <2>1. lines' \in Seq(Samples) /\ Len(lines') = Len(lines) + 1 /\ Len(lines') <= MaxLines
    BY <1>1, BoundsAssumption DEF AgentReports, TypeStore
  <2>2. TypeStore'
    BY <1>1, <2>1 DEF AgentReports, TypeStore, EventRow
  <2>3. TypeThread'
    BY <1>1, <2>1 DEF AgentReports, TypeStore, TypeThread
  <2> QED
    BY <1>1, <2>2, <2>3 DEF AgentReports, TypeEvents, TypeBounds
<1>2. CASE EditFactory
  <2>1. TypeStore'
    <3> HIDE DEF TypeOK
    <3>1. TypeStore
      BY DEF TypeOK
    <3>2. UNCHANGED <<lines, rows, data, alerts>>
      BY <1>2 DEF EditFactory
    <3>3. PICK e \in Rules : factoryTable' \in {factoryTable \cup {e}, factoryTable \ {e}}
      BY <1>2 DEF EditFactory
    <3>4. factoryTable' \subseteq Rules
      BY <3>1, <3>3 DEF TypeStore
    <3> QED
      BY <3>1, <3>2, <3>4 DEF TypeStore
  <2>2. UNCHANGED <<lines, rows>> /\ UNCHANGED memory
    BY <1>2 DEF EditFactory
  <2>3. TypeThread'
    BY <2>2 DEF TypeThread
  <2>4. TypeEvents'
    BY <2>2 DEF TypeEvents
  <2>5. TypeBounds'
    BY <1>2, BoundsAssumption DEF EditFactory, TypeBounds
  <2> QED
    BY <2>1, <2>3, <2>4, <2>5
<1> QED
  BY <1>1, <1>2

\* A row of res_events is a record of the table.
LEMMA RowType ==
    ASSUME TypeOK, NEW id \in DOMAIN rows
    PROVE  id \in 1..Len(rows) /\ rows[id] \in EventRow
BY DEF TypeOK, TypeStore

\* ressourceClient::init fills current_events with ids of existing rows.
LEMMA LoadTypeOK ==
    ASSUME TypeOK, NEW b \in Backends, Start(b) \/ StartDegraded(b) PROVE TypeOK'
<1>1. PICK ids \in SUBSET OpenIds, rules \in SUBSET factoryTable : Load(b, ids, rules)
  BY DEF Start, StartDegraded
<1>2. TypeBounds'
  BY BoundsAssumption DEF Start, StartDegraded, Fault, Load, TypeOK, TypeBounds
<1>3. TypeStore'
  BY <1>1 DEF Load, TypeOK, TypeStore, EventRow
<1>4. TypeThread'
  BY <1>1 DEF Load, TypeOK, TypeThread, TypeStore
<1>5. \A id \in OpenIds : id \in 0..Len(rows) /\ rows[id].rule \in Rules
  <2> SUFFICES ASSUME NEW id \in OpenIds PROVE id \in 0..Len(rows) /\ rows[id].rule \in Rules
    OBVIOUS
  <2>1. id \in 1..Len(rows) /\ rows[id] \in EventRow
    BY RowType DEF OpenIds
  <2> QED
    BY <2>1 DEF EventRow
<1>6. TypeEvents'
  BY <1>1, <1>5 DEF Load, TypeOK, TypeThread, TypeEvents
<1> QED
  BY <1>2, <1>3, <1>4, <1>6 DEF TypeOK

\* The process ends: nothing of it is left in memory.
LEMMA ForgetTypeOK ==
    ASSUME TypeOK, NEW b \in Backends, Crash(b) \/ AlertKills(b) PROVE TypeOK'
<1>1. Forget(b) /\ UNCHANGED <<lines, factoryTable, rows, data, alerts, edits>>
  BY DEF Crash, AlertKills, Forget
<1>2. TypeBounds'
  BY BoundsAssumption DEF Crash, AlertKills, Fault, Forget, TypeOK, TypeBounds
<1>3. TypeStore'
  BY <1>1 DEF TypeOK, TypeStore, EventRow
<1>4. TypeThread'
  BY <1>1 DEF Forget, TypeOK, TypeThread, TypeStore
<1>5. TypeEvents'
  BY <1>1 DEF Forget, TypeOK, TypeThread, TypeEvents
<1> QED
  BY <1>2, <1>3, <1>4, <1>5 DEF TypeOK

\* collect() moves since to the end of the buffer and enters a line of it.
LEMMA PollTypeOK ==
    ASSUME TypeOK, NEW b \in Backends, Poll(b) \/ PollErrorBody(b) PROVE TypeOK'
<1>1. TypeBounds'
  BY BoundsAssumption DEF Poll, PollErrorBody, Fault, TypeOK, TypeBounds
<1>2. TypeStore'
  BY DEF Poll, PollErrorBody, TypeOK, TypeStore, EventRow
<1>3. Len(lines) \in Nat
  BY DEF TypeOK, TypeStore
<1>4. TypeThread'
  <2>1. CASE Poll(b)
    <3>1. since[b] \in 0..Len(lines) /\ since[b] + 1 \in 1..Len(lines)
      BY <1>3, <2>1 DEF Poll, TypeOK, TypeThread
    <3>2. Crossed(b, since[b] + 1) \subseteq Rules
      BY DEF Crossed, TypeOK, TypeThread
    <3>3. \A c \in Backends : pc'[c] \in {"compare", "alert", "end"} => line'[c] \in 1..since'[c]
      BY <1>3, <2>1, <3>1 DEF Poll, Enter, TypeOK, TypeThread
    <3> QED
      BY <1>3, <2>1, <3>1, <3>2, <3>3 DEF Poll, Enter, TypeOK, TypeThread
  <2>2. CASE PollErrorBody(b)
    BY <1>3, <2>2 DEF PollErrorBody, TypeOK, TypeThread
  <2> QED
    BY <2>1, <2>2
<1>5. TypeEvents'
  BY DEF Poll, PollErrorBody, Enter, TypeOK, TypeThread, TypeEvents
<1> QED
  BY <1>1, <1>2, <1>4, <1>5 DEF TypeOK

\* The update of current_value keeps the table well formed.
LEMMA WithValueType ==
    ASSUME TypeOK, NEW id, NEW v \in Int \cup {NoValue}
    PROVE  WithValue(id, v) \in Seq(EventRow) /\ Len(WithValue(id, v)) = Len(rows)
<1>1. \A i \in DOMAIN rows : rows[i] \in EventRow
  BY RowType
<1>2. WithValue(id, v) \in [DOMAIN rows -> EventRow]
  BY <1>1 DEF WithValue, EventRow
<1> QED
  BY <1>2, MapIsSeq DEF TypeOK, TypeStore

\* The update of end_time keeps the table well formed.
LEMMA WithEndType ==
    ASSUME TypeOK, NEW id, NEW t \in Nat
    PROVE  WithEnd(id, t) \in Seq(EventRow) /\ Len(WithEnd(id, t)) = Len(rows)
<1>1. \A i \in DOMAIN rows : rows[i] \in EventRow
  BY RowType
<1>2. WithEnd(id, t) \in [DOMAIN rows -> EventRow]
  BY <1>1 DEF WithEnd, EventRow
<1> QED
  BY <1>2, MapIsSeq DEF TypeOK, TypeStore

\* The line being parsed exists, and what it reports is an integer or nothing.
LEMMA LineType ==
    ASSUME TypeOK, NEW b \in Backends, pc[b] \in {"compare", "alert", "end"}
    PROVE  /\ line[b] \in 1..since[b] /\ since[b] \in 0..Len(lines)
           /\ line[b] \in 1..Len(lines)
           /\ \A e \in Rules : lines[line[b]][e.property] \in Int \cup {NoValue}
<1>1. line[b] \in 1..since[b] /\ since[b] \in 0..Len(lines) /\ Len(lines) \in Nat
  BY DEF TypeOK, TypeThread, TypeStore
<1>2. line[b] \in 1..Len(lines)
  BY <1>1
<1>3. lines[line[b]] \in Samples
  BY <1>2, ElementOfSeq DEF TypeOK, TypeStore
<1> QED
  BY <1>1, <1>2, <1>3, SamplesAssumption

\* The factory loop on a tracked event: an update by id.
LEMMA UpdateTypeOK ==
    ASSUME TypeOK, NEW b \in Backends, NEW e \in Rules, RuleUpdates(b, e) PROVE TypeOK'
<1>1. TypeBounds'
  BY BoundsAssumption DEF RuleUpdates, Fault, TypeOK, TypeBounds
<1>2. rows' \in Seq(EventRow) /\ Len(rows') = Len(rows)
  <2>1. CASE rows' = WithValue(Found(b, e), lines[line[b]][e.property])
    BY <2>1, LineType, WithValueType DEF RuleUpdates
  <2>2. CASE rows' = rows
    BY <2>2 DEF TypeOK, TypeStore
  <2> QED
    BY <2>1, <2>2 DEF RuleUpdates
<1>3. TypeStore'
  BY <1>2 DEF RuleUpdates, TypeOK, TypeStore, EventRow
<1>4. lastId' \in [Backends -> 0..Len(rows')]
  <2>1. Len(rows) \in Nat /\ lastId \in [Backends -> 0..Len(rows)]
    BY DEF TypeOK, TypeStore, TypeThread
  <2>2. lastId' = lastId \/ lastId' = [lastId EXCEPT ![b] = 0]
    BY DEF RuleUpdates
  <2> QED
    BY <1>2, <2>1, <2>2
<1>5. TypeThread'
  BY <1>4 DEF RuleUpdates, TypeOK, TypeThread
<1>6. TypeEvents'
  BY <1>2 DEF RuleUpdates, TypeOK, TypeEvents
<1> QED
  BY <1>1, <1>3, <1>5, <1>6 DEF TypeOK

\* The factory loop on a new event: an insert, or a failed one.
LEMMA OpenTypeOK ==
    ASSUME TypeOK, NEW b \in Backends, NEW e \in Rules,
           RuleOpens(b, e) \/ RuleOpenFails(b, e)
    PROVE  TypeOK'
<1>1. TypeBounds'
  BY BoundsAssumption DEF RuleOpens, RuleOpenFails, Remember, Fault, TypeOK, TypeBounds
<1>2. Len(rows) \in Nat /\ rows' \in Seq(EventRow) /\ Len(rows') \in {Len(rows), Len(rows) + 1}
  <2>1. CASE RuleOpens(b, e)
    <3>1. [rule |-> e, by |-> b, start |-> Stamp(line[b]), end |-> Null,
           current_value |-> lines[line[b]][e.property]] \in EventRow
      <4>1. pc[b] = "compare"
        BY <2>1 DEF RuleOpens, Remember
      <4>2. line[b] \in Nat /\ lines[line[b]][e.property] \in Int \cup {NoValue}
        BY <4>1, LineType
      <4>3. Stamp(line[b]) \in Nat
        BY <4>2, StampType
      <4> QED
        BY <4>2, <4>3 DEF EventRow
    <3> QED
      BY <2>1, <3>1, AppendProperties DEF RuleOpens, TypeOK, TypeStore
  <2>2. CASE RuleOpenFails(b, e)
    BY <2>2 DEF RuleOpenFails, TypeOK, TypeStore
  <2> QED
    BY <2>1, <2>2
<1>3. PICK id \in 0..Len(rows') : Remember(b, id, e)
  BY <1>2 DEF RuleOpens, RuleOpenFails, TypeOK, TypeThread, TypeStore
<1>4. TypeStore'
  BY <1>2, <1>3 DEF Remember, TypeOK, TypeStore, EventRow
<1>5. lastId' \in [Backends -> 0..Len(rows')]
  BY <1>2 DEF RuleOpens, RuleOpenFails, TypeOK, TypeThread
<1>6. TypeThread'
  BY <1>3, <1>5 DEF Remember, TypeOK, TypeThread
<1>7. TypeEvents'
  BY <1>2, <1>3 DEF Remember, Put, TypeOK, TypeThread, TypeEvents
<1> QED
  BY <1>1, <1>4, <1>6, <1>7 DEF TypeOK

\* The alert is sent, lost, or ends the process.
LEMMA AlertTypeOK ==
    ASSUME TypeOK, NEW b \in Backends, SendAlert(b) \/ AlertLost(b) PROVE TypeOK'
<1>1. AlertReturns(b)
  BY DEF SendAlert, AlertLost
<1>2. TypeBounds'
  BY BoundsAssumption DEF SendAlert, AlertLost, AlertReturns, Fault, TypeOK, TypeBounds
<1>3. alerts' \in [Rules -> Nat]
  BY DEF SendAlert, AlertLost, TypeOK, TypeStore
<1>4. TypeStore'
  BY <1>1, <1>3 DEF AlertReturns, TypeOK, TypeStore, EventRow
<1>5. TypeThread'
  BY <1>1 DEF AlertReturns, TypeOK, TypeThread
<1>6. TypeEvents'
  BY <1>1 DEF AlertReturns, TypeOK, TypeThread, TypeEvents
<1> QED
  BY <1>2, <1>4, <1>5, <1>6 DEF TypeOK

\* The closing loop starts with ids that are in current_events.
LEMMA RulesDoneTypeOK ==
    ASSUME TypeOK, NEW b \in Backends, RulesDone(b) PROVE TypeOK'
<1>1. TypeBounds'
  BY DEF RulesDone, TypeOK, TypeBounds
<1>2. TypeStore'
  BY DEF RulesDone, TypeOK, TypeStore, EventRow
<1>3. TypeThread'
  BY DEF RulesDone, TypeOK, TypeThread
<1>4. TypeEvents'
  BY DEF RulesDone, Returned, TypeOK, TypeThread, TypeEvents
<1> QED
  BY <1>1, <1>2, <1>3, <1>4 DEF TypeOK

\* What one turn of the closing loop does to the rows and the memory of b.
LEMMA EndEventEffect ==
    ASSUME NEW b \in Backends, EndEvent(b)
    PROVE  \E id \in ending[b] :
              /\ \/ faults' = faults /\ rows' = WithEnd(id, Stamp(line[b]))
                 \/ Fault /\ rows' = rows
              /\ lastId' \in {lastId, [lastId EXCEPT ![b] = 0]}
              /\ current' = [current EXCEPT ![b] = Drop(current[b], id)]
              /\ \E rest \in SUBSET (ending[b] \ {id}) : ending' = [ending EXCEPT ![b] = rest]
<1>1. PICK id \in Least(ending[b]) :
          /\ \/ /\ rows' = WithEnd(id, Stamp(line[b]))
                /\ lastId' = [lastId EXCEPT ![b] = 0]
                /\ UNCHANGED faults
             \/ Fault /\ UNCHANGED <<rows, lastId>>
          /\ current' = [current EXCEPT ![b] = Drop(current[b], id)]
          /\ \/ ending' = [ending EXCEPT ![b] = ending[b] \ {id}]
             \/ \E next \in Least(ending[b] \ {id}) :
                   ending' = [ending EXCEPT ![b] = ending[b] \ {id, next}]
  BY DEF EndEvent
<1>2. id \in ending[b]
  BY DEF Least
<1>3. \E rest \in SUBSET (ending[b] \ {id}) : ending' = [ending EXCEPT ![b] = rest]
  BY <1>1
<1> QED
  BY <1>1, <1>2, <1>3

\* One turn of the closing loop: an update by id and an erase.
LEMMA EndEventTypeOK ==
    ASSUME TypeOK, NEW b \in Backends, EndEvent(b) PROVE TypeOK'
<1>1. PICK id \in ending[b] :
            /\ rows' = WithEnd(id, Stamp(line[b])) \/ rows' = rows
            /\ lastId' \in {lastId, [lastId EXCEPT ![b] = 0]}
            /\ current' = [current EXCEPT ![b] = Drop(current[b], id)]
            /\ \E rest \in SUBSET (ending[b] \ {id}) : ending' = [ending EXCEPT ![b] = rest]
  BY EndEventEffect
<1>2. TypeBounds'
  BY BoundsAssumption DEF EndEvent, Fault, TypeOK, TypeBounds
<1>3. Stamp(line[b]) \in Nat
  BY LineType, StampType DEF EndEvent
<1>4. rows' \in Seq(EventRow) /\ Len(rows') = Len(rows) /\ Len(rows) \in Nat
  BY <1>1, <1>3, WithEndType DEF TypeOK, TypeStore
<1>5. TypeStore'
  BY <1>4 DEF EndEvent, TypeOK, TypeStore, EventRow
<1>6. lastId' \in [Backends -> 0..Len(rows')]
  <2>1. lastId \in [Backends -> 0..Len(rows)]
    BY DEF TypeOK, TypeThread
  <2>2. lastId' = lastId \/ lastId' = [lastId EXCEPT ![b] = 0]
    BY <1>1
  <2> QED
    BY <1>4, <2>1, <2>2
<1>7. TypeThread'
  BY <1>6 DEF EndEvent, TypeOK, TypeThread
<1>8. TypeEvents'
  <2>1. DOMAIN current' = Backends /\ DOMAIN ending' = Backends
    BY <1>1 DEF TypeOK, TypeEvents
  <2>2. ASSUME NEW c \in Backends
        PROVE  /\ DOMAIN current'[c] \subseteq 0..Len(rows')
               /\ \A i \in DOMAIN current'[c] : current'[c][i] \in Rules
               /\ ending'[c] \subseteq DOMAIN current'[c]
               /\ ending'[c] # {} => pc'[c] = "end"
    <3>1. CASE c = b
      <4>1. current'[c] = [i \in DOMAIN current[b] \ {id} |-> current[b][i]]
        BY <1>1, <3>1 DEF Drop, TypeOK, TypeEvents
      <4>2. ending'[c] \subseteq ending[b] \ {id}
        BY <1>1, <3>1 DEF TypeOK, TypeEvents
      <4> QED
        BY <1>4, <3>1, <4>1, <4>2 DEF EndEvent, TypeOK, TypeEvents
    <3>2. CASE c # b
      <4>1. current'[c] = current[c] /\ ending'[c] = ending[c] /\ pc' = pc
        BY <1>1, <3>2 DEF EndEvent, TypeOK, TypeEvents
      <4> QED
        BY <1>4, <4>1 DEF TypeOK, TypeEvents
    <3> QED
      BY <3>1, <3>2
  <2> QED
    BY <2>1, <2>2 DEF TypeEvents
<1> QED
  BY <1>2, <1>5, <1>7, <1>8 DEF TypeOK

\* The line goes to the d$ table and the thread to the next line.
LEMMA LoadLineTypeOK ==
    ASSUME TypeOK, NEW b \in Backends, LoadLine(b) PROVE TypeOK'
<1>1. TypeBounds'
  BY BoundsAssumption DEF LoadLine, Fault, TypeOK, TypeBounds
<1>2. line[b] \in 1..since[b] /\ since[b] \in 0..Len(lines) /\ line[b] \in 1..Len(lines)
  BY LineType DEF LoadLine
<1>3. \A s \in DOMAIN data' : data'[s] \in 1..Len(lines)
  BY <1>2 DEF LoadLine, Put, TypeOK, TypeStore
<1>4. TypeStore'
  BY <1>3 DEF LoadLine, TypeOK, TypeStore, EventRow
<1>5. lastId' \in [Backends -> 0..Len(rows)]
  <2>1. Len(rows) \in Nat /\ lastId \in [Backends -> 0..Len(rows)]
    BY DEF TypeOK, TypeStore, TypeThread
  <2>2. lastId' = lastId \/ lastId' = [lastId EXCEPT ![b] = 0]
    BY DEF LoadLine
  <2> QED
    BY <2>1, <2>2
<1>6. TypeThread'
  <2>1. CASE line[b] < since[b] /\ Enter(b, line[b] + 1)
    BY <1>2, <1>5, <2>1 DEF LoadLine, Enter, Crossed, TypeOK, TypeThread, TypeStore
  <2>2. CASE /\ pc' = [pc EXCEPT ![b] = "poll"]
             /\ line' = [line EXCEPT ![b] = 0]
             /\ UNCHANGED todo
    BY <1>5, <2>2 DEF LoadLine, TypeOK, TypeThread, TypeStore
  <2> QED
    BY <2>1, <2>2 DEF LoadLine
<1>7. TypeEvents'
  BY DEF LoadLine, Enter, TypeOK, TypeThread, TypeEvents
<1> QED
  BY <1>1, <1>4, <1>6, <1>7 DEF TypeOK

\* Every step, or a stutter, keeps the types.
LEMMA StepTypeOK == TypeOK /\ [Next]_vars => TypeOK'
<1> SUFFICES ASSUME TypeOK, [Next]_vars PROVE TypeOK'
  OBVIOUS
<1>1. CASE UNCHANGED vars
  BY <1>1 DEF vars, memory, TypeOK, TypeStore, EventRow, TypeThread, TypeEvents, TypeBounds
<1>2. CASE AgentReports \/ EditFactory
  BY <1>2, EnvironmentTypeOK
<1>3. ASSUME NEW b \in Backends, Start(b) \/ StartDegraded(b) \/ Crash(b) PROVE TypeOK'
  BY <1>3, LoadTypeOK, ForgetTypeOK
<1>4. ASSUME NEW b \in Backends, Process(b) PROVE TypeOK'
  <2>1. CASE Poll(b) \/ PollErrorBody(b)
    BY <2>1, PollTypeOK
  <2>2. CASE PollNothing(b)
    BY <1>1, <2>2 DEF PollNothing
  <2>3. CASE \E e \in Rules : RuleUpdates(b, e) \/ RuleOpens(b, e) \/ RuleOpenFails(b, e)
    BY <2>3, UpdateTypeOK, OpenTypeOK
  <2>4. CASE SendAlert(b) \/ AlertLost(b) \/ AlertKills(b)
    BY <2>4, AlertTypeOK, ForgetTypeOK
  <2>5. CASE RulesDone(b) \/ EndEvent(b) \/ LoadLine(b)
    BY <2>5, RulesDoneTypeOK, EndEventTypeOK, LoadLineTypeOK
  <2> QED
    BY <1>4, <2>1, <2>2, <2>3, <2>4, <2>5 DEF Process
<1> QED
  BY <1>1, <1>2, <1>3, <1>4 DEF Next

\* Types hold in every reachable state: ids name rows, a thread that parses is
\* on an existing line, the closing loop walks tracked events only.
THEOREM TypeCorrect == Spec => []TypeOK
<1> QED
  BY InitTypeOK, StepTypeOK, PTL DEF Spec

-----------------------------------------------------------------------------
(***************************************************************************)
(* One open row per writer and rule, when no statement fails.  By itself   *)
(* it is not inductive: a backend inserts after a look at its own memory,  *)
(* so the memory of a running backend must hold every open row it wrote,   *)
(* under the row's id and with the row's rule.                             *)
(***************************************************************************)
WriterRemembers ==
    \A id \in OpenIds :
        LET b == rows[id].by
        IN  pc[b] # "down" => id \in DOMAIN current[b] /\ current[b][id] = rows[id].rule

UniqueInv == TypeOK /\ WriterRemembers /\ OneOpenPerWriter

\* A step that touches neither the rows nor what a running backend remembers
LEMMA QuietStep ==
    ASSUME UniqueInv, TypeOK', rows' = rows,
           \A b \in Backends : pc'[b] # "down" => pc[b] # "down" /\ current'[b] = current[b]
    PROVE  UniqueInv'
<1>1. \A id \in OpenIds : rows[id].by \in Backends
  BY RowType DEF UniqueInv, OpenIds, EventRow
<1> QED
  BY <1>1 DEF UniqueInv, WriterRemembers, OneOpenPerWriter, OpenIds

\* init() loads every open row, so a restarted backend remembers its own.
LEMMA LoadUnique ==
    ASSUME UniqueInv, TypeOK', NEW b \in Backends, Start(b) PROVE UniqueInv'
<1>1. \A id \in OpenIds : rows[id].by \in Backends
  BY RowType DEF UniqueInv, OpenIds, EventRow
<1>2. rows' = rows /\ OpenIds' = OpenIds
  BY DEF Start, Load, OpenIds
<1>3. current'[b] = [id \in OpenIds |-> rows[id].rule]
  BY DEF Start, Load, UniqueInv, TypeOK, TypeEvents
<1>4. \A c \in Backends \ {b} : pc'[c] = pc[c] /\ current'[c] = current[c]
  BY DEF Start, Load, UniqueInv, TypeOK, TypeThread, TypeEvents
<1> QED
  BY <1>1, <1>2, <1>3, <1>4 DEF UniqueInv, WriterRemembers, OneOpenPerWriter

\* The update of current_value changes neither who wrote a row, nor its rule,
\* nor whether it is open.
LEMMA UpdateUnique ==
    ASSUME UniqueInv, TypeOK', NEW b \in Backends, NEW e \in Rules, RuleUpdates(b, e)
    PROVE  UniqueInv'
<1>1. \A id \in DOMAIN rows : id \in 1..Len(rows) /\ rows[id] \in EventRow
  BY RowType DEF UniqueInv
<1>2. /\ DOMAIN rows' = DOMAIN rows
      /\ \A id \in DOMAIN rows : /\ rows'[id].by = rows[id].by
                               /\ rows'[id].rule = rows[id].rule
                               /\ rows'[id].end = rows[id].end
  BY <1>1 DEF RuleUpdates, WithValue, EventRow
<1>3. OpenIds' = OpenIds
  BY <1>2 DEF OpenIds
<1>4. pc' = pc /\ current' = current
  BY DEF RuleUpdates
<1>5. \A id \in OpenIds : rows'[id].by = rows[id].by /\ rows'[id].rule = rows[id].rule
  BY <1>2 DEF OpenIds
<1> QED
  BY <1>3, <1>4, <1>5 DEF UniqueInv, WriterRemembers, OneOpenPerWriter

\* The insert: the backend has no tracked event for the rule, hence no open row.
LEMMA OpenUnique ==
    ASSUME UniqueInv, TypeOK', NEW b \in Backends, NEW e \in Rules, RuleOpens(b, e)
    PROVE  UniqueInv'
<1> DEFINE new == Len(rows) + 1
<1>1. \A id \in DOMAIN rows : id \in 1..Len(rows) /\ rows[id] \in EventRow
  BY RowType DEF UniqueInv
<1>2. /\ Len(rows) \in Nat /\ DOMAIN rows = 1..Len(rows) /\ DOMAIN rows' = 1..new
      /\ \A id \in DOMAIN rows : rows'[id] = rows[id]
      /\ rows'[new].by = b /\ rows'[new].rule = e
  BY DEF RuleOpens, UniqueInv, TypeOK, TypeStore
<1>3. OpenIds' \subseteq OpenIds \cup {new} /\ new \notin OpenIds
  BY <1>2 DEF OpenIds
<1>4. pc[b] = "compare" /\ Tracked(b, e) = {}
  BY DEF RuleOpens, Remember
<1>5. ASSUME NEW id \in OpenIds, rows[id].by = b PROVE rows[id].rule # e
  <2>1. id > 0 /\ id \in DOMAIN current[b] /\ current[b][id] = rows[id].rule
    BY <1>1, <1>2, <1>4, <1>5 DEF UniqueInv, WriterRemembers, OpenIds
  <2> QED
    BY <1>4, <2>1 DEF Tracked
<1>6. OneOpenPerWriter'
  <2> SUFFICES ASSUME NEW i \in OpenIds', NEW j \in OpenIds',
                      rows'[i].by = rows'[j].by, rows'[i].rule = rows'[j].rule
               PROVE  i = j
    BY DEF OneOpenPerWriter
  <2>1. CASE i \in OpenIds /\ j \in OpenIds
    BY <1>2, <2>1 DEF UniqueInv, OneOpenPerWriter, OpenIds
  <2>2. CASE i = new /\ j \in OpenIds
    BY <1>2, <1>5, <2>2 DEF OpenIds
  <2>3. CASE i \in OpenIds /\ j = new
    BY <1>2, <1>5, <2>3 DEF OpenIds
  <2> QED
    BY <1>3, <2>1, <2>2, <2>3
<1>7. /\ current'[b] = Put(current[b], new, e)
      /\ \A c \in Backends \ {b} : pc'[c] = pc[c] /\ current'[c] = current[c]
  BY DEF RuleOpens, Remember, UniqueInv, TypeOK, TypeThread, TypeEvents
<1>8. WriterRemembers'
  <2> SUFFICES ASSUME NEW id \in OpenIds', pc'[rows'[id].by] # "down"
               PROVE  /\ id \in DOMAIN current'[rows'[id].by]
                      /\ current'[rows'[id].by][id] = rows'[id].rule
    BY DEF WriterRemembers
  <2>1. CASE id = new
    BY <1>2, <1>7, <2>1 DEF Put
  <2>2. CASE id \in OpenIds /\ rows[id].by = b
    <3>1. id \in DOMAIN current[b] /\ current[b][id] = rows[id].rule
      BY <1>4, <2>2 DEF UniqueInv, WriterRemembers
    <3>2. id # new /\ rows'[id] = rows[id]
      BY <1>2, <1>3, <2>2 DEF OpenIds
    <3> QED
      BY <1>7, <2>2, <3>1, <3>2 DEF Put
  <2>3. CASE id \in OpenIds /\ rows[id].by # b
    <3>1. rows'[id] = rows[id] /\ rows[id].by \in Backends \ {b}
      BY <1>1, <1>2, <2>3 DEF OpenIds, EventRow
    <3> QED
      BY <1>7, <2>3, <3>1 DEF UniqueInv, WriterRemembers
  <2> QED
    BY <1>3, <2>1, <2>2, <2>3
<1> QED
  BY <1>6, <1>8 DEF UniqueInv

\* The close: the row that is forgotten is the row that was ended, whoever
\* wrote it.
LEMMA EndUnique ==
    ASSUME UniqueInv, TypeOK', NEW b \in Backends, EndEvent(b), faults' = faults,
           faults \in Nat
    PROVE  UniqueInv'
<1>1. PICK id \in ending[b] : /\ rows' = WithEnd(id, Stamp(line[b]))
                              /\ current' = [current EXCEPT ![b] = Drop(current[b], id)]
  BY EndEventEffect DEF Fault
<1>2. Stamp(line[b]) # Null
  <2>1. Stamp(line[b]) \in Nat
    BY LineType, StampType DEF EndEvent, UniqueInv
  <2> QED
    BY <2>1 DEF Null
<1>3. \A i \in DOMAIN rows : i \in 1..Len(rows) /\ rows[i] \in EventRow
  BY RowType DEF UniqueInv
<1>4. /\ DOMAIN rows' = DOMAIN rows
      /\ \A i \in DOMAIN rows : rows'[i].by = rows[i].by /\ rows'[i].rule = rows[i].rule
      /\ \A i \in DOMAIN rows : i # id => rows'[i] = rows[i]
      /\ id \in DOMAIN rows => rows'[id].end # Null
  BY <1>1, <1>2, <1>3 DEF WithEnd, EventRow
<1>5. OpenIds' \subseteq OpenIds \ {id}
  <2> SUFFICES ASSUME NEW i \in OpenIds' PROVE i \in OpenIds /\ i # id
    OBVIOUS
  <2>1. i \in DOMAIN rows' /\ rows'[i].end = Null
    BY DEF OpenIds
  <2> QED
    BY <1>4, <2>1 DEF OpenIds
<1>6. \A i \in OpenIds : rows'[i].by = rows[i].by /\ rows'[i].rule = rows[i].rule
  <2> SUFFICES ASSUME NEW i \in OpenIds
               PROVE  rows'[i].by = rows[i].by /\ rows'[i].rule = rows[i].rule
    OBVIOUS
  <2>1. i \in DOMAIN rows
    BY DEF OpenIds
  <2> QED
    BY <1>4, <2>1
<1>7. OneOpenPerWriter'
  BY <1>5, <1>6 DEF UniqueInv, OneOpenPerWriter
<1>8. ASSUME NEW i \in OpenIds', pc'[rows'[i].by] # "down"
      PROVE  i \in DOMAIN current'[rows'[i].by] /\ current'[rows'[i].by][i] = rows'[i].rule
  <2>1. i \in OpenIds /\ i # id /\ pc' = pc
    BY <1>5, <1>8 DEF EndEvent
  <2>2. /\ rows'[i].by = rows[i].by /\ rows'[i].rule = rows[i].rule
        /\ rows[i].by \in Backends
    BY <1>3, <1>6, <2>1 DEF OpenIds, EventRow
  <2>3. i \in DOMAIN current[rows[i].by] /\ current[rows[i].by][i] = rows[i].rule
    BY <1>8, <2>1, <2>2 DEF UniqueInv, WriterRemembers
  <2>4. CASE rows[i].by = b
    BY <1>1, <2>1, <2>2, <2>3, <2>4 DEF Drop, UniqueInv, TypeOK, TypeEvents
  <2>5. CASE rows[i].by # b
    BY <1>1, <2>2, <2>3, <2>5 DEF UniqueInv, TypeOK, TypeEvents
  <2> QED
    BY <2>4, <2>5
<1> QED
  BY <1>7, <1>8 DEF UniqueInv, WriterRemembers

\* Every step, or a stutter, keeps the invariant.
LEMMA StepUnique ==
    ASSUME MaxFaults = 0, UniqueInv, [Next]_vars PROVE UniqueInv'
<1>1. TypeOK /\ TypeOK'
  BY StepTypeOK DEF UniqueInv
<1>2. faults = 0 /\ faults' = 0 /\ ~ Fault
  BY <1>1 DEF TypeOK, TypeBounds, Fault
<1>3. CASE UNCHANGED vars
  BY <1>1, <1>3, QuietStep DEF vars, memory
<1>4. CASE AgentReports \/ EditFactory
  BY <1>1, <1>4, QuietStep DEF AgentReports, EditFactory, memory
<1>5. ASSUME NEW b \in Backends, Start(b) \/ StartDegraded(b) \/ Crash(b) PROVE UniqueInv'
  <2>1. CASE Start(b)
    BY <1>1, <2>1, LoadUnique
  <2>2. CASE StartDegraded(b)
    BY <1>2, <2>2 DEF StartDegraded
  <2>3. CASE Crash(b)
    <3>1. pc'[b] = "down" /\ \A c \in Backends \ {b} : pc'[c] = pc[c] /\ current'[c] = current[c]
      BY <1>1, <2>3 DEF Crash, Forget, TypeOK, TypeThread, TypeEvents
    <3>2. rows' = rows
      BY <2>3 DEF Crash, Forget
    <3> QED
      BY <1>1, <3>1, <3>2, QuietStep
  <2> QED
    BY <1>5, <2>1, <2>2, <2>3
<1>6. ASSUME NEW b \in Backends, Process(b) PROVE UniqueInv'
  <2>1. CASE Poll(b) \/ RulesDone(b) \/ LoadLine(b)
    <3>1. pc[b] # "down" /\ rows' = rows /\ current' = current
      BY <2>1 DEF Poll, RulesDone, LoadLine
    <3>2. \A c \in Backends \ {b} : pc'[c] = pc[c]
      BY <1>1, <2>1 DEF Poll, RulesDone, LoadLine, Enter, TypeOK, TypeThread
    <3> QED
      BY <1>1, <3>1, <3>2, QuietStep
  <2>2. CASE PollNothing(b)
    BY <1>3, <2>2 DEF PollNothing
  <2>3. CASE SendAlert(b)
    <3>1. pc[b] # "down" /\ rows' = rows /\ current' = current
      BY <2>3 DEF SendAlert, AlertReturns
    <3>2. \A c \in Backends \ {b} : pc'[c] = pc[c]
      BY <1>1, <2>3 DEF SendAlert, AlertReturns, TypeOK, TypeThread
    <3> QED
      BY <1>1, <3>1, <3>2, QuietStep
  <2>4. CASE PollErrorBody(b) \/ AlertLost(b) \/ AlertKills(b)
    BY <1>2, <2>4 DEF PollErrorBody, AlertLost, AlertKills
  <2>5. ASSUME NEW e \in Rules, RuleUpdates(b, e) \/ RuleOpens(b, e) \/ RuleOpenFails(b, e)
        PROVE  UniqueInv'
    <3>1. CASE RuleOpenFails(b, e)
      BY <1>2, <3>1 DEF RuleOpenFails
    <3> QED
      BY <1>1, <2>5, <3>1, UpdateUnique, OpenUnique
  <2>6. CASE EndEvent(b)
    BY <1>1, <1>2, <2>6, EndUnique
  <2> QED
    BY <1>6, <2>1, <2>2, <2>3, <2>4, <2>5, <2>6 DEF Process
<1> QED
  BY <1>3, <1>4, <1>5, <1>6 DEF Next

LEMMA UniqueInvariant == ASSUME MaxFaults = 0 PROVE Spec => []UniqueInv
<1>1. Init => UniqueInv
  <2> SUFFICES ASSUME Init PROVE UniqueInv
    OBVIOUS
  <2>1. OpenIds = {}
    BY DEF Init, OpenIds
  <2> QED
    BY <2>1, InitTypeOK DEF UniqueInv, WriterRemembers, OneOpenPerWriter
<1>2. UniqueInv /\ [Next]_vars => UniqueInv'
  BY StepUnique
<1> QED
  BY <1>1, <1>2, PTL DEF Spec

\* If no statement fails, then for any number of backends, rules, lines, crashes
\* and restarts, res_events never holds two open rows of one writer for one rule.
THEOREM OneOpenRow == ASSUME MaxFaults = 0 PROVE Spec => []OneOpenPerWriter
<1>1. UniqueInv => OneOpenPerWriter
  BY DEF UniqueInv
<1> QED
  BY <1>1, UniqueInvariant, PTL

-----------------------------------------------------------------------------
(***************************************************************************)
(* Alerts: one for each row of res_events, but for those that crashes and  *)
(* failures account for.                                                   *)
(***************************************************************************)
Inserted(e) == {id \in DOMAIN rows : rows[id].rule = e}
Pending(e)  == {b \in Backends : e \in raised[b]}

Balanced(e) ==
    /\ Cardinality(Inserted(e)) <= alerts[e] + Cardinality(Pending(e)) + crashes + faults
    /\ alerts[e] + Cardinality(Pending(e)) <= Cardinality(Inserted(e)) + faults

\* At most one rule waits for its alert, and only while the thread is about to send it
Raising ==
    \A b \in Backends : /\ raised[b] # {} => pc[b] = "alert"
                        /\ \A e1, e2 \in raised[b] : e1 = e2

LEMMA Counts ==
    ASSUME TypeOK, IsFiniteSet(Backends), NEW e \in Rules
    PROVE  /\ IsFiniteSet(Inserted(e)) /\ Cardinality(Inserted(e)) \in Nat
           /\ IsFiniteSet(Pending(e)) /\ Cardinality(Pending(e)) \in Nat
           /\ alerts[e] \in Nat /\ crashes \in Nat /\ faults \in Nat
<1>1. Inserted(e) \subseteq 1..Len(rows) /\ Len(rows) \in Nat
  BY DEF Inserted, TypeOK, TypeStore
<1>2. IsFiniteSet(1..Len(rows))
  BY <1>1, FS_Interval
<1>3. IsFiniteSet(Inserted(e)) /\ IsFiniteSet(Pending(e))
  BY <1>1, <1>2, FS_Subset DEF Pending
<1>4. Cardinality(Inserted(e)) \in Nat /\ Cardinality(Pending(e)) \in Nat
  BY <1>3, FS_CardinalityType
<1> QED
  BY <1>3, <1>4 DEF TypeOK, TypeStore, TypeBounds

\* The same after a step
LEMMA CountsNext ==
    ASSUME TypeOK', IsFiniteSet(Backends), NEW e \in Rules
    PROVE  /\ Cardinality(Inserted(e)') \in Nat /\ Cardinality(Pending(e)') \in Nat
           /\ alerts'[e] \in Nat /\ crashes' \in Nat /\ faults' \in Nat
<1>1. Inserted(e)' \subseteq 1..Len(rows') /\ Len(rows') \in Nat
  BY DEF Inserted, TypeOK, TypeStore
<1>2. IsFiniteSet(1..Len(rows'))
  BY <1>1, FS_Interval
<1>3. IsFiniteSet(Inserted(e)') /\ IsFiniteSet(Pending(e)')
  BY <1>1, <1>2, FS_Subset DEF Pending
<1>4. Cardinality(Inserted(e)') \in Nat /\ Cardinality(Pending(e)') \in Nat
  BY <1>3, FS_CardinalityType
<1> QED
  BY <1>4 DEF TypeOK, TypeStore, TypeBounds

\* What a step may do to the balance of a rule: nothing, a row and its pending alert, a
\* failed insert that alerts all the same, an alert sent, or one lost
LEMMA BalanceStep ==
    ASSUME TypeOK, TypeOK', IsFiniteSet(Backends), NEW e \in Rules, Balanced(e),
           LET i == Cardinality(Inserted(e))  i2 == Cardinality(Inserted(e)')
               p == Cardinality(Pending(e))   p2 == Cardinality(Pending(e)')
               a == alerts[e]                 a2 == alerts'[e]
               same == i2 = i /\ p2 = p /\ a2 = a
           IN  \/ same /\ UNCHANGED crashes /\ (UNCHANGED faults \/ faults' = faults + 1)
               \/ same /\ crashes' = crashes + 1 /\ UNCHANGED faults
               \/ i2 = i + 1 /\ p2 = p + 1 /\ a2 = a /\ UNCHANGED <<crashes, faults>>
               \/ i2 = i /\ p2 = p + 1 /\ a2 = a /\ UNCHANGED crashes /\ faults' = faults + 1
               \/ i2 = i /\ p2 = p - 1 /\ a2 = a + 1 /\ UNCHANGED <<crashes, faults>>
               \/ i2 = i /\ p2 = p - 1 /\ a2 = a /\ UNCHANGED crashes /\ faults' = faults + 1
               \/ i2 = i /\ p2 = p - 1 /\ a2 = a /\ UNCHANGED faults /\ crashes' = crashes + 1
    PROVE  Balanced(e)'
<1>1. PICK i \in Nat, p \in Nat, a \in Nat, c \in Nat, f \in Nat :
          /\ i = Cardinality(Inserted(e)) /\ p = Cardinality(Pending(e)) /\ a = alerts[e]
          /\ c = crashes /\ f = faults
  BY Counts
<1>2. PICK i2 \in Nat, p2 \in Nat, a2 \in Nat, c2 \in Nat, f2 \in Nat :
          /\ i2 = Cardinality(Inserted(e)') /\ p2 = Cardinality(Pending(e)') /\ a2 = alerts'[e]
          /\ c2 = crashes' /\ f2 = faults'
  BY CountsNext
<1>3. i <= a + p + c + f /\ a + p <= i + f
  BY <1>1 DEF Balanced
<1>4. \/ i2 = i /\ p2 = p /\ a2 = a /\ c2 = c /\ (f2 = f \/ f2 = f + 1)
      \/ i2 = i /\ p2 = p /\ a2 = a /\ c2 = c + 1 /\ f2 = f
      \/ i2 = i + 1 /\ p2 = p + 1 /\ a2 = a /\ c2 = c /\ f2 = f
      \/ i2 = i /\ p2 = p + 1 /\ a2 = a /\ c2 = c /\ f2 = f + 1
      \/ i2 = i /\ p2 = p - 1 /\ a2 = a + 1 /\ c2 = c /\ f2 = f
      \/ i2 = i /\ p2 = p - 1 /\ a2 = a /\ c2 = c /\ f2 = f + 1
      \/ i2 = i /\ p2 = p - 1 /\ a2 = a /\ f2 = f /\ c2 = c + 1
  BY <1>1, <1>2
<1>5. i2 <= a2 + p2 + c2 + f2 /\ a2 + p2 <= i2 + f2
  BY <1>3, <1>4
<1> QED
  BY <1>2, <1>5 DEF Balanced

\* Where the rules of the rows stay, so do the rows of a rule
LEMMA SameRows ==
    ASSUME DOMAIN rows' = DOMAIN rows, \A id \in DOMAIN rows : rows'[id].rule = rows[id].rule,
           NEW e
    PROVE  Inserted(e)' = Inserted(e)
BY DEF Inserted

\* A step that has nothing to do with alerts
LEMMA QuietBalance ==
    ASSUME TypeOK, TypeOK', IsFiniteSet(Backends), Raising, \A e \in Rules : Balanced(e),
           UNCHANGED <<alerts, raised>>, DOMAIN rows' = DOMAIN rows,
           \A id \in DOMAIN rows : rows'[id].rule = rows[id].rule,
           \A b \in Backends : pc[b] = "alert" => pc'[b] = "alert",
           UNCHANGED crashes, UNCHANGED faults \/ faults' = faults + 1
    PROVE  Raising' /\ \A e \in Rules : Balanced(e)'
<1>1. Raising'
  BY DEF Raising
<1>2. ASSUME NEW e \in Rules PROVE Balanced(e)'
  <2>1. Inserted(e)' = Inserted(e) /\ Pending(e)' = Pending(e)
    BY SameRows DEF Pending
  <2> QED
    BY <2>1, BalanceStep
<1> QED
  BY <1>1, <1>2

\* The alert of b is no longer pending
LEMMA NoLonger ==
    ASSUME TypeOK, IsFiniteSet(Backends), NEW b \in Backends, NEW e \in Rules,
           raised' = [raised EXCEPT ![b] = {}]
    PROVE  /\ e \in raised[b] => Cardinality(Pending(e)') = Cardinality(Pending(e)) - 1
           /\ e \notin raised[b] => Pending(e)' = Pending(e)
<1>1. Pending(e)' = Pending(e) \ {b}
  BY DEF Pending, TypeOK, TypeThread
<1>2. b \in Pending(e) <=> e \in raised[b]
  BY DEF Pending
<1>3. Cardinality(Pending(e) \ {b}) =
        IF b \in Pending(e) THEN Cardinality(Pending(e)) - 1 ELSE Cardinality(Pending(e))
  BY Counts, FS_RemoveElement
<1> QED
  BY <1>1, <1>2, <1>3

\* The alert of e by b becomes pending
LEMMA Becomes ==
    ASSUME TypeOK, IsFiniteSet(Backends), NEW b \in Backends, NEW e \in Rules, raised[b] = {},
           raised' = [raised EXCEPT ![b] = {e}]
    PROVE  /\ Cardinality(Pending(e)') = Cardinality(Pending(e)) + 1
           /\ \A o \in Rules \ {e} : Pending(o)' = Pending(o)
<1>1. Pending(e)' = Pending(e) \cup {b} /\ b \notin Pending(e)
  BY DEF Pending, TypeOK, TypeThread
<1>2. \A o \in Rules \ {e} : Pending(o)' = Pending(o)
  BY DEF Pending, TypeOK, TypeThread
<1>3. Cardinality(Pending(e) \cup {b}) = Cardinality(Pending(e)) + 1
  BY <1>1, Counts, FS_AddElement
<1> QED
  BY <1>1, <1>2, <1>3

\* The process ends: at most the alert that was pending is lost
LEMMA ForgetBalance ==
    ASSUME TypeOK, TypeOK', IsFiniteSet(Backends), Raising, \A e \in Rules : Balanced(e),
           NEW b \in Backends, Crash(b) \/ AlertKills(b)
    PROVE  Raising' /\ \A e \in Rules : Balanced(e)'
<1>1. Forget(b)
  BY DEF Crash, AlertKills
<1>2. Raising'
  BY <1>1 DEF Forget, Raising, TypeOK, TypeThread
<1>3. ASSUME NEW e \in Rules PROVE Balanced(e)'
  <2>1. Inserted(e)' = Inserted(e) /\ alerts'[e] = alerts[e]
    BY <1>1, SameRows DEF Forget
  <2>2. raised' = [raised EXCEPT ![b] = {}]
    BY <1>1 DEF Forget
  <2>3. \/ crashes' = crashes + 1 /\ UNCHANGED faults
        \/ UNCHANGED crashes /\ faults' = faults + 1
    BY DEF Crash, AlertKills, Fault
  <2> QED
    BY <2>1, <2>2, <2>3, NoLonger, BalanceStep
<1> QED
  BY <1>2, <1>3

\* An insert, or a failed one, that is alerted
LEMMA OpenBalance ==
    ASSUME TypeOK, TypeOK', IsFiniteSet(Backends), Raising, \A e \in Rules : Balanced(e),
           NEW b \in Backends, NEW n \in Rules, RuleOpens(b, n) \/ RuleOpenFails(b, n)
    PROVE  Raising' /\ \A e \in Rules : Balanced(e)'
<1>1. /\ raised[b] = {} /\ raised' = [raised EXCEPT ![b] = {n}]
      /\ pc' = [pc EXCEPT ![b] = "alert"] /\ UNCHANGED <<alerts, crashes>>
  BY DEF RuleOpens, RuleOpenFails, Remember, Raising
<1>2. Raising'
  BY <1>1 DEF Raising, TypeOK, TypeThread
<1>3. ASSUME NEW e \in Rules PROVE Balanced(e)'
  <2>1. CASE RuleOpens(b, n)
    <3> DEFINE new == Len(rows) + 1
    <3>1. /\ Len(rows) \in Nat /\ DOMAIN rows = 1..Len(rows) /\ DOMAIN rows' = 1..new
          /\ \A id \in DOMAIN rows : rows'[id] = rows[id]
          /\ rows'[new].rule = n
      BY <2>1 DEF RuleOpens, TypeOK, TypeStore
    <3>2. new \notin Inserted(e)
      BY <3>1 DEF Inserted
    <3>3. CASE e = n
      <4>1. Inserted(e)' = Inserted(e) \cup {new}
        BY <3>1, <3>3 DEF Inserted
      <4>2. Cardinality(Inserted(e)') = Cardinality(Inserted(e)) + 1
        BY <3>2, <4>1, Counts, FS_AddElement
      <4> QED
        BY <1>1, <2>1, <3>3, <4>2, Becomes, BalanceStep DEF RuleOpens
    <3>4. CASE e # n
      <4>1. Inserted(e)' = Inserted(e)
        BY <3>1, <3>4 DEF Inserted
      <4> QED
        BY <1>1, <2>1, <3>4, <4>1, Becomes, BalanceStep DEF RuleOpens
    <3> QED
      BY <3>3, <3>4
  <2>2. CASE RuleOpenFails(b, n)
    <3>1. Inserted(e)' = Inserted(e) /\ faults' = faults + 1
      BY <2>2, SameRows DEF RuleOpenFails, Fault
    <3> QED
      BY <1>1, <3>1, Becomes, BalanceStep
  <2> QED
    BY <2>1, <2>2
<1> QED
  BY <1>2, <1>3

\* An alert is sent, or lost
LEMMA SendBalance ==
    ASSUME TypeOK, TypeOK', IsFiniteSet(Backends), Raising, \A e \in Rules : Balanced(e),
           NEW b \in Backends, SendAlert(b) \/ AlertLost(b)
    PROVE  Raising' /\ \A e \in Rules : Balanced(e)'
<1>1. /\ raised' = [raised EXCEPT ![b] = {}] /\ pc' = [pc EXCEPT ![b] = "compare"]
      /\ UNCHANGED <<rows, crashes>>
  BY DEF SendAlert, AlertLost, AlertReturns
<1>2. Raising'
  BY <1>1 DEF Raising, TypeOK, TypeThread
<1>3. ASSUME NEW e \in Rules PROVE Balanced(e)'
  <2>1. Inserted(e)' = Inserted(e)
    BY <1>1, SameRows
  <2>2. \/ /\ UNCHANGED faults
           /\ alerts'[e] = alerts[e] + (IF e \in raised[b] THEN 1 ELSE 0)
        \/ faults' = faults + 1 /\ alerts'[e] = alerts[e]
    BY DEF SendAlert, AlertLost, Fault
  <2>3. alerts[e] \in Nat
    BY DEF TypeOK, TypeStore
  <2>4. CASE e \in raised[b]
    BY <1>1, <2>1, <2>2, <2>4, NoLonger, BalanceStep
  <2>5. CASE e \notin raised[b]
    <3>1. Pending(e)' = Pending(e)
      BY <1>1, <2>5, NoLonger
    <3>2. alerts'[e] = alerts[e] /\ (UNCHANGED faults \/ faults' = faults + 1)
      BY <2>2, <2>3, <2>5
    <3> QED
      BY <1>1, <2>1, <3>1, <3>2, BalanceStep
  <2> QED
    BY <2>4, <2>5
<1> QED
  BY <1>2, <1>3

\* The updates by id leave the rules of the rows
LEMMA RulesStay ==
    ASSUME TypeOK, NEW b \in Backends,
           \/ \E e \in Rules : RuleUpdates(b, e)
           \/ EndEvent(b)
    PROVE  DOMAIN rows' = DOMAIN rows /\ \A id \in DOMAIN rows : rows'[id].rule = rows[id].rule
<1>1. PICK id, v : rows' \in {rows, WithValue(id, v), WithEnd(id, v)}
  <2>1. CASE \E e \in Rules : RuleUpdates(b, e)
    BY <2>1 DEF RuleUpdates
  <2>2. CASE EndEvent(b)
    BY <2>2, EndEventEffect
  <2> QED
    BY <2>1, <2>2
<1>2. \A i \in DOMAIN rows : rows[i] \in EventRow
  BY RowType
<1> QED
  BY <1>1, <1>2 DEF WithValue, WithEnd, EventRow

LEMMA StepBalance ==
    ASSUME IsFiniteSet(Backends), TypeOK, TypeOK', Raising, \A e \in Rules : Balanced(e),
           [Next]_vars
    PROVE  Raising' /\ \A e \in Rules : Balanced(e)'
<1>1. CASE UNCHANGED vars
  BY <1>1, QuietBalance DEF vars, memory
<1>2. CASE AgentReports \/ EditFactory
  BY <1>2, QuietBalance DEF AgentReports, EditFactory, memory
<1>3. ASSUME NEW b \in Backends, Start(b) \/ StartDegraded(b) \/ Crash(b)
      PROVE  Raising' /\ \A e \in Rules : Balanced(e)'
  <2>1. CASE Start(b) \/ StartDegraded(b)
    <3>1. /\ UNCHANGED <<alerts, raised, rows, crashes>> /\ (UNCHANGED faults \/ faults' = faults + 1)
          /\ pc[b] = "down" /\ pc' = [pc EXCEPT ![b] = "poll"]
      BY <2>1 DEF Start, StartDegraded, Load, Fault
    <3>2. \A c \in Backends : pc[c] = "alert" => pc'[c] = "alert"
      BY <3>1 DEF TypeOK, TypeThread
    <3> QED
      BY <3>1, <3>2, QuietBalance
  <2> QED
    BY <1>3, <2>1, ForgetBalance
<1>4. ASSUME NEW b \in Backends, Process(b) PROVE Raising' /\ \A e \in Rules : Balanced(e)'
  <2>1. CASE Poll(b) \/ PollErrorBody(b) \/ RulesDone(b) \/ LoadLine(b)
    <3>1. /\ UNCHANGED <<alerts, raised, rows, crashes>> /\ (UNCHANGED faults \/ faults' = faults + 1)
          /\ pc[b] # "alert"
      BY <2>1 DEF Poll, PollErrorBody, RulesDone, LoadLine, Fault
    <3>2. \A c \in Backends \ {b} : pc'[c] = pc[c]
      BY <2>1 DEF Poll, PollErrorBody, RulesDone, LoadLine, Enter, TypeOK, TypeThread
    <3> QED
      BY <3>1, <3>2, QuietBalance
  <2>2. CASE PollNothing(b)
    BY <1>1, <2>2 DEF PollNothing
  <2>3. CASE (\E e \in Rules : RuleUpdates(b, e)) \/ EndEvent(b)
    <3>1. /\ UNCHANGED <<alerts, raised, pc, crashes>> /\ (UNCHANGED faults \/ faults' = faults + 1)
      BY <2>3 DEF RuleUpdates, EndEvent, Fault
    <3> QED
      BY <2>3, <3>1, RulesStay, QuietBalance
  <2> QED
    BY <1>4, <2>1, <2>2, <2>3, OpenBalance, SendBalance, ForgetBalance DEF Process
<1> QED
  BY <1>1, <1>2, <1>3, <1>4 DEF Next

\* Before any process runs nothing was inserted and nothing is pending.
LEMMA InitBalance == ASSUME Init PROVE Raising /\ \A e \in Rules : Balanced(e)
<1>1. Raising
  BY DEF Init, Raising
<1>2. ASSUME NEW e \in Rules PROVE Balanced(e)
  <2>1. Inserted(e) = {} /\ Pending(e) = {} /\ alerts[e] = 0 /\ crashes = 0 /\ faults = 0
    BY DEF Init, Inserted, Pending
  <2> QED
    BY <2>1, FS_EmptySet DEF Balanced
<1> QED
  BY <1>1, <1>2

AlertInv == TypeOK /\ Raising /\ \A e \in Rules : Balanced(e)

LEMMA AlertInvariant == ASSUME IsFiniteSet(Backends) PROVE Spec => []AlertInv
<1>1. Init => AlertInv
  BY InitTypeOK, InitBalance DEF AlertInv
<1>2. AlertInv /\ [Next]_vars => AlertInv'
  BY StepTypeOK, StepBalance DEF AlertInv
<1> QED
  BY <1>1, <1>2, PTL DEF Spec

\* Each row of res_events is alerted once, but for alerts that crashes and failures lost
\* and those of inserts that failed (ressourceClient.cpp:144-165: the alert follows the
\* insert, whether that one succeeded or not).
THEOREM RowsAlerted == ASSUME IsFiniteSet(Backends) PROVE Spec => []AlertPerEvent
<1>1. AlertInv => AlertPerEvent
  BY DEF AlertInv, Balanced, Inserted, Pending, AlertPerEvent
<1> QED
  BY <1>1, AlertInvariant, PTL

-----------------------------------------------------------------------------
(***************************************************************************)
(* The refinement of AlarmBook, when no statement fails: each step raises, *)
(* clears or tells one alarm, or is none of the book's business.           *)
(***************************************************************************)
Open   == {<<rows[id].by, rows[id].rule>> : id \in OpenIds}
Raises == [e \in Rules |-> Cardinality(Inserted(e))]

BookInv == AlertInv /\ UniqueInv

\* Nothing the book shows changes
Aside == Open' = Open /\ Raises' = Raises /\ alerts' = alerts

Raised(w, a) ==
    /\ <<w, a>> \notin Open /\ Open' = Open \cup {<<w, a>>}
    /\ Raises' = [Raises EXCEPT ![a] = @ + 1] /\ alerts' = alerts

Cleared(w, a) ==
    /\ <<w, a>> \in Open /\ Open' = Open \ {<<w, a>>}
    /\ Raises' = Raises /\ alerts' = alerts

Told(a) ==
    /\ alerts[a] < Raises[a] /\ alerts' = [alerts EXCEPT ![a] = @ + 1]
    /\ Open' = Open /\ Raises' = Raises

BookSteps ==
    \/ Aside
    \/ \E w \in Backends, a \in Rules : Raised(w, a) \/ Cleared(w, a)
    \/ \E a \in Rules : Told(a)

LEMMA StepsOfBook == ASSUME BookSteps PROVE [Book!Next]_(Book!vars)
<1>1. CASE Aside
  BY <1>1 DEF Aside, Open, Raises, Inserted, Book!vars
<1>2. ASSUME NEW w \in Backends, NEW a \in Rules, Raised(w, a) PROVE Book!Raise(w, a)
  BY <1>2 DEF Raised, Open, Raises, Inserted, Book!Raise
<1>3. ASSUME NEW w \in Backends, NEW a \in Rules, Cleared(w, a) PROVE Book!Clear(w, a)
  BY <1>3 DEF Cleared, Open, Raises, Inserted, Book!Clear
<1>4. ASSUME NEW a \in Rules, Told(a) PROVE Book!Tell(a)
  BY <1>4 DEF Told, Open, Raises, Inserted, Book!Tell
<1> QED
  BY <1>1, <1>2, <1>3, <1>4 DEF BookSteps, Book!Next

\* A step that touches neither rows nor alerts
LEMMA AsideStep == ASSUME UNCHANGED <<rows, alerts>> PROVE BookSteps
BY DEF BookSteps, Aside, Open, Raises, Inserted, OpenIds

LEMMA UpdateBook ==
    ASSUME BookInv, NEW b \in Backends, NEW e \in Rules, RuleUpdates(b, e)
    PROVE  BookSteps
<1>1. \A id \in DOMAIN rows : rows[id] \in EventRow
  BY RowType DEF BookInv, UniqueInv
<1>2. /\ DOMAIN rows' = DOMAIN rows /\ alerts' = alerts
      /\ \A id \in DOMAIN rows : /\ rows'[id].by = rows[id].by
                                 /\ rows'[id].rule = rows[id].rule
                                 /\ rows'[id].end = rows[id].end
  BY <1>1 DEF RuleUpdates, WithValue, EventRow
<1>3. OpenIds' = OpenIds /\ \A a : Inserted(a)' = Inserted(a)
  BY <1>2 DEF OpenIds, Inserted
<1>4. Open' = Open
  BY <1>2, <1>3 DEF Open, OpenIds
<1> QED
  BY <1>2, <1>3, <1>4 DEF BookSteps, Aside, Raises

\* The insert raises: a backend that remembers no event of the rule has no open row
LEMMA OpenBook ==
    ASSUME BookInv, NEW b \in Backends, NEW e \in Rules, RuleOpens(b, e), IsFiniteSet(Backends)
    PROVE  BookSteps
<1> DEFINE new == Len(rows) + 1
<1>1. /\ Len(rows) \in Nat /\ DOMAIN rows = 1..Len(rows) /\ DOMAIN rows' = 1..new
      /\ \A id \in DOMAIN rows : rows'[id] = rows[id]
      /\ rows'[new].by = b /\ rows'[new].rule = e /\ rows'[new].end = Null /\ alerts' = alerts
  BY DEF RuleOpens, Remember, BookInv, UniqueInv, TypeOK, TypeStore
<1>2. OpenIds' = OpenIds \cup {new} /\ new \notin DOMAIN rows
  BY <1>1 DEF OpenIds
<1>3. Open' = Open \cup {<<b, e>>}
  BY <1>1, <1>2 DEF Open, OpenIds
<1>4. <<b, e>> \notin Open
  <2> SUFFICES ASSUME NEW id \in OpenIds, rows[id].by = b, rows[id].rule = e PROVE FALSE
    BY DEF Open
  <2>1. pc[b] = "compare" /\ Tracked(b, e) = {} /\ id > 0
    BY <1>1 DEF RuleOpens, Remember, OpenIds
  <2>2. id \in DOMAIN current[b] /\ current[b][id] = e
    BY <2>1 DEF BookInv, UniqueInv, WriterRemembers
  <2> QED
    BY <2>1, <2>2 DEF Tracked
<1>5. Inserted(e)' = Inserted(e) \cup {new} /\ new \notin Inserted(e)
  BY <1>1 DEF Inserted
<1>6. \A a \in Rules \ {e} : Inserted(a)' = Inserted(a)
  BY <1>1 DEF Inserted
<1>7. Cardinality(Inserted(e)') = Cardinality(Inserted(e)) + 1
  BY <1>5, Counts, FS_AddElement DEF BookInv, UniqueInv
<1>8. Raises' = [Raises EXCEPT ![e] = @ + 1]
  BY <1>6, <1>7 DEF Raises
<1> QED
  BY <1>1, <1>3, <1>4, <1>8 DEF BookSteps, Raised

\* The close clears what stands, or does nothing to a row that was ended already
LEMMA EndBook ==
    ASSUME BookInv, NEW b \in Backends, EndEvent(b), faults' = faults, faults \in Nat
    PROVE  BookSteps
<1>1. PICK id \in ending[b] : rows' = WithEnd(id, Stamp(line[b]))
  BY EndEventEffect DEF Fault
<1>2. Stamp(line[b]) # Null
  <2>1. Stamp(line[b]) \in Nat
    BY LineType, StampType DEF EndEvent, BookInv, UniqueInv
  <2> QED
    BY <2>1 DEF Null
<1>3. \A i \in DOMAIN rows : rows[i] \in EventRow
  BY RowType DEF BookInv, UniqueInv
<1>4. /\ DOMAIN rows' = DOMAIN rows /\ alerts' = alerts
      /\ \A i \in DOMAIN rows : rows'[i].by = rows[i].by /\ rows'[i].rule = rows[i].rule
      /\ \A i \in DOMAIN rows : i # id => rows'[i] = rows[i]
      /\ id \in DOMAIN rows => rows'[id].end # Null
  BY <1>1, <1>2, <1>3 DEF WithEnd, EventRow, EndEvent
<1>5. OpenIds' = OpenIds \ {id}
  BY <1>4 DEF OpenIds
<1>6. Raises' = Raises
  <2>1. \A a : Inserted(a)' = Inserted(a)
    BY <1>4 DEF Inserted
  <2> QED
    BY <2>1 DEF Raises
<1>7. CASE id \notin OpenIds
  <2>1. Open' = Open
    BY <1>4, <1>5, <1>7 DEF Open, OpenIds
  <2> QED
    BY <1>4, <1>6, <2>1 DEF BookSteps, Aside
<1>8. CASE id \in OpenIds
  <2>1. \A i \in OpenIds \ {id} : <<rows[i].by, rows[i].rule>> # <<rows[id].by, rows[id].rule>>
    BY <1>8 DEF BookInv, UniqueInv, OneOpenPerWriter
  <2>2. Open' = Open \ {<<rows[id].by, rows[id].rule>>}
    BY <1>4, <1>5, <2>1 DEF Open, OpenIds
  <2>3. <<rows[id].by, rows[id].rule>> \in Open /\ rows[id].by \in Backends /\ rows[id].rule \in Rules
    BY <1>3, <1>8 DEF Open, OpenIds, EventRow
  <2> QED
    BY <1>4, <1>6, <2>2, <2>3 DEF BookSteps, Cleared
<1> QED
  BY <1>7, <1>8

\* An alert tells of a row that is there
LEMMA SendBook ==
    ASSUME BookInv, faults = 0, NEW b \in Backends, SendAlert(b), IsFiniteSet(Backends)
    PROVE  BookSteps
<1>1. rows' = rows /\ alerts' = [e \in Rules |-> alerts[e] + (IF e \in raised[b] THEN 1 ELSE 0)]
  BY DEF SendAlert, AlertReturns
<1>2. alerts \in [Rules -> Nat] /\ raised[b] \subseteq Rules
  BY DEF BookInv, UniqueInv, TypeOK, TypeStore, TypeThread
<1>3. Open' = Open /\ Raises' = Raises
  BY <1>1 DEF Open, Raises, Inserted, OpenIds
<1>4. CASE raised[b] = {}
  <2>1. \A e \in Rules : alerts'[e] = alerts[e]
    BY <1>1, <1>2, <1>4
  <2>2. alerts' = alerts
    BY <1>1, <1>2, <2>1
  <2> QED
    BY <1>3, <2>2 DEF BookSteps, Aside
<1>5. ASSUME NEW a \in raised[b] PROVE BookSteps
  <2>1. raised[b] = {a} /\ a \in Rules
    BY <1>2 DEF BookInv, AlertInv, Raising
  <2>2. alerts' = [alerts EXCEPT ![a] = @ + 1]
    <3>1. \A e \in Rules : alerts'[e] = IF e = a THEN alerts[e] + 1 ELSE alerts[e]
      BY <1>1, <1>2, <2>1
    <3> QED
      BY <1>1, <1>2, <2>1, <3>1
  <2>3. b \in Pending(a)
    BY DEF Pending
  <2>4. Cardinality(Pending(a)) > 0
    <3>1. IsFiniteSet(Pending(a)) /\ Cardinality(Pending(a)) \in Nat
      BY <2>1, Counts DEF BookInv, UniqueInv
    <3>2. Cardinality(Pending(a)) # 0
      BY <2>3, <3>1, FS_EmptySet
    <3> QED
      BY <3>1, <3>2
  <2>5. alerts[a] < Cardinality(Inserted(a))
    <3>1. alerts[a] + Cardinality(Pending(a)) <= Cardinality(Inserted(a)) + 0
      BY <2>1 DEF BookInv, AlertInv, Balanced
    <3>2. alerts[a] \in Nat /\ Cardinality(Pending(a)) \in Nat /\ Cardinality(Inserted(a)) \in Nat
      BY <2>1, Counts DEF BookInv, UniqueInv
    <3> QED
      BY <2>4, <3>1, <3>2
  <2> QED
    BY <1>3, <2>1, <2>2, <2>5 DEF BookSteps, Told, Raises
<1> QED
  BY <1>4, <1>5

LEMMA StepBook ==
    ASSUME MaxFaults = 0, IsFiniteSet(Backends), BookInv, [Next]_vars PROVE BookSteps
<1>1. faults = 0 /\ ~ Fault
  BY DEF BookInv, UniqueInv, TypeOK, TypeBounds, Fault
<1>2. CASE UNCHANGED vars \/ AgentReports \/ EditFactory
  BY <1>2, AsideStep DEF vars, AgentReports, EditFactory
<1>3. ASSUME NEW b \in Backends, Start(b) \/ StartDegraded(b) \/ Crash(b) PROVE BookSteps
  BY <1>3, AsideStep DEF Start, StartDegraded, Load, Crash, Forget
<1>4. ASSUME NEW b \in Backends, Process(b) PROVE BookSteps
  <2>1. CASE Poll(b) \/ PollNothing(b) \/ RulesDone(b) \/ LoadLine(b)
    BY <2>1, AsideStep DEF Poll, PollNothing, RulesDone, LoadLine, vars
  <2>2. CASE PollErrorBody(b) \/ AlertLost(b) \/ AlertKills(b)
    BY <1>1, <2>2 DEF PollErrorBody, AlertLost, AlertKills
  <2>3. ASSUME NEW e \in Rules, RuleUpdates(b, e) \/ RuleOpens(b, e) \/ RuleOpenFails(b, e)
        PROVE  BookSteps
    <3>1. ~ RuleOpenFails(b, e)
      BY <1>1 DEF RuleOpenFails
    <3> QED
      BY <2>3, <3>1, UpdateBook, OpenBook
  <2>4. CASE SendAlert(b)
    BY <1>1, <2>4, SendBook
  <2>5. CASE EndEvent(b)
    <3>1. faults' = faults
      BY <1>1, <2>5 DEF EndEvent
    <3> QED
      BY <1>1, <2>5, <3>1, EndBook
  <2> QED
    BY <1>4, <2>1, <2>2, <2>3, <2>4, <2>5 DEF Process
<1> QED
  BY <1>2, <1>3, <1>4 DEF Next

\* If no statement fails, the events and alerts of any number of backends, with crashes,
\* restarts and replays, implement the abstract book: an alarm is raised only when its
\* watcher does not hold it open, and told at most as often as it was raised.
THEOREM BookImplemented ==
    ASSUME MaxFaults = 0, IsFiniteSet(Backends) PROVE Spec => ImplementsBook
<1>1. Init => Book!Init
  <2> SUFFICES ASSUME Init PROVE Book!Init
    OBVIOUS
  <2>1. DOMAIN rows = {} /\ alerts = [e \in Rules |-> 0]
    BY DEF Init
  <2>2. {<<rows[id].by, rows[id].rule>> : id \in OpenIds} = {}
    BY <2>1 DEF OpenIds
  <2>3. \A e \in Rules : Cardinality({id \in DOMAIN rows : rows[id].rule = e}) = 0
    <3>1. \A e \in Rules : {id \in DOMAIN rows : rows[id].rule = e} = {}
      BY <2>1
    <3> QED
      BY <3>1, FS_EmptySet
  <2> QED
    BY <2>1, <2>2, <2>3 DEF Book!Init
<1>2. BookInv /\ [Next]_vars => [Book!Next]_(Book!vars)
  BY StepBook, StepsOfBook
<1>3. Spec => []BookInv
  <2>1. AlertInv /\ UniqueInv => BookInv
    BY DEF BookInv
  <2> QED
    BY <2>1, AlertInvariant, UniqueInvariant, PTL
<1>4. Spec => Book!Spec
  BY <1>1, <1>2, <1>3, PTL DEF Spec, Book!Spec
<1> QED
  BY <1>4 DEF ImplementsBook

-----------------------------------------------------------------------------
(***************************************************************************)
(* The d$ table, until a statement fails.  Backends write the lines of a   *)
(* group, those whose timestamps round to one value, over each other; but  *)
(* whoever writes an older one is behind, and has yet to write the last.   *)
(***************************************************************************)
\* A process starts from the first line
FreshStart == \A b \in Backends : pc[b] = "down" => since[b] = 0

\* The row for line i is there, from i or from a later line of its group
Stored(i) == /\ Stamp(i) \in DOMAIN data
             /\ data[Stamp(i)] >= i /\ Stamp(data[Stamp(i)]) = Stamp(i)

\* A line that no backend has before it
Past(i) == i \in DOMAIN lines /\ \A b \in Backends : i \in Parsed(b)

Filed == faults = 0 => \A i : Past(i) => Stored(i)

DataInv == TypeOK /\ FreshStart /\ Filed

LEMMA OwnStamp == ASSUME Grain = 1, NEW i \in Nat PROVE Stamp(i) = i
<1>1. (2 * i + 1) \div (2 * 1) = i
  OBVIOUS
<1> QED
  BY <1>1 DEF Stamp

LEMMA SameStamp == \A i : Stamp(i)' = Stamp(i)
  BY DEF Stamp

\* A step that stores nothing, and after which no backend claims to be further
LEMMA QuietData ==
    ASSUME DataInv, TypeOK', FreshStart', data' = data, faults' = 0 => faults = 0,
           \A i : Past(i)' => Past(i)
    PROVE  DataInv'
<1>1. \A i : Stored(i) => Stored(i)'
  BY SameStamp DEF Stored
<1> QED
  BY <1>1 DEF DataInv, Filed

\* No step but the storing of a line brings a backend further
LEMMA NoFurther ==
    ASSUME DataInv, TypeOK', FreshStart', data' = data, faults' = 0 => faults = 0,
           lines' = lines, \A b \in Backends : Parsed(b)' \subseteq Parsed(b)
    PROVE  DataInv'
<1>1. \A i : Past(i)' => Past(i)
  BY DEF Past
<1> QED
  BY <1>1, QuietData

\* The line goes to the table before the backend moves to the next one: it is behind
\* with every later line of the group
LEMMA LoadLineData ==
    ASSUME DataInv, TypeOK', FreshStart', NEW b \in Backends, LoadLine(b), faults' = faults
    PROVE  DataInv'
<1> SUFFICES ASSUME faults = 0, NEW i, Past(i)' PROVE Stored(i)'
  BY DEF DataInv, Filed
<1> DEFINE j == line[b]
<1>1. /\ pc[b] = "end" /\ j \in 1..Len(lines) /\ since[b] \in 0..Len(lines)
      /\ j \in Nat /\ j <= since[b] /\ since[b] \in Nat /\ faults \in Nat /\ lines' = lines
  BY LineType DEF LoadLine, DataInv, TypeOK, TypeStore, TypeBounds
<1>2. data' = Put(data, Stamp(j), j)
  BY <1>1 DEF LoadLine, Fault
<1>3. /\ \A s \in DOMAIN data : s \in DOMAIN data' /\ (s # Stamp(j) => data'[s] = data[s])
      /\ Stamp(j) \in DOMAIN data' /\ data'[Stamp(j)] = j
  BY <1>2 DEF Put
<1>4. i \in DOMAIN lines /\ i \in Nat /\ i \in Parsed(b)'
  BY <1>1 DEF Past, DataInv, TypeOK, TypeStore
<1>5. i <= j
  <2>1. since' = since /\ \/ pc'[b] = "compare" /\ line'[b] = j + 1
                          \/ pc'[b] = "poll" /\ j = since[b]
    BY DEF LoadLine, Enter, DataInv, TypeOK, TypeThread
  <2> QED
    BY <1>1, <1>4, <2>1 DEF Parsed
<1>6. CASE Stamp(i) = Stamp(j)
  BY <1>1, <1>3, <1>4, <1>5, <1>6, SameStamp DEF Stored
<1>7. CASE Stamp(i) # Stamp(j)
  <2>1. i < j
    BY <1>1, <1>4, <1>5, <1>7
  <2>2. i \in Parsed(b)
    BY <1>1, <1>4, <2>1 DEF Parsed, DataInv, TypeOK, TypeStore
  <2>3. \A c \in Backends : c # b => Parsed(c)' = Parsed(c)
    BY DEF LoadLine, Enter, Parsed, DataInv, TypeOK, TypeThread
  <2>4. Past(i)
    BY <1>1, <1>4, <2>2, <2>3 DEF Past
  <2>5. Stored(i)
    BY <2>4 DEF DataInv, Filed
  <2> QED
    BY <1>3, <1>7, <2>5, SameStamp DEF Stored
<1> QED
  BY <1>6, <1>7

\* Only a crash takes a process down, and it forgets since with the rest
LEMMA StepFresh == ASSUME TypeOK, FreshStart, [Next]_vars PROVE FreshStart'
<1> USE DEF TypeOK, TypeThread, FreshStart
<1>1. CASE UNCHANGED vars \/ AgentReports \/ EditFactory
  BY <1>1 DEF vars, memory, AgentReports, EditFactory
<1>2. ASSUME NEW b \in Backends, Start(b) \/ StartDegraded(b) \/ Crash(b) PROVE FreshStart'
  BY <1>2 DEF Start, StartDegraded, Load, Crash, Forget
<1>3. ASSUME NEW b \in Backends, Process(b) PROVE FreshStart'
  <2>1. CASE Poll(b) \/ PollNothing(b) \/ PollErrorBody(b)
    BY <2>1 DEF Poll, PollNothing, PollErrorBody, Enter, vars, memory
  <2>2. ASSUME NEW e \in Rules, RuleUpdates(b, e) \/ RuleOpens(b, e) \/ RuleOpenFails(b, e)
        PROVE  FreshStart'
    BY <2>2 DEF RuleUpdates, RuleOpens, RuleOpenFails, Remember
  <2>3. CASE SendAlert(b) \/ AlertLost(b) \/ AlertKills(b)
    BY <2>3 DEF SendAlert, AlertLost, AlertKills, AlertReturns, Forget
  <2>4. CASE RulesDone(b) \/ EndEvent(b) \/ LoadLine(b)
    BY <2>4 DEF RulesDone, EndEvent, LoadLine, Enter
  <2> QED
    BY <1>3, <2>1, <2>2, <2>3, <2>4 DEF Process
<1> QED
  BY <1>1, <1>2, <1>3 DEF Next

LEMMA StepData == ASSUME Backends # {}, DataInv, [Next]_vars PROVE DataInv'
<1>1. TypeOK' /\ FreshStart'
  BY StepTypeOK, StepFresh DEF DataInv
<1>2. faults \in Nat /\ (Fault => DataInv')
  BY <1>1 DEF DataInv, Filed, TypeOK, TypeBounds, Fault
<1>3. CASE UNCHANGED vars \/ EditFactory
  BY <1>1, <1>3, NoFurther DEF vars, memory, EditFactory, Parsed
<1>4. CASE AgentReports
  <2>1. UNCHANGED <<data, faults>> /\ \A b \in Backends : Parsed(b)' = Parsed(b)
    BY <1>4 DEF AgentReports, memory, Parsed
  <2>2. PICK s \in Samples : lines' = Append(lines, s)
    BY <1>4 DEF AgentReports
  <2>3. ASSUME NEW i, Past(i)' PROVE Past(i)
    <3>1. PICK b \in Backends : i \in Parsed(b)
      BY <2>1, <2>3 DEF Past
    <3>2. i \in DOMAIN lines
      BY <2>2, <2>3, <3>1 DEF Past, Parsed, DataInv, TypeOK, TypeThread, TypeStore
    <3> QED
      BY <2>1, <2>3, <3>2 DEF Past
  <2> QED
    BY <1>1, <2>1, <2>3, QuietData
<1>5. ASSUME NEW b \in Backends, Start(b) \/ Crash(b) PROVE DataInv'
  <2>1. /\ UNCHANGED <<data, faults, lines>>
        /\ \A c \in Backends : c # b => Parsed(c)' = Parsed(c)
    BY <1>5 DEF Start, Load, Crash, Forget, DataInv, TypeOK, TypeThread, Parsed
  <2>2. Parsed(b)' \subseteq {}
    <3>1. CASE Crash(b)
      <4>1. Parsed(b)' = 1..(0 - 1)
        BY <3>1 DEF Crash, Forget, DataInv, TypeOK, TypeThread, Parsed
      <4> QED
        BY <4>1
    <3>2. CASE Start(b)
      <4>1. pc'[b] = "poll" /\ since'[b] = 0
        BY <3>2 DEF Start, Load, DataInv, TypeOK, TypeThread, FreshStart
      <4>2. Parsed(b)' = 1..0
        BY <4>1 DEF Parsed
      <4> QED
        BY <4>2
    <3> QED
      BY <1>5, <3>1, <3>2
  <2> QED
    BY <1>1, <2>1, <2>2, NoFurther
<1>6. ASSUME NEW b \in Backends, Process(b) PROVE DataInv'
  <2>1. CASE Poll(b)
    <3>1. since[b] \in Nat /\ pc[b] = "poll" /\ UNCHANGED <<data, faults, lines>>
          /\ pc' = [pc EXCEPT ![b] = "compare"] /\ line' = [line EXCEPT ![b] = since[b] + 1]
          /\ since' = [since EXCEPT ![b] = Len(lines)]
      BY <2>1 DEF Poll, Enter, DataInv, TypeOK, TypeThread, TypeStore
    <3>2. \A c \in Backends : Parsed(c)' \subseteq Parsed(c)
      BY <3>1 DEF DataInv, TypeOK, TypeThread, Parsed
    <3> QED
      BY <1>1, <3>1, <3>2, NoFurther
  <2>2. CASE PollNothing(b)
    <3>1. UNCHANGED vars
      BY <2>2 DEF PollNothing
    <3> QED
      BY <1>3, <3>1
  <2>3. CASE PollErrorBody(b) \/ AlertLost(b) \/ AlertKills(b)
    BY <1>2, <2>3 DEF PollErrorBody, AlertLost, AlertKills
  <2>4. ASSUME NEW e \in Rules, RuleUpdates(b, e) \/ RuleOpens(b, e) \/ RuleOpenFails(b, e), ~ Fault
        PROVE  DataInv'
    <3>1. UNCHANGED <<data, faults, lines, since, line>>
          /\ \/ pc' = pc
             \/ pc[b] = "compare" /\ pc' = [pc EXCEPT ![b] = "alert"]
      BY <2>4 DEF RuleUpdates, RuleOpens, RuleOpenFails, Remember
    <3>2. \A c \in Backends : Parsed(c)' = Parsed(c)
      BY <3>1 DEF DataInv, TypeOK, TypeThread, Parsed
    <3> QED
      BY <1>1, <3>1, <3>2, NoFurther
  <2>5. ASSUME SendAlert(b) \/ RulesDone(b) \/ EndEvent(b), ~ Fault PROVE DataInv'
    <3>1. UNCHANGED <<data, faults, lines, since, line>>
          /\ \/ pc' = pc
             \/ pc[b] # "poll" /\ pc' \in {[pc EXCEPT ![b] = "compare"], [pc EXCEPT ![b] = "end"]}
      BY <2>5 DEF SendAlert, AlertReturns, RulesDone, EndEvent
    <3>2. \A c \in Backends : Parsed(c)' = Parsed(c)
      BY <3>1 DEF DataInv, TypeOK, TypeThread, Parsed
    <3> QED
      BY <1>1, <3>1, <3>2, NoFurther
  <2>6. CASE LoadLine(b) /\ ~ Fault
    <3>1. faults' = faults
      BY <2>6 DEF LoadLine
    <3> QED
      BY <1>1, <2>6, <3>1, LoadLineData
  <2> QED
    BY <1>2, <1>6, <2>1, <2>2, <2>3, <2>4, <2>5, <2>6 DEF Process
<1>7. ASSUME NEW b \in Backends, StartDegraded(b) PROVE DataInv'
  BY <1>2, <1>7 DEF StartDegraded
<1> QED
  BY <1>3, <1>4, <1>5, <1>6, <1>7 DEF Next

\* Until a statement fails, whenever every backend is up and through with all lines,
\* each line's row is in the d$ table, written by the last line whose timestamp rounds
\* to the same value: for any number of backends that crash, restart and write old
\* lines over newer ones, and any number of lines that asFloat() makes one.
THEOREM LinesStored == ASSUME Backends # {} PROVE Spec => []SamplesStored
<1>1. Init => DataInv
  <2> SUFFICES ASSUME Init PROVE DataInv
    OBVIOUS
  <2>1. \A b \in Backends : since[b] = 0
    BY DEF Init
  <2>2. DOMAIN lines = {}
    BY DEF Init
  <2> QED
    BY <2>1, <2>2, InitTypeOK DEF DataInv, Filed, Past, FreshStart
<1>2. DataInv /\ [Next]_vars => DataInv'
  BY StepData
<1>3. DataInv => SamplesStored
  <2> SUFFICES ASSUME DataInv, AtRest, faults = 0, NEW i \in DOMAIN lines PROVE Stored(i)
    BY DEF SamplesStored, Stored
  <2>1. i \in 1..Len(lines)
    BY DEF DataInv, TypeOK, TypeStore
  <2>2. Past(i)
    BY <2>1 DEF Past, Parsed, AtRest
  <2> QED
    BY <2>2 DEF DataInv, Filed
<1> QED
  BY <1>1, <1>2, <1>3, PTL DEF Spec

-----------------------------------------------------------------------------
(***************************************************************************)
(* Memory and table, when no statement fails and a backend never remembers *)
(* four events at once, so that the closing loop skips none: what each     *)
(* backend remembers of the rows, and how far it is with its line.         *)
(***************************************************************************)
\* Ids stand for rows of the same rule, no two of them of one writer
Remembers(b) ==
    /\ \A id \in DOMAIN current[b] : id \in DOMAIN rows /\ rows[id].rule = current[b][id]
    /\ \A i, j \in DOMAIN current[b] :
          rows[i].by = rows[j].by /\ rows[i].rule = rows[j].rule => i = j

\* The rules line i crosses are tracked, but for those still to visit
Visited(b, i, left) == \A e \in Crossed(b, i) \ left : Tracked(b, e) # {}

\* How far b is with its line; between polls nothing remembered has returned
Progress(b) ==
    /\ pc[b] \in {"compare", "alert"} => Visited(b, line[b], todo[b])
    /\ pc[b] = "end" => Visited(b, line[b], {}) /\ ending[b] = Returned(b)
    /\ pc[b] = "poll" /\ since[b] > 0 =>
          /\ Visited(b, since[b], {})
          /\ \A id \in DOMAIN current[b] : ~ Returns(current[b][id], lines[since[b]])

MemoryInv ==
    /\ UniqueInv /\ FreshStart
    /\ \A b \in Backends : Remembers(b) /\ Progress(b)

FewEvents == /\ IsFiniteSet(Backends) /\ IsFiniteSet(Rules)
             /\ Cardinality(Backends) * Cardinality(Rules) < 4

\* No value both crosses a limit and has returned from it
LEMMA NotBoth ==
    ASSUME NEW e \in Rules, NEW s \in Samples PROVE ~ (Crosses(e, s) /\ Returns(e, s))
<1>1. e.value \in Int /\ s[e.property] \in Int \cup {NoValue}
  BY SamplesAssumption
<1> QED
  BY <1>1 DEF Crosses, Returns

\* Rows are never removed, and keep their writer and their rule
LEMMA RowsKept ==
    ASSUME TypeOK, [Next]_vars
    PROVE  \A id \in DOMAIN rows : /\ id \in DOMAIN rows'
                                   /\ rows'[id].by = rows[id].by /\ rows'[id].rule = rows[id].rule
<1>1. \A id \in DOMAIN rows : rows[id] \in EventRow /\ DOMAIN rows = 1..Len(rows)
  BY RowType DEF TypeOK, TypeStore
<1>2. CASE UNCHANGED vars \/ AgentReports \/ EditFactory
  BY <1>2 DEF vars, AgentReports, EditFactory
<1>3. ASSUME NEW b \in Backends, Start(b) \/ StartDegraded(b) \/ Crash(b) PROVE rows' = rows
  BY <1>3 DEF Start, StartDegraded, Load, Crash, Forget
<1>4. ASSUME NEW b \in Backends, Process(b),
             NEW id \in DOMAIN rows
      PROVE  /\ id \in DOMAIN rows'
             /\ rows'[id].by = rows[id].by /\ rows'[id].rule = rows[id].rule
  <2>1. CASE Poll(b) \/ PollNothing(b) \/ PollErrorBody(b)
    BY <2>1 DEF Poll, PollNothing, PollErrorBody, vars
  <2>2. ASSUME NEW e \in Rules, RuleUpdates(b, e)
        PROVE  /\ id \in DOMAIN rows'
               /\ rows'[id].by = rows[id].by /\ rows'[id].rule = rows[id].rule
    BY <1>1, <2>2 DEF RuleUpdates, WithValue, EventRow
  <2>3. ASSUME NEW e \in Rules, RuleOpens(b, e) \/ RuleOpenFails(b, e)
        PROVE  id \in DOMAIN rows' /\ rows'[id] = rows[id]
    <3>1. rows \in Seq(EventRow)
      BY DEF TypeOK, TypeStore
    <3> QED
      BY <2>3, <3>1 DEF RuleOpens, RuleOpenFails
  <2>4. CASE SendAlert(b) \/ AlertLost(b) \/ AlertKills(b) \/ RulesDone(b) \/ LoadLine(b)
    BY <2>4 DEF SendAlert, AlertLost, AlertKills, AlertReturns, Forget, RulesDone, LoadLine
  <2>5. CASE EndEvent(b)
    BY <1>1, <2>5, EndEventEffect DEF WithEnd, EventRow
  <2> QED
    BY <1>4, <2>1, <2>2, <2>3, <2>4, <2>5 DEF Process
<1> QED
  BY <1>2, <1>3, <1>4 DEF Next

\* Lines are only appended
LEMMA LinesKept ==
    ASSUME TypeOK, [Next]_vars
    PROVE  /\ Len(lines) \in Nat /\ Len(lines') \in Nat /\ Len(lines) <= Len(lines')
           /\ \A i \in 1..Len(lines) : lines'[i] = lines[i]
<1>1. lines \in Seq(Samples)
  BY DEF TypeOK, TypeStore
<1>2. CASE UNCHANGED vars \/ EditFactory
  BY <1>1, <1>2 DEF vars, EditFactory
<1>3. CASE AgentReports
  BY <1>1, <1>3 DEF AgentReports
<1>4. ASSUME NEW b \in Backends, Start(b) \/ StartDegraded(b) \/ Crash(b) PROVE lines' = lines
  BY <1>4 DEF Start, StartDegraded, Load, Crash, Forget
<1>5. ASSUME NEW b \in Backends, Process(b) PROVE lines' = lines
  BY <1>5 DEF Process, Poll, PollNothing, PollErrorBody, vars, RuleUpdates, RuleOpens, Remember,
     RuleOpenFails, SendAlert, AlertLost, AlertKills, AlertReturns, Forget, RulesDone, EndEvent, LoadLine
<1> QED
  BY <1>1, <1>2, <1>3, <1>4, <1>5 DEF Next

\* What a step of one backend, or of nobody, leaves alone in another
Same(c) ==
    /\ pc'[c] = pc[c] /\ since'[c] = since[c] /\ line'[c] = line[c]
    /\ factory'[c] = factory[c] /\ current'[c] = current[c]
    /\ todo'[c] = todo[c] /\ ending'[c] = ending[c]

LEMMA OthersSame ==
    ASSUME TypeOK, NEW b \in Backends, Start(b) \/ Crash(b) \/ Process(b), NEW c \in Backends \ {b}
    PROVE  Same(c)
<1> USE DEF TypeOK, TypeThread, TypeEvents, Same
<1>1. CASE Start(b) \/ Crash(b)
  BY <1>1 DEF Start, Load, Crash, Forget
<1>2. CASE Poll(b) \/ PollNothing(b) \/ PollErrorBody(b)
  BY <1>2 DEF Poll, PollNothing, PollErrorBody, Enter, vars, memory
<1>3. ASSUME NEW e \in Rules, RuleUpdates(b, e) \/ RuleOpens(b, e) \/ RuleOpenFails(b, e)
      PROVE  Same(c)
  BY <1>3 DEF RuleUpdates, RuleOpens, RuleOpenFails, Remember
<1>4. CASE SendAlert(b) \/ AlertLost(b) \/ AlertKills(b)
  BY <1>4 DEF SendAlert, AlertLost, AlertKills, AlertReturns, Forget
<1>5. CASE RulesDone(b) \/ LoadLine(b)
  BY <1>5 DEF RulesDone, LoadLine, Enter
<1>6. CASE EndEvent(b)
  BY <1>6 DEF EndEvent
<1> QED
  BY <1>1, <1>2, <1>3, <1>4, <1>5, <1>6 DEF Process


\* A step that leaves what a backend remembers: the rows it stands for are kept
LEMMA SameRemembers ==
    ASSUME MemoryInv, [Next]_vars, NEW c \in Backends, current'[c] = current[c]
    PROVE  Remembers(c)'
BY RowsKept DEF MemoryInv, UniqueInv, Remembers

\* Lines once reported do not change, so what they cross and what returned stays
LEMMA SameLine ==
    ASSUME TypeOK, [Next]_vars, NEW c \in Backends, factory'[c] = factory[c], NEW i \in 1..Len(lines)
    PROVE  Crossed(c, i)' = Crossed(c, i) /\ lines'[i] = lines[i]
BY LinesKept DEF Crossed

LEMMA SameProgress ==
    ASSUME MemoryInv, [Next]_vars, NEW c \in Backends, Same(c)
    PROVE  Progress(c)'
<1>1. TypeOK /\ Progress(c)
  BY DEF MemoryInv, UniqueInv
<1>2. \A e : Tracked(c, e)' = Tracked(c, e)
  BY DEF Same, Tracked
<1>3. CASE pc[c] \in {"compare", "alert", "end"}
  <2>1. line[c] \in 1..Len(lines)
    BY <1>1, <1>3, LineType
  <2>2. Crossed(c, line[c])' = Crossed(c, line[c]) /\ lines'[line[c]] = lines[line[c]]
    BY <1>1, <2>1, SameLine DEF Same
  <2>3. Returned(c)' = Returned(c)
    BY <2>2 DEF Returned, Same
  <2>4. \A left : Visited(c, line[c], left)' = Visited(c, line[c], left)
    BY <1>2, <2>2 DEF Visited
  <2> QED
    BY <1>1, <1>3, <2>2, <2>3, <2>4 DEF Progress, Same, Visited
<1>4. CASE pc[c] = "poll" /\ since[c] > 0
  <2>1. since[c] \in 1..Len(lines)
    BY <1>1, <1>4 DEF TypeOK, TypeThread, TypeStore
  <2>2. Crossed(c, since[c])' = Crossed(c, since[c]) /\ lines'[since[c]] = lines[since[c]]
    BY <1>1, <2>1, SameLine DEF Same
  <2> QED
    BY <1>1, <1>2, <1>4, <2>2 DEF Progress, Same, Visited
<1> QED
  BY <1>1, <1>3, <1>4 DEF Progress, Same

\* Few backends and rules: fewer than four events to remember
LEMMA FewRemembered ==
    ASSUME FewEvents, TypeOK, NEW b \in Backends, Remembers(b)
    PROVE  ~ (Cardinality(DOMAIN current[b]) >= 4)
<1> DEFINE P == Backends \X Rules
           f == [id \in DOMAIN current[b] |-> <<rows[id].by, rows[id].rule>>]
<1>1. IsFiniteSet(P) /\ Cardinality(P) = Cardinality(Backends) * Cardinality(Rules)
  BY FS_Product DEF FewEvents
<1>2. \A id \in DOMAIN current[b] : rows[id].by \in Backends /\ rows[id].rule \in Rules
  BY RowType DEF Remembers, EventRow
<1>3. f \in Injection(DOMAIN current[b], P)
  BY <1>2 DEF Remembers, Injection, IsInjective
<1>4. IsFiniteSet(DOMAIN current[b]) /\ Cardinality(DOMAIN current[b]) <= Cardinality(P)
  BY <1>1, <1>3, FS_Injection
<1>5. Cardinality(DOMAIN current[b]) \in Nat /\ Cardinality(P) \in Nat /\ Cardinality(P) < 4
  BY <1>1, <1>4, FS_CardinalityType DEF FewEvents
<1> QED
  BY <1>4, <1>5

\* So the closing loop ends one event after the other
LEMMA EndsOne ==
    ASSUME FewEvents, MemoryInv, NEW b \in Backends, EndEvent(b), ~ Fault
    PROVE  /\ pc[b] = "end" /\ UNCHANGED <<lines, pc, since, line, factory, todo>>
           /\ \E id \in ending[b] :
                 /\ rows' = WithEnd(id, Stamp(line[b]))
                 /\ current' = [current EXCEPT ![b] = Drop(current[b], id)]
                 /\ ending' = [ending EXCEPT ![b] = ending[b] \ {id}]
<1>1. ~ (Cardinality(DOMAIN current[b]) >= 4)
  BY FewRemembered DEF MemoryInv, UniqueInv
<1>2. Least(ending[b]) \subseteq ending[b]
  BY DEF Least
<1> QED
  BY <1>1, <1>2 DEF EndEvent


\* init() loads what is open, and a fresh process has no line yet
LEMMA StartMemory ==
    ASSUME MemoryInv, TypeOK', NEW b \in Backends, Start(b)
    PROVE  Remembers(b)' /\ Progress(b)'
<1>1. /\ current'[b] = [id \in OpenIds |-> rows[id].rule] /\ rows' = rows
      /\ pc'[b] = "poll" /\ since'[b] = 0
  BY DEF Start, Load, MemoryInv, UniqueInv, FreshStart, TypeOK, TypeThread, TypeEvents
<1>2. Remembers(b)'
  <2>1. DOMAIN current'[b] = OpenIds /\ OpenIds \subseteq DOMAIN rows
    BY <1>1 DEF OpenIds
  <2> QED
    BY <1>1, <2>1 DEF Remembers, MemoryInv, UniqueInv, OneOpenPerWriter
<1> QED
  BY <1>1, <1>2 DEF Progress

LEMMA CrashMemory ==
    ASSUME MemoryInv, TypeOK', NEW b \in Backends, Crash(b)
    PROVE  Remembers(b)' /\ Progress(b)'
<1>1. current'[b] = [id \in {} |-> 0] /\ pc'[b] = "down"
  BY DEF Crash, Forget, MemoryInv, UniqueInv, TypeOK, TypeThread, TypeEvents
<1> QED
  BY <1>1 DEF Remembers, Progress

\* A poll enters the first line of the batch with every crossed rule to visit
LEMMA PollMemory ==
    ASSUME MemoryInv, NEW b \in Backends, Poll(b)
    PROVE  Progress(b)'
<1>1. /\ pc'[b] = "compare" /\ line'[b] = since[b] + 1 /\ todo'[b] = Crossed(b, since[b] + 1)
      /\ factory' = factory /\ lines' = lines
  BY DEF Poll, Enter, MemoryInv, UniqueInv, TypeOK, TypeThread
<1>2. Crossed(b, line[b])' = todo'[b]
  BY <1>1 DEF Crossed
<1> QED
  BY <1>1, <1>2 DEF Progress, Visited

\* A tracked rule is done with
LEMMA UpdateMemory ==
    ASSUME MemoryInv, NEW b \in Backends, NEW e \in Rules, RuleUpdates(b, e)
    PROVE  Progress(b)'
<1>1. /\ pc[b] = "compare" /\ pc' = pc /\ line' = line /\ factory' = factory /\ lines' = lines
      /\ current' = current /\ todo'[b] = todo[b] \ {e} /\ Tracked(b, e) # {}
  BY DEF RuleUpdates, MemoryInv, UniqueInv, TypeOK, TypeThread
<1>2. Crossed(b, line[b])' = Crossed(b, line[b]) /\ \A a : Tracked(b, a)' = Tracked(b, a)
  BY <1>1 DEF Crossed, Tracked
<1>3. Visited(b, line[b], todo[b])
  BY <1>1 DEF MemoryInv, Progress
<1> QED
  BY <1>1, <1>2, <1>3 DEF Progress, Visited

\* A rule that is not tracked gets a row and is tracked under its id
LEMMA OpenMemory ==
    ASSUME MemoryInv, TypeOK', NEW b \in Backends, NEW e \in Rules, RuleOpens(b, e)
    PROVE  Remembers(b)' /\ Progress(b)'
<1> DEFINE new == Len(rows) + 1
<1>1. /\ pc[b] = "compare" /\ pc'[b] = "alert" /\ line' = line /\ factory' = factory /\ lines' = lines
      /\ current'[b] = Put(current[b], new, e) /\ todo'[b] = todo[b] \ {e} /\ Tracked(b, e) = {}
  BY DEF RuleOpens, Remember, MemoryInv, UniqueInv, TypeOK, TypeThread, TypeEvents
<1>2. /\ Len(rows) \in Nat /\ DOMAIN rows = 1..Len(rows) /\ DOMAIN rows' = 1..new
      /\ \A id \in DOMAIN rows : rows'[id] = rows[id]
      /\ rows'[new].by = b /\ rows'[new].rule = e
  BY DEF RuleOpens, Remember, MemoryInv, UniqueInv, TypeOK, TypeStore
<1>3. \A id \in DOMAIN current[b] : id \in DOMAIN rows /\ rows[id].rule = current[b][id] /\ id # new /\ id > 0
  BY <1>2 DEF MemoryInv, Remembers
<1>4. /\ DOMAIN current'[b] = DOMAIN current[b] \cup {new} /\ current'[b][new] = e
      /\ \A id \in DOMAIN current[b] : current'[b][id] = current[b][id]
  BY <1>1, <1>3 DEF Put
<1>5. \A id \in DOMAIN current[b] : rows[id].rule # e
  BY <1>1, <1>3 DEF Tracked
<1>6. Remembers(b)'
  <2>1. \A id \in DOMAIN current'[b] : id \in DOMAIN rows' /\ rows'[id].rule = current'[b][id]
    BY <1>2, <1>3, <1>4
  <2>2. ASSUME NEW i \in DOMAIN current'[b], NEW j \in DOMAIN current'[b],
               rows'[i].by = rows'[j].by, rows'[i].rule = rows'[j].rule
        PROVE  i = j
    <3>1. CASE i \in DOMAIN current[b] /\ j \in DOMAIN current[b]
      BY <1>2, <1>3, <2>2, <3>1 DEF MemoryInv, Remembers
    <3>2. CASE i = new \/ j = new
      BY <1>2, <1>3, <1>4, <1>5, <2>2, <3>2
    <3> QED
      BY <1>4, <3>1, <3>2
  <2> QED
    BY <2>1, <2>2 DEF Remembers
<1>7. Crossed(b, line[b])' = Crossed(b, line[b])
  BY <1>1 DEF Crossed
<1>8. \A a : Tracked(b, a) # {} \/ a = e => Tracked(b, a)' # {}
  <2>1. new > 0
    BY <1>2
  <2>2. \A a : Tracked(b, a) \subseteq Tracked(b, a)'
    BY <1>4 DEF Tracked
  <2>3. new \in Tracked(b, e)'
    BY <1>4, <2>1 DEF Tracked
  <2> QED
    BY <2>2, <2>3
<1>9. Visited(b, line[b], todo[b])
  BY <1>1 DEF MemoryInv, Progress
<1>10. Progress(b)'
  BY <1>1, <1>7, <1>8, <1>9 DEF Progress, Visited
<1> QED
  BY <1>6, <1>10

LEMMA AlertMemory ==
    ASSUME MemoryInv, NEW b \in Backends, SendAlert(b)
    PROVE  Progress(b)'
<1>1. /\ pc[b] = "alert" /\ pc'[b] = "compare"
      /\ UNCHANGED <<line, factory, lines, current, todo>>
  BY DEF SendAlert, AlertReturns, MemoryInv, UniqueInv, TypeOK, TypeThread
<1>2. Crossed(b, line[b])' = Crossed(b, line[b]) /\ \A a : Tracked(b, a)' = Tracked(b, a)
  BY <1>1 DEF Crossed, Tracked
<1>3. Visited(b, line[b], todo[b])
  BY <1>1 DEF MemoryInv, Progress
<1> QED
  BY <1>1, <1>2, <1>3 DEF Progress, Visited

LEMMA RulesDoneMemory ==
    ASSUME MemoryInv, NEW b \in Backends, RulesDone(b)
    PROVE  Progress(b)'
<1>1. /\ pc[b] = "compare" /\ todo[b] = {} /\ pc'[b] = "end" /\ ending'[b] = Returned(b)
      /\ UNCHANGED <<line, factory, lines, current>>
  BY DEF RulesDone, MemoryInv, UniqueInv, TypeOK, TypeThread, TypeEvents
<1>2. Crossed(b, line[b])' = Crossed(b, line[b]) /\ \A a : Tracked(b, a)' = Tracked(b, a)
  BY <1>1 DEF Crossed, Tracked
<1>3. Visited(b, line[b], todo[b]) /\ Returned(b)' = Returned(b)
  BY <1>1 DEF MemoryInv, Progress, Returned
<1> QED
  BY <1>1, <1>2, <1>3 DEF Progress, Visited

\* An ended event is forgotten; a crossed rule has not returned and stays tracked
LEMMA EndMemory ==
    ASSUME FewEvents, MemoryInv, [Next]_vars, NEW b \in Backends, EndEvent(b), ~ Fault
    PROVE  Remembers(b)' /\ Progress(b)'
<1>1. /\ pc[b] = "end" /\ UNCHANGED <<lines, pc, line, factory>>
      /\ \E id \in ending[b] : /\ current' = [current EXCEPT ![b] = Drop(current[b], id)]
                               /\ ending' = [ending EXCEPT ![b] = ending[b] \ {id}]
  BY EndsOne
<1>2. PICK id \in ending[b] : /\ current'[b] = Drop(current[b], id)
                              /\ ending'[b] = ending[b] \ {id}
  BY <1>1 DEF MemoryInv, UniqueInv, TypeOK, TypeEvents
<1>3. /\ DOMAIN current'[b] = DOMAIN current[b] \ {id}
      /\ \A i \in DOMAIN current'[b] : current'[b][i] = current[b][i]
  BY <1>2 DEF Drop
<1>4. Remembers(b)'
  BY <1>3, RowsKept DEF MemoryInv, UniqueInv, Remembers
<1>5. Visited(b, line[b], {}) /\ ending[b] = Returned(b)
  BY <1>1 DEF MemoryInv, Progress
<1>6. Returned(b)' = Returned(b) \ {id}
  BY <1>1, <1>3 DEF Returned
<1>7. Crossed(b, line[b])' = Crossed(b, line[b])
  BY <1>1 DEF Crossed
<1>8. ASSUME NEW e \in Crossed(b, line[b]) PROVE Tracked(b, e)' # {}
  <2>1. PICK i \in Tracked(b, e) : TRUE
    BY <1>5 DEF Visited
  <2>2. /\ e \in Rules /\ lines[line[b]] \in Samples /\ Crosses(e, lines[line[b]])
        /\ i \in DOMAIN current[b] /\ current[b][i] = e /\ i > 0
    BY <1>1, <2>1, LineType DEF Crossed, Tracked, MemoryInv, UniqueInv, TypeOK, TypeThread, TypeStore
  <2>3. i # id
    BY <1>5, <2>2, NotBoth DEF Returned
  <2>4. i \in Tracked(b, e)'
    BY <1>3, <2>2, <2>3 DEF Tracked
  <2> QED
    BY <2>4
<1>9. Progress(b)'
  BY <1>1, <1>2, <1>5, <1>6, <1>7, <1>8 DEF Progress, Visited
<1> QED
  BY <1>4, <1>9

\* After the last event the line is stored and the next one entered, or polled for
LEMMA LoadLineMemory ==
    ASSUME MemoryInv, NEW b \in Backends, LoadLine(b)
    PROVE  Progress(b)'
<1>1. /\ pc[b] = "end" /\ ending[b] = {} /\ UNCHANGED <<lines, factory, current, since>>
      /\ \/ pc'[b] = "compare" /\ line'[b] = line[b] + 1 /\ todo'[b] = Crossed(b, line[b] + 1)
         \/ line[b] = since[b] /\ pc'[b] = "poll"
  BY DEF LoadLine, Enter, MemoryInv, UniqueInv, TypeOK, TypeThread
<1>2. \A i : Crossed(b, i)' = Crossed(b, i)
  BY <1>1 DEF Crossed
<1>3. \A a : Tracked(b, a)' = Tracked(b, a)
  BY <1>1 DEF Tracked
<1>4. Visited(b, line[b], {}) /\ Returned(b) = {}
  BY <1>1 DEF MemoryInv, Progress
<1>5. CASE pc'[b] = "compare"
  <2>1. Crossed(b, line[b])' = todo'[b]
    BY <1>1, <1>5 DEF Crossed
  <2> QED
    BY <1>5, <2>1 DEF Progress, Visited
<1>6. CASE line[b] = since[b] /\ pc'[b] = "poll"
  <2>1. Visited(b, since[b], {})'
    BY <1>1, <1>2, <1>3, <1>4, <1>6 DEF Visited
  <2>2. \A id \in DOMAIN current[b] : ~ Returns(current[b][id], lines[since[b]])
    BY <1>4, <1>6 DEF Returned
  <2> QED
    BY <1>1, <1>6, <2>1, <2>2 DEF Progress
<1> QED
  BY <1>1, <1>5, <1>6


\* When no statement fails, a step is one of these
LEMMA Working ==
    ASSUME MaxFaults = 0, TypeOK, [Next]_vars
    PROVE  /\ ~ Fault
           /\ \/ UNCHANGED <<rows, memory>>
              \/ \E b \in Backends :
                    \/ Start(b) \/ Crash(b) \/ Poll(b)
                    \/ \E e \in Rules : RuleUpdates(b, e) \/ RuleOpens(b, e)
                    \/ SendAlert(b) \/ RulesDone(b) \/ EndEvent(b) \/ LoadLine(b)
<1>1. ~ Fault
  BY DEF TypeOK, TypeBounds, Fault
<1>2. CASE UNCHANGED vars \/ AgentReports \/ EditFactory
  BY <1>1, <1>2 DEF vars, AgentReports, EditFactory
<1>3. ASSUME NEW b \in Backends
      PROVE  /\ ~ StartDegraded(b) /\ ~ PollErrorBody(b) /\ ~ AlertLost(b) /\ ~ AlertKills(b)
             /\ \A e \in Rules : ~ RuleOpenFails(b, e)
             /\ PollNothing(b) => UNCHANGED vars
  BY <1>1 DEF StartDegraded, PollErrorBody, AlertLost, AlertKills, RuleOpenFails, PollNothing
<1> QED
  BY <1>1, <1>2, <1>3 DEF Next, Process, vars

LEMMA StepMemory ==
    ASSUME MaxFaults = 0, FewEvents, MemoryInv, [Next]_vars PROVE MemoryInv'
<1>1. TypeOK /\ UniqueInv' /\ TypeOK' /\ FreshStart'
  BY StepUnique, StepFresh DEF MemoryInv, UniqueInv
<1>2. ASSUME NEW c \in Backends, Same(c) PROVE Remembers(c)' /\ Progress(c)'
  BY <1>2, SameRemembers, SameProgress DEF Same
<1>3. CASE UNCHANGED <<rows, memory>>
  <2>1. ASSUME NEW c \in Backends PROVE Same(c)
    BY <1>3 DEF Same, memory
  <2> QED
    BY <1>1, <1>2, <2>1 DEF MemoryInv
<1>4. ASSUME NEW b \in Backends,
             \/ Start(b) \/ Crash(b) \/ Poll(b)
             \/ \E e \in Rules : RuleUpdates(b, e) \/ RuleOpens(b, e)
             \/ SendAlert(b) \/ RulesDone(b) \/ EndEvent(b) \/ LoadLine(b)
      PROVE  MemoryInv'
  <2>1. ASSUME NEW c \in Backends \ {b} PROVE Remembers(c)' /\ Progress(c)'
    <3>1. Start(b) \/ Crash(b) \/ Process(b)
      BY <1>4 DEF Process
    <3> QED
      BY <1>1, <1>2, <3>1, OthersSame
  <2>2. Remembers(b)' /\ Progress(b)'
    <3>1. CASE Start(b) \/ Crash(b)
      BY <1>1, <3>1, StartMemory, CrashMemory
    <3>2. CASE Poll(b) \/ SendAlert(b) \/ RulesDone(b) \/ LoadLine(b)
      <4>1. current' = current
        BY <3>2 DEF Poll, SendAlert, AlertReturns, RulesDone, LoadLine
      <4> QED
        BY <3>2, <4>1, SameRemembers, PollMemory, AlertMemory, RulesDoneMemory, LoadLineMemory
    <3>3. ASSUME NEW e \in Rules, RuleUpdates(b, e) PROVE Remembers(b)' /\ Progress(b)'
      <4>1. current' = current
        BY <3>3 DEF RuleUpdates
      <4> QED
        BY <3>3, <4>1, SameRemembers, UpdateMemory
    <3>4. ASSUME NEW e \in Rules, RuleOpens(b, e) PROVE Remembers(b)' /\ Progress(b)'
      BY <1>1, <3>4, OpenMemory
    <3>5. CASE EndEvent(b)
      BY <1>1, <3>5, EndMemory, Working
    <3> QED
      BY <1>4, <3>1, <3>2, <3>3, <3>4, <3>5
  <2> QED
    BY <1>1, <2>1, <2>2 DEF MemoryInv
<1> QED
  BY <1>1, <1>3, <1>4, Working

LEMMA MemoryInvariant == ASSUME MaxFaults = 0, FewEvents PROVE Spec => []MemoryInv
<1>1. Init => \A b \in Backends : Remembers(b) /\ Progress(b)
  BY DEF Init, Remembers, Progress
<1>2. Init => FreshStart
  BY DEF Init, FreshStart
<1>3. UniqueInv /\ FreshStart /\ (\A b \in Backends : Remembers(b) /\ Progress(b)) => MemoryInv
  BY DEF MemoryInv
<1>4. MemoryInv /\ [Next]_vars => MemoryInv'
  BY StepMemory
<1>5. Spec => []UniqueInv
  BY UniqueInvariant
<1> QED
  BY <1>1, <1>2, <1>3, <1>4, <1>5, PTL DEF Spec

-----------------------------------------------------------------------------
(***************************************************************************)
(* The table as a whole, whoever writes and ends its rows: when the last   *)
(* open row of a rule is ended, the one who ends it no longer tracks the   *)
(* rule, and will open a row when it crosses again.                        *)
(***************************************************************************)
LastEnder ==
    \A e \in Rules :
        (\A id \in OpenIds : rows[id].rule # e)
            => \E b \in Backends : pc[b] = "down" \/ Tracked(b, e) \subseteq ending[b]

\* A step of anyone that opens or ends no row, and after which who no longer tracks
\* a rule still does not
LEMMA SameEnder ==
    ASSUME MemoryInv, LastEnder, [Next]_vars, OpenIds' = OpenIds,
           \A b \in Backends :
              \/ pc'[b] = "down"
              \/ pc[b] # "down" /\ current'[b] = current[b] /\ ending[b] \subseteq ending'[b]
    PROVE  LastEnder'
<1> SUFFICES ASSUME NEW e \in Rules, \A id \in OpenIds : rows'[id].rule # e
             PROVE  \E b \in Backends : pc'[b] = "down" \/ Tracked(b, e)' \subseteq ending'[b]
  BY DEF LastEnder
<1>1. \A id \in OpenIds : rows[id].rule # e
  BY RowsKept DEF MemoryInv, UniqueInv, OpenIds
<1>2. PICK b \in Backends : pc[b] = "down" \/ Tracked(b, e) \subseteq ending[b]
  BY <1>1 DEF LastEnder
<1> QED
  BY <1>2 DEF Tracked

\* A new row of the rule is open; nobody's memory of the other rules changes
LEMMA OpenEnder ==
    ASSUME MemoryInv, LastEnder, NEW b \in Backends, NEW e \in Rules, RuleOpens(b, e)
    PROVE  LastEnder'
<1> DEFINE new == Len(rows) + 1
<1>1. /\ Len(rows) \in Nat /\ DOMAIN rows = 1..Len(rows) /\ DOMAIN rows' = 1..new
      /\ \A id \in DOMAIN rows : rows'[id] = rows[id]
      /\ rows'[new].rule = e /\ rows'[new].end = Null
  BY DEF RuleOpens, MemoryInv, UniqueInv, TypeOK, TypeStore
<1>2. /\ pc[b] = "compare" /\ pc' = [pc EXCEPT ![b] = "alert"] /\ ending' = ending
      /\ current' = [current EXCEPT ![b] = Put(current[b], new, e)]
  BY DEF RuleOpens, Remember
<1>3. OpenIds \subseteq OpenIds' /\ new \in OpenIds'
  BY <1>1 DEF OpenIds
<1>4. \A a \in Rules \ {e} : \A c \in Backends : Tracked(c, a)' = Tracked(c, a)
  <2>1. \A id \in DOMAIN current[b] : id # new
    BY <1>1 DEF MemoryInv, Remembers
  <2>2. /\ DOMAIN Put(current[b], new, e) = DOMAIN current[b] \cup {new}
        /\ Put(current[b], new, e)[new] = e
        /\ \A id \in DOMAIN current[b] : Put(current[b], new, e)[id] = current[b][id]
    BY <2>1 DEF Put
  <2>3. \A a \in Rules \ {e} : Tracked(b, a)' = Tracked(b, a)
    BY <1>2, <2>1, <2>2 DEF Tracked, MemoryInv, UniqueInv, TypeOK, TypeEvents
  <2>4. \A a \in Rules : \A c \in Backends \ {b} : Tracked(c, a)' = Tracked(c, a)
    BY <1>2 DEF Tracked, MemoryInv, UniqueInv, TypeOK, TypeEvents
  <2> QED
    BY <2>3, <2>4
<1> SUFFICES ASSUME NEW a \in Rules, \A id \in OpenIds' : rows'[id].rule # a
             PROVE  \E c \in Backends : pc'[c] = "down" \/ Tracked(c, a)' \subseteq ending'[c]
  BY DEF LastEnder
<1>5. a # e /\ \A id \in OpenIds : rows[id].rule # a
  BY <1>1, <1>3 DEF OpenIds
<1>6. PICK c \in Backends : pc[c] = "down" \/ Tracked(c, a) \subseteq ending[c]
  BY <1>5 DEF LastEnder
<1>7. pc[c] = "down" => pc'[c] = "down"
  BY <1>2 DEF MemoryInv, UniqueInv, TypeOK, TypeThread
<1> QED
  BY <1>2, <1>4, <1>5, <1>6, <1>7

\* Who ends the last open row of a rule is about to end all it tracks of it
LEMMA EndEnder ==
    ASSUME FewEvents, MemoryInv, LastEnder, [Next]_vars, NEW b \in Backends, EndEvent(b), ~ Fault
    PROVE  LastEnder'
<1>1. /\ pc[b] = "end" /\ pc' = pc
      /\ \E id \in ending[b] :
            /\ rows' = WithEnd(id, Stamp(line[b]))
            /\ current' = [current EXCEPT ![b] = Drop(current[b], id)]
            /\ ending' = [ending EXCEPT ![b] = ending[b] \ {id}]
  BY EndsOne
<1>2. PICK id \in ending[b] :
            /\ rows' = WithEnd(id, Stamp(line[b]))
            /\ current' = [current EXCEPT ![b] = Drop(current[b], id)]
            /\ ending' = [ending EXCEPT ![b] = ending[b] \ {id}]
  BY <1>1
<1>3. /\ DOMAIN current = Backends /\ DOMAIN ending = Backends
      /\ ending[b] = Returned(b) /\ id \in DOMAIN current[b]
      /\ id \in DOMAIN rows /\ rows[id].rule = current[b][id]
  BY <1>1 DEF MemoryInv, UniqueInv, TypeOK, TypeEvents, Progress, Remembers, Returned
<1>4. \A a : /\ Tracked(b, a)' = Tracked(b, a) \ {id} /\ ending'[b] = ending[b] \ {id}
             /\ \A c \in Backends \ {b} : Tracked(c, a)' = Tracked(c, a) /\ ending'[c] = ending[c]
  BY <1>2, <1>3 DEF Tracked, Drop
<1>5. \A i \in OpenIds \ {id} : i \in OpenIds' /\ rows'[i].rule = rows[i].rule
  BY <1>2 DEF OpenIds, WithEnd
<1> SUFFICES ASSUME NEW a \in Rules, \A i \in OpenIds' : rows'[i].rule # a
             PROVE  \E c \in Backends : pc'[c] = "down" \/ Tracked(c, a)' \subseteq ending'[c]
  BY DEF LastEnder
<1>6. CASE rows[id].rule = a
  <2>1. Tracked(b, a) \subseteq ending[b]
    BY <1>3, <1>6 DEF Tracked, Returned
  <2> QED
    BY <1>4, <2>1
<1>7. CASE rows[id].rule # a
  <2>1. \A i \in OpenIds : rows[i].rule # a
    BY <1>5, <1>7
  <2>2. PICK c \in Backends : pc[c] = "down" \/ Tracked(c, a) \subseteq ending[c]
    BY <2>1 DEF LastEnder
  <2>3. CASE pc[c] = "down"
    BY <1>1, <2>3
  <2>4. CASE Tracked(c, a) \subseteq ending[c]
    BY <1>4, <2>4
  <2> QED
    BY <2>2, <2>3, <2>4
<1> QED
  BY <1>6, <1>7

LEMMA StepEnder ==
    ASSUME MaxFaults = 0, FewEvents, MemoryInv, LastEnder, [Next]_vars PROVE LastEnder'
<1>1. TypeOK
  BY DEF MemoryInv, UniqueInv
<1>2. CASE UNCHANGED <<rows, memory>>
  BY <1>2 DEF LastEnder, OpenIds, Tracked, memory
<1>3. ASSUME NEW b \in Backends, Start(b) PROVE LastEnder'
  <2>1. /\ current'[b] = [id \in OpenIds |-> rows[id].rule] /\ rows' = rows
    BY <1>1, <1>3 DEF Start, Load, TypeOK, TypeEvents
  <2>2. OpenIds' = OpenIds
    BY <2>1 DEF OpenIds
  <2>3. ASSUME NEW e \in Rules, \A id \in OpenIds : rows[id].rule # e
        PROVE  Tracked(b, e)' = {}
    BY <2>1, <2>3 DEF Tracked
  <2> QED
    BY <2>1, <2>2, <2>3 DEF LastEnder
<1>4. ASSUME NEW b \in Backends, Crash(b) PROVE LastEnder'
  <2>1. pc'[b] = "down"
    BY <1>1, <1>4 DEF Crash, Forget, TypeOK, TypeThread
  <2> QED
    BY <2>1 DEF LastEnder
<1>5. ASSUME NEW b \in Backends, Poll(b) \/ SendAlert(b) \/ RulesDone(b) \/ LoadLine(b)
      PROVE  LastEnder'
  <2>1. rows' = rows /\ current' = current /\ pc[b] # "down"
    BY <1>5 DEF Poll, SendAlert, AlertReturns, RulesDone, LoadLine
  <2>2. \A c \in Backends \ {b} : pc'[c] = pc[c] /\ ending'[c] = ending[c]
    <3>1. Process(b)
      BY <1>5 DEF Process
    <3> QED
      BY <1>1, <3>1, OthersSame DEF Same
  <2>3. ending[b] \subseteq ending'[b]
    <3>1. CASE RulesDone(b)
      BY <1>1, <3>1 DEF RulesDone, TypeOK, TypeEvents
    <3>2. CASE Poll(b) \/ SendAlert(b) \/ LoadLine(b)
      BY <3>2 DEF Poll, SendAlert, AlertReturns, LoadLine
    <3> QED
      BY <1>5, <3>1, <3>2
  <2>4. OpenIds' = OpenIds
    BY <2>1 DEF OpenIds
  <2> QED
    BY <2>1, <2>2, <2>3, <2>4, SameEnder
<1>6. ASSUME NEW b \in Backends, NEW e \in Rules, RuleUpdates(b, e) PROVE LastEnder'
  <2>1. /\ pc[b] # "down" /\ pc' = pc /\ current' = current /\ ending' = ending
    BY <1>6 DEF RuleUpdates
  <2>2. OpenIds' = OpenIds
    <3>1. \A id \in DOMAIN rows : rows[id] \in EventRow
      BY <1>1, RowType
    <3> QED
      BY <1>6, <3>1 DEF RuleUpdates, WithValue, OpenIds, EventRow
  <2> QED
    BY <2>1, <2>2, SameEnder
<1>7. ASSUME NEW b \in Backends, NEW e \in Rules, RuleOpens(b, e) PROVE LastEnder'
  BY <1>7, OpenEnder
<1>8. ASSUME NEW b \in Backends, EndEvent(b) PROVE LastEnder'
  BY <1>1, <1>8, EndEnder, Working
<1> QED
  BY <1>1, <1>2, <1>3, <1>4, <1>5, <1>6, <1>7, <1>8, Working

\* If no statement fails and there are fewer than four pairs of a backend and a rule, then
\* whenever every backend is up and has parsed the last line, the open rows of res_events
\* agree with that line, after any crashes, restarts, late starts and replays.
THEOREM TableAgrees ==
    ASSUME MaxFaults = 0, FewEvents, Backends # {} PROVE Spec => []RestMatchesLine
<1>1. Init => LastEnder
  BY DEF Init, LastEnder
<1>2. MemoryInv /\ LastEnder /\ [Next]_vars => LastEnder'
  BY StepEnder
<1>3. MemoryInv /\ LastEnder => RestMatchesLine
  <2> SUFFICES ASSUME MemoryInv, LastEnder, Len(lines) > 0,
                      \A b \in Backends : pc[b] = "poll" /\ since[b] = Len(lines), NEW e \in Rules
               PROVE  /\ Crosses(e, lines[Len(lines)]) /\ (\A b \in Backends : e \in factory[b])
                           => \E id \in OpenIds : rows[id].rule = e
                      /\ Returns(e, lines[Len(lines)]) => \A id \in OpenIds : rows[id].rule # e
    BY DEF RestMatchesLine, AtRest
  <2>1. \A b \in Backends :
          /\ Visited(b, Len(lines), {}) /\ ending[b] = {}
          /\ \A id \in DOMAIN current[b] : ~ Returns(current[b][id], lines[Len(lines)])
    BY DEF MemoryInv, Progress, UniqueInv, TypeOK, TypeEvents
  <2>2. ASSUME Crosses(e, lines[Len(lines)]), \A b \in Backends : e \in factory[b]
        PROVE  \E id \in OpenIds : rows[id].rule = e
    <3>1. \A b \in Backends : ~ (Tracked(b, e) \subseteq ending[b])
      BY <2>1, <2>2 DEF Visited, Crossed
    <3> QED
      BY <3>1 DEF LastEnder
  <2>3. ASSUME Returns(e, lines[Len(lines)]), NEW id \in OpenIds, rows[id].rule = e PROVE FALSE
    <3>1. rows[id].by \in Backends
      BY RowType DEF MemoryInv, UniqueInv, OpenIds, EventRow
    <3>2. id \in DOMAIN current[rows[id].by] /\ current[rows[id].by][id] = e
      BY <2>3, <3>1 DEF MemoryInv, UniqueInv, WriterRemembers
    <3> QED
      BY <2>1, <2>3, <3>1, <3>2
  <2> QED
    BY <2>2, <2>3
<1> QED
  BY <1>1, <1>2, <1>3, MemoryInvariant, PTL DEF Spec

-----------------------------------------------------------------------------
(***************************************************************************)
(* A lone backend, when no statement fails: it remembers open rows only,   *)
(* for nobody else ends a row under it.  So no step of its own touches a   *)
(* row that was ended.                                                     *)
(***************************************************************************)
Lone == \A b, c \in Backends : b = c

Holds(b) == \A id \in DOMAIN current[b] : id \in OpenIds /\ rows[id].rule = current[b][id]

LoneInv == UniqueInv /\ \A b \in Backends : Holds(b)

EndedStay == \A id \in DOMAIN rows : rows[id].end # Null => rows'[id] = rows[id]

\* The event found for a rule is the only one tracked
LEMMA FoundOpen ==
    ASSUME Lone, LoneInv, NEW b \in Backends, NEW e \in Rules, Tracked(b, e) # {}
    PROVE  Found(b, e) \in OpenIds
<1>1. PICK id \in Tracked(b, e) : TRUE
  OBVIOUS
<1>2. \A i \in Tracked(b, e) : i \in OpenIds /\ i \in Nat /\ rows[i].by \in Backends /\ rows[i].rule = e
  BY RowType DEF LoneInv, UniqueInv, Holds, Tracked, OpenIds, EventRow
<1>3. \A i \in Tracked(b, e) : i = id
  BY <1>1, <1>2 DEF Lone, LoneInv, UniqueInv, OneOpenPerWriter
<1>4. id \in Tracked(b, e) /\ \A other \in Tracked(b, e) : other <= id
  BY <1>1, <1>2, <1>3
<1>5. Found(b, e) \in Tracked(b, e)
  BY <1>4 DEF Found
<1> QED
  BY <1>2, <1>5

\* A step that changes neither the rows nor what is remembered, or forgets it
LEMMA QuietHolds ==
    ASSUME LoneInv, UniqueInv', rows' = rows,
           \A b \in Backends : current'[b] = current[b] \/ DOMAIN current'[b] = {}
    PROVE  LoneInv' /\ EndedStay
BY DEF LoneInv, Holds, OpenIds, EndedStay

LEMMA UpdateHolds ==
    ASSUME Lone, LoneInv, UniqueInv', NEW b \in Backends, NEW e \in Rules, RuleUpdates(b, e),
           ~ Fault
    PROVE  LoneInv' /\ EndedStay
<1>1. Found(b, e) \in OpenIds
  BY FoundOpen DEF RuleUpdates
<1>2. rows' = WithValue(Found(b, e), lines[line[b]][e.property]) /\ current' = current
  BY DEF RuleUpdates
<1>3. \A id \in DOMAIN rows : rows[id] \in EventRow
  BY RowType DEF LoneInv, UniqueInv
<1>4. /\ DOMAIN rows' = DOMAIN rows
      /\ \A id \in DOMAIN rows : rows'[id].rule = rows[id].rule /\ rows'[id].end = rows[id].end
      /\ \A id \in DOMAIN rows : id # Found(b, e) => rows'[id] = rows[id]
  BY <1>2, <1>3 DEF WithValue, EventRow
<1> QED
  BY <1>1, <1>2, <1>4 DEF LoneInv, Holds, OpenIds, EndedStay

LEMMA OpenHolds ==
    ASSUME LoneInv, UniqueInv', NEW b \in Backends, NEW e \in Rules, RuleOpens(b, e)
    PROVE  LoneInv' /\ EndedStay
<1> DEFINE new == Len(rows) + 1
<1>1. /\ Len(rows) \in Nat /\ DOMAIN rows = 1..Len(rows) /\ DOMAIN rows' = 1..new
      /\ \A id \in DOMAIN rows : rows'[id] = rows[id]
      /\ rows'[new].rule = e /\ rows'[new].end = Null
  BY DEF RuleOpens, LoneInv, UniqueInv, TypeOK, TypeStore
<1>2. /\ current'[b] = Put(current[b], new, e)
      /\ \A c \in Backends \ {b} : current'[c] = current[c]
  BY DEF RuleOpens, Remember, LoneInv, UniqueInv, TypeOK, TypeEvents
<1>3. \A id \in DOMAIN current'[b] :
        \/ id = new /\ current'[b][id] = e
        \/ id \in DOMAIN current[b] /\ current'[b][id] = current[b][id]
  BY <1>2 DEF Put
<1>4. OpenIds \subseteq OpenIds' /\ new \in OpenIds'
  BY <1>1 DEF OpenIds
<1>5. \A id \in OpenIds : rows'[id].rule = rows[id].rule
  BY <1>1 DEF OpenIds
<1>6. \A c \in Backends : Holds(c)'
  BY <1>1, <1>2, <1>3, <1>4, <1>5 DEF LoneInv, Holds
<1> QED
  BY <1>1, <1>6 DEF LoneInv, EndedStay

\* The row ended is an open one, and leaves memory as it is ended
LEMMA EndHolds ==
    ASSUME Lone, LoneInv, UniqueInv', NEW b \in Backends, EndEvent(b), ~ Fault
    PROVE  LoneInv' /\ EndedStay
<1>1. PICK id \in ending[b] :
         /\ rows' = WithEnd(id, Stamp(line[b]))
         /\ current' = [current EXCEPT ![b] = Drop(current[b], id)]
  BY EndEventEffect
<1>2. ending[b] \subseteq DOMAIN current[b] /\ DOMAIN current = Backends
  BY DEF LoneInv, UniqueInv, TypeOK, TypeEvents
<1>3. id \in OpenIds
  BY <1>2 DEF LoneInv, Holds
<1>4. \A i \in DOMAIN rows : rows[i] \in EventRow
  BY RowType DEF LoneInv, UniqueInv
<1>5. /\ DOMAIN rows' = DOMAIN rows
      /\ \A i \in DOMAIN rows : rows'[i].rule = rows[i].rule
      /\ \A i \in DOMAIN rows : i # id => rows'[i] = rows[i]
  BY <1>1, <1>4 DEF WithEnd, EventRow
<1>6. \A c \in Backends : c = b
  BY DEF Lone
<1>7. DOMAIN current'[b] = DOMAIN current[b] \ {id}
      /\ \A i \in DOMAIN current'[b] : current'[b][i] = current[b][i]
  BY <1>1, <1>2 DEF Drop
<1>8. Holds(b)'
  BY <1>5, <1>7 DEF LoneInv, Holds, OpenIds
<1> QED
  BY <1>3, <1>5, <1>6, <1>8 DEF LoneInv, EndedStay, OpenIds

LEMMA StepLone ==
    ASSUME MaxFaults = 0, Lone, LoneInv, [Next]_vars PROVE LoneInv' /\ EndedStay
<1>1. TypeOK /\ UniqueInv'
  BY StepUnique DEF LoneInv, UniqueInv
<1>2. CASE UNCHANGED <<rows, memory>>
  BY <1>1, <1>2, QuietHolds DEF memory
<1>3. ASSUME NEW b \in Backends, Start(b) PROVE LoneInv' /\ EndedStay
  <2>1. /\ current' = [current EXCEPT ![b] = [id \in OpenIds |-> rows[id].rule]] /\ rows' = rows
    BY <1>3 DEF Start, Load
  <2>2. OpenIds' = OpenIds
    BY <2>1 DEF OpenIds
  <2> QED
    BY <1>1, <2>1, <2>2 DEF LoneInv, Holds, EndedStay, TypeOK, TypeEvents
<1>4. ASSUME NEW b \in Backends,
             Crash(b) \/ Poll(b) \/ SendAlert(b) \/ RulesDone(b) \/ LoadLine(b)
      PROVE  LoneInv' /\ EndedStay
  <2>1. /\ rows' = rows
        /\ current' = current \/ current' = [current EXCEPT ![b] = [id \in {} |-> 0]]
    BY <1>4 DEF Crash, Forget, Poll, SendAlert, AlertReturns, RulesDone, LoadLine
  <2> QED
    BY <1>1, <2>1, QuietHolds DEF TypeOK, TypeEvents
<1>5. ASSUME NEW b \in Backends, NEW e \in Rules, RuleUpdates(b, e) \/ RuleOpens(b, e)
      PROVE  LoneInv' /\ EndedStay
  BY <1>1, <1>5, UpdateHolds, OpenHolds, Working
<1>6. ASSUME NEW b \in Backends, EndEvent(b) PROVE LoneInv' /\ EndedStay
  BY <1>1, <1>6, EndHolds, Working
<1> QED
  BY <1>1, <1>2, <1>3, <1>4, <1>5, <1>6, Working

LEMMA LoneInvariant == ASSUME MaxFaults = 0, Lone PROVE Spec => []LoneInv
<1>1. Init => \A b \in Backends : Holds(b)
  BY DEF Init, Holds
<1>2. UniqueInv /\ (\A b \in Backends : Holds(b)) => LoneInv
  BY DEF LoneInv
<1>3. LoneInv /\ [Next]_vars => LoneInv'
  BY StepLone
<1>4. Spec => []UniqueInv
  BY UniqueInvariant
<1> QED
  BY <1>1, <1>2, <1>3, <1>4, PTL DEF Spec

\* If no statement fails and one backend collects the resource, a row that was ended is
\* never touched again: no update, no second end, whatever is replayed after a crash.
THEOREM EndedIsFinal == ASSUME MaxFaults = 0, Lone PROVE Spec => HistoryIsFinal
<1>1. LoneInv /\ [Next]_vars
        => [\A id \in DOMAIN rows : rows[id].end # Null => rows'[id] = rows[id]]_vars
  BY StepLone DEF EndedStay
<1> QED
  BY <1>1, LoneInvariant, PTL DEF Spec, HistoryIsFinal

\* If moreover the rules are fewer than four, the open rows say between two polls what the
\* last line parsed says: a crossed rule has one, a rule that returned has none.
THEOREM OpenRowsAgree ==
    ASSUME MaxFaults = 0, FewEvents, Lone PROVE Spec => []OpenMatchesLine
<1>1. MemoryInv /\ LoneInv => OpenMatchesLine
  <2> SUFFICES ASSUME MemoryInv, LoneInv, NEW b \in Backends, pc[b] = "poll", since[b] > 0,
                      NEW e \in Rules
               PROVE  /\ e \in factory[b] /\ Crosses(e, lines[since[b]]) => OpenOf(b, e) # {}
                      /\ Returns(e, lines[since[b]]) => OpenOf(b, e) = {}
    BY DEF OpenMatchesLine
  <2>1. /\ Visited(b, since[b], {})
        /\ \A id \in DOMAIN current[b] : ~ Returns(current[b][id], lines[since[b]])
    BY DEF MemoryInv, Progress
  <2>2. ASSUME e \in factory[b], Crosses(e, lines[since[b]]) PROVE OpenOf(b, e) # {}
    <3>1. PICK id \in Tracked(b, e) : TRUE
      BY <2>1, <2>2 DEF Visited, Crossed
    <3>2. id \in OpenIds /\ rows[id].rule = e /\ rows[id].by \in Backends
      BY <3>1, RowType DEF Tracked, LoneInv, UniqueInv, Holds, OpenIds, EventRow
    <3> QED
      BY <3>2 DEF OpenOf, Lone
  <2>3. ASSUME Returns(e, lines[since[b]]), NEW id \in OpenOf(b, e) PROVE FALSE
    BY <2>1, <2>3 DEF OpenOf, LoneInv, UniqueInv, WriterRemembers
  <2> QED
    BY <2>2, <2>3
<1> QED
  BY <1>1, MemoryInvariant, LoneInvariant, PTL

-----------------------------------------------------------------------------
(***************************************************************************)
(* The first life of a lone backend: what its rows say of the lines it has *)
(* gone through.                                                           *)
(***************************************************************************)
\* The line b is at, or the last one between two polls
Reached(b) == IF pc[b] = "poll" THEN since[b] ELSE line[b]

Within(r, k) == r.start <= k /\ (r.end = Null \/ k < r.end)

\* The row r starts where its rule crosses and ends where it has returned
Dated(b, r) ==
    /\ r.start \in 1..Reached(b) /\ Crosses(r.rule, lines[r.start])
    /\ r.end # Null => /\ r.end \in 1..Reached(b) /\ r.start < r.end
                       /\ Returns(r.rule, lines[r.end])

\* and the rule does not return in between
Unbroken(b, r) == \A k \in Parsed(b) : Within(r, k) => ~ Returns(r.rule, lines[k])

Covered(b, k) == \A e \in Crossed(b, k) : \E id \in DOMAIN rows : rows[id].rule = e /\ Within(rows[id], k)

Chronicle(b) ==
    /\ pc[b] = "down" => DOMAIN rows = {}
    /\ \A id \in DOMAIN rows : Dated(b, rows[id]) /\ Unbroken(b, rows[id])
    /\ \A k \in Parsed(b) : Covered(b, k)

EpisodesInv == MemoryInv /\ LoneInv /\ (crashes = 0 => \A b \in Backends : Chronicle(b))

\* What is parsed was reached, and what was reached was reported
LEMMA ParsedReached ==
    ASSUME TypeOK, NEW b \in Backends
    PROVE  /\ Reached(b) \in 0..Len(lines)
           /\ \A k \in Parsed(b) : k \in 1..Len(lines) /\ k <= Reached(b)
BY DEF Parsed, Reached, TypeOK, TypeThread, TypeStore

\* The row id is, but for current_value, what it was, and b has parsed nothing more
LEMMA SameRow ==
    ASSUME TypeOK, [Next]_vars, NEW b \in Backends, NEW id \in DOMAIN rows,
           rows'[id].start = rows[id].start, rows'[id].end = rows[id].end,
           Parsed(b)' \subseteq Parsed(b), Reached(b) <= Reached(b)', TypeOK',
           Dated(b, rows[id]), Unbroken(b, rows[id])
    PROVE  Dated(b, rows[id])' /\ Unbroken(b, rows[id])'
<1>1. rows'[id].rule = rows[id].rule
  BY RowsKept
<1>2. /\ Reached(b) \in 0..Len(lines) /\ Reached(b)' \in 0..Len(lines')
      /\ \A k \in 1..Len(lines) : lines'[k] = lines[k]
      /\ Len(lines) \in Nat /\ Len(lines') \in Nat
  <2>1. Reached(b)' \in 0..Len(lines')
    BY DEF Reached, TypeOK, TypeThread
  <2> QED
    BY <2>1, ParsedReached, LinesKept
<1>3. 1..Reached(b) \subseteq 1..Len(lines) /\ 1..Reached(b) \subseteq 1..Reached(b)'
  BY <1>2
<1>4. Dated(b, rows[id])'
  BY <1>1, <1>2, <1>3 DEF Dated
<1>5. \A k \in Parsed(b) : lines'[k] = lines[k]
  BY <1>2, ParsedReached
<1>6. Unbroken(b, rows[id])'
  BY <1>1, <1>5 DEF Unbroken, Within
<1> QED
  BY <1>4, <1>6

\* A step that changes no date of a row and parses nothing more
LEMMA SameChronicle ==
    ASSUME TypeOK, TypeOK', [Next]_vars, NEW b \in Backends, Chronicle(b), pc'[b] # "down" \/ pc[b] = "down",
           factory'[b] = factory[b], Parsed(b)' = Parsed(b), Reached(b) <= Reached(b)',
           DOMAIN rows' = DOMAIN rows,
           \A id \in DOMAIN rows : rows'[id].start = rows[id].start /\ rows'[id].end = rows[id].end
    PROVE  Chronicle(b)'
<1>1. ASSUME NEW id \in DOMAIN rows PROVE Dated(b, rows[id])' /\ Unbroken(b, rows[id])'
  BY SameRow DEF Chronicle
<1>2. ASSUME NEW k \in Parsed(b) PROVE Covered(b, k)'
  <2>1. Crossed(b, k)' = Crossed(b, k)
    BY SameLine, ParsedReached
  <2>2. Covered(b, k)
    BY DEF Chronicle
  <2> QED
    BY <2>1, <2>2, RowsKept DEF Covered, Within
<1> QED
  BY <1>1, <1>2 DEF Chronicle

\* A row is opened on a line that crosses its rule, and that is not parsed yet
LEMMA OpenChronicle ==
    ASSUME Grain = 1, EpisodesInv, TypeOK', [Next]_vars, NEW b \in Backends, Chronicle(b),
           NEW e \in Rules, RuleOpens(b, e), todo[b] \subseteq Crossed(b, line[b])
    PROVE  Chronicle(b)'
<1>0. PICK new : new = Len(rows) + 1
  OBVIOUS
<1>1. /\ Len(rows) \in Nat /\ DOMAIN rows = 1..Len(rows) /\ DOMAIN rows' = 1..new
      /\ new \in Nat /\ \A id \in DOMAIN rows' : id = new \/ id \in DOMAIN rows
      /\ \A id \in DOMAIN rows : rows'[id] = rows[id]
      /\ rows'[new].rule = e /\ rows'[new].end = Null /\ rows'[new].start = Stamp(line[b])
  BY <1>0 DEF RuleOpens, EpisodesInv, LoneInv, UniqueInv, TypeOK, TypeStore
<1>2. /\ pc[b] = "compare" /\ pc'[b] = "alert" /\ line' = line /\ since' = since
      /\ factory' = factory /\ lines' = lines /\ e \in todo[b] /\ TypeOK
  BY DEF RuleOpens, Remember, EpisodesInv, LoneInv, UniqueInv, TypeOK, TypeThread
<1>3. line[b] \in 1..Len(lines) /\ Stamp(line[b]) = line[b]
  <2>1. line[b] \in 1..Len(lines)
    BY <1>2, LineType
  <2> QED
    BY <2>1, OwnStamp
<1>4. Parsed(b)' = Parsed(b) /\ Reached(b)' = line[b] /\ Reached(b) = line[b]
  BY <1>2 DEF Parsed, Reached
<1>5. ASSUME NEW id \in DOMAIN rows PROVE Dated(b, rows[id])' /\ Unbroken(b, rows[id])'
  <2>1. Dated(b, rows[id]) /\ Unbroken(b, rows[id])
    BY DEF Chronicle
  <2>2. Reached(b) <= Reached(b)'
    BY <1>3, <1>4
  <2> QED
    BY <1>1, <1>2, <1>4, <2>1, <2>2, SameRow
<1>6. Dated(b, rows[new])'
  <2>1. Crosses(e, lines[line[b]])
    BY <1>2 DEF Crossed
  <2> QED
    BY <1>1, <1>2, <1>3, <1>4, <2>1 DEF Dated
<1>7. Unbroken(b, rows[new])'
  <2>1. \A k \in Parsed(b)' : k \in Int /\ k < line[b]
    BY <1>2, <1>3, <1>4 DEF Parsed
  <2>2. \A k \in Parsed(b)' : ~ (rows'[new].start <= k)
    BY <1>1, <1>3, <2>1
  <2> QED
    BY <2>2 DEF Unbroken, Within
<1>8. ASSUME NEW k \in Parsed(b) PROVE Covered(b, k)'
  <2>1. Crossed(b, k)' = Crossed(b, k)
    BY <1>2 DEF Crossed
  <2>2. Covered(b, k)
    BY DEF Chronicle
  <2>3. \A id \in DOMAIN rows : id \in DOMAIN rows' /\ rows'[id] = rows[id]
    BY <1>0, <1>1
  <2> QED
    BY <2>1, <2>2, <2>3 DEF Covered, Within
<1> QED
  BY <1>1, <1>2, <1>4, <1>5, <1>6, <1>7, <1>8 DEF Chronicle

\* A row is ended on the first line on which its rule has returned
LEMMA EndChronicle ==
    ASSUME Grain = 1, FewEvents, EpisodesInv, TypeOK', [Next]_vars, NEW b \in Backends, Chronicle(b),
           EndEvent(b), ~ Fault
    PROVE  Chronicle(b)'
<1>1. /\ pc[b] = "end" /\ UNCHANGED <<lines, pc, since, line, factory>>
      /\ \E id \in ending[b] : rows' = WithEnd(id, Stamp(line[b]))
  BY EndsOne DEF EpisodesInv
<1>2. PICK id \in ending[b] : rows' = WithEnd(id, Stamp(line[b]))
  BY <1>1
<1>3. /\ TypeOK /\ ending[b] = Returned(b) /\ ending[b] \subseteq DOMAIN current[b]
      /\ id \in OpenIds /\ rows[id].rule = current[b][id]
  BY <1>1 DEF EpisodesInv, MemoryInv, LoneInv, UniqueInv, TypeOK, TypeEvents, Progress, Holds
<1>4. line[b] \in 1..Len(lines) /\ Stamp(line[b]) = line[b] /\ line[b] \in Nat
  <2>1. line[b] \in 1..Len(lines)
    BY <1>1, <1>3, LineType
  <2> QED
    BY <2>1, OwnStamp
<1>5. \A i \in DOMAIN rows : rows[i] \in EventRow
  BY <1>3, RowType
<1>6. /\ DOMAIN rows' = DOMAIN rows
      /\ \A i \in DOMAIN rows : i # id => rows'[i] = rows[i]
      /\ rows'[id].rule = rows[id].rule /\ rows'[id].start = rows[id].start
      /\ rows'[id].end = line[b] /\ id \in DOMAIN rows /\ rows[id].end = Null
  BY <1>2, <1>3, <1>4, <1>5 DEF WithEnd, EventRow, OpenIds
<1>7. /\ Parsed(b)' = Parsed(b) /\ Reached(b)' = line[b] /\ Reached(b) = line[b]
      /\ \A k \in Parsed(b) : k \in Int /\ k < line[b]
  BY <1>1, <1>4 DEF Parsed, Reached
<1>8. ASSUME NEW i \in DOMAIN rows, i # id PROVE Dated(b, rows[i])' /\ Unbroken(b, rows[i])'
  <2>1. Dated(b, rows[i]) /\ Unbroken(b, rows[i])
    BY DEF Chronicle
  <2>2. Reached(b) <= Reached(b)'
    BY <1>4, <1>7
  <2> QED
    BY <1>3, <1>6, <1>7, <1>8, <2>1, <2>2, SameRow
<1>9. Dated(b, rows[id]) /\ Unbroken(b, rows[id])
  BY <1>6 DEF Chronicle
<1>10. Returns(rows[id].rule, lines[line[b]])
  BY <1>3 DEF Returned
<1>11. rows[id].start \in 1..line[b] /\ rows[id].start < line[b]
  <2>1. rows[id].start \in 1..line[b] /\ Crosses(rows[id].rule, lines[rows[id].start])
    BY <1>7, <1>9 DEF Dated
  <2>2. rows[id].rule \in Rules /\ lines[line[b]] \in Samples
    <3>1. lines \in Seq(Samples)
      BY <1>3 DEF TypeOK, TypeStore
    <3>2. rows[id] \in EventRow
      BY <1>5, <1>6
    <3> QED
      BY <1>4, <3>1, <3>2 DEF EventRow
  <2>3. rows[id].start # line[b]
    BY <1>10, <2>1, <2>2, NotBoth
  <2> QED
    BY <1>4, <2>1, <2>3
<1>12. Dated(b, rows[id])'
  BY <1>1, <1>4, <1>6, <1>7, <1>9, <1>10, <1>11 DEF Dated
<1>13. Unbroken(b, rows[id])'
  BY <1>1, <1>6, <1>7, <1>9 DEF Unbroken, Within
<1>14. ASSUME NEW k \in Parsed(b) PROVE Covered(b, k)'
  <2>1. Crossed(b, k)' = Crossed(b, k)
    BY <1>1 DEF Crossed
  <2>2. Covered(b, k)
    BY DEF Chronicle
  <2>3. ASSUME NEW i \in DOMAIN rows, Within(rows[i], k) PROVE Within(rows[i], k)' /\ rows'[i].rule = rows[i].rule
    BY <1>6, <1>7, <2>3 DEF Within
  <2> QED
    BY <1>6, <2>1, <2>2, <2>3 DEF Covered
<1> QED
  BY <1>1, <1>6, <1>7, <1>8, <1>12, <1>13, <1>14 DEF Chronicle

\* The line is parsed when its crossed rules have rows and no open row has returned
LEMMA LoadChronicle ==
    ASSUME Lone, EpisodesInv, TypeOK', [Next]_vars, NEW b \in Backends, Chronicle(b), LoadLine(b)
    PROVE  Chronicle(b)'
<1>1. /\ TypeOK /\ pc[b] = "end" /\ ending[b] = {} /\ pc'[b] # "down"
      /\ UNCHANGED <<lines, factory, current, since, rows>>
      /\ \/ pc'[b] = "compare" /\ line'[b] = line[b] + 1
         \/ line[b] = since[b] /\ pc'[b] = "poll"
  BY DEF LoadLine, Enter, EpisodesInv, LoneInv, UniqueInv, TypeOK, TypeThread
<1>2. line[b] \in 1..Len(lines) /\ line[b] \in Nat
  BY <1>1, LineType
<1>3. /\ Reached(b) = line[b] /\ Reached(b) <= Reached(b)'
      /\ \A k \in Parsed(b)' : k \in Parsed(b) \/ k = line[b]
  BY <1>1, <1>2 DEF Parsed, Reached
<1>4. Returned(b) = {} /\ Visited(b, line[b], {})
  BY <1>1 DEF EpisodesInv, MemoryInv, Progress
<1>5. \A i \in Int, j \in Int : i < j => ~ (j <= i)
  OBVIOUS
<1>6. ASSUME NEW id \in DOMAIN rows PROVE Dated(b, rows[id])' /\ Unbroken(b, rows[id])'
  <2>1. Dated(b, rows[id]) /\ Unbroken(b, rows[id])
    BY DEF Chronicle
  <2>2. Dated(b, rows[id])'
    <3>1. Reached(b)' \in Nat
      BY DEF Reached, TypeOK, TypeThread
    <3> QED
      BY <1>1, <1>2, <1>3, <2>1, <3>1 DEF Dated
  <2>3. ASSUME Within(rows[id], line[b]) PROVE ~ Returns(rows[id].rule, lines[line[b]])
    <3>1. rows[id].end = Null
      <4>1. rows[id].end # Null => rows[id].end \in 1..line[b]
        BY <1>3, <2>1 DEF Dated
      <4> QED
        BY <1>2, <2>3, <4>1 DEF Within
    <3>2. rows[id].by \in Backends
      BY <1>1, RowType DEF EventRow
    <3>3. rows[id].by = b /\ id \in OpenIds
      BY <3>1, <3>2 DEF OpenIds, Lone
    <3>4. id \in DOMAIN current[b] /\ current[b][id] = rows[id].rule
      BY <1>1, <3>3 DEF EpisodesInv, LoneInv, UniqueInv, WriterRemembers
    <3> QED
      BY <1>4, <3>4 DEF Returned
  <2>4. Unbroken(b, rows[id])'
    BY <1>1, <1>3, <2>1, <2>3 DEF Unbroken, Within
  <2> QED
    BY <2>2, <2>4
<1>7. ASSUME NEW k \in Parsed(b)' PROVE Covered(b, k)'
  <2>1. Crossed(b, k)' = Crossed(b, k) /\ rows' = rows
    BY <1>1 DEF Crossed
  <2>2. CASE k \in Parsed(b)
    BY <2>1, <2>2 DEF Chronicle, Covered, Within
  <2>3. CASE k = line[b]
    <3>1. ASSUME NEW e \in Crossed(b, k) PROVE \E id \in DOMAIN rows : rows[id].rule = e /\ Within(rows[id], k)
      <4>1. PICK id \in Tracked(b, e) : TRUE
        BY <1>4, <2>3 DEF Visited
      <4>2. id \in OpenIds /\ rows[id].rule = e
        BY <4>1 DEF Tracked, EpisodesInv, LoneInv, Holds
      <4>3. id \in DOMAIN rows /\ rows[id].end = Null /\ rows[id].start \in 1..line[b]
        BY <1>3, <4>2 DEF OpenIds, Chronicle, Dated
      <4> QED
        BY <1>2, <2>3, <4>2, <4>3 DEF Within
    <3> QED
      BY <2>1, <3>1 DEF Covered, Within
  <2> QED
    BY <1>3, <2>2, <2>3
<1> QED
  BY <1>1, <1>6, <1>7 DEF Chronicle

\* A life begins with nothing parsed
LEMMA StartChronicle ==
    ASSUME EpisodesInv, TypeOK', NEW b \in Backends, Chronicle(b), Start(b)
    PROVE  Chronicle(b)'
<1>1. rows' = rows /\ pc[b] = "down" /\ pc'[b] = "poll" /\ since'[b] = 0
  BY DEF Start, Load, EpisodesInv, MemoryInv, UniqueInv, FreshStart, TypeOK, TypeThread
<1>2. Parsed(b)' = 1..0
  BY <1>1 DEF Parsed
<1>3. DOMAIN rows' = {}
  BY <1>1 DEF Chronicle
<1>4. \A k \in Parsed(b)' : FALSE
  BY <1>2
<1> QED
  BY <1>1, <1>3, <1>4 DEF Chronicle

\* The rules left to visit are crossed by the line
TodoCrossed == \A b \in Backends : pc[b] \in {"compare", "alert"} => todo[b] \subseteq Crossed(b, line[b])

LEMMA StepTodo ==
    ASSUME MaxFaults = 0, TypeOK, TodoCrossed, [Next]_vars PROVE TodoCrossed'
<1>1. ASSUME NEW c \in Backends, Same(c)
      PROVE  pc'[c] \in {"compare", "alert"} => todo'[c] \subseteq Crossed(c, line[c])'
  <2> SUFFICES ASSUME pc[c] \in {"compare", "alert"} PROVE todo[c] \subseteq Crossed(c, line[c])'
    BY <1>1 DEF Same
  <2>1. line[c] \in 1..Len(lines)
    BY LineType
  <2>2. Crossed(c, line[c])' = Crossed(c, line[c])
    BY <1>1, <2>1, SameLine DEF Same, Crossed
  <2> QED
    BY <2>2 DEF TodoCrossed
<1>2. CASE UNCHANGED <<rows, memory>>
  BY <1>1, <1>2 DEF Same, memory, TodoCrossed
<1>3. ASSUME NEW b \in Backends,
             \/ Start(b) \/ Crash(b) \/ Poll(b)
             \/ \E e \in Rules : RuleUpdates(b, e) \/ RuleOpens(b, e)
             \/ SendAlert(b) \/ RulesDone(b) \/ EndEvent(b) \/ LoadLine(b)
      PROVE  TodoCrossed'
  <2>1. ASSUME NEW c \in Backends \ {b}
        PROVE  pc'[c] \in {"compare", "alert"} => todo'[c] \subseteq Crossed(c, line[c])'
    <3>1. Start(b) \/ Crash(b) \/ Process(b)
      BY <1>3 DEF Process
    <3> QED
      BY <1>1, <3>1, OthersSame
  <2>2. \/ pc'[b] \notin {"compare", "alert"}
        \/ todo'[b] = Crossed(b, line'[b]) /\ UNCHANGED <<factory, lines>>
        \/ /\ pc[b] \in {"compare", "alert"} /\ todo'[b] \subseteq todo[b]
           /\ UNCHANGED <<factory, lines, line>>
    <3> USE DEF TypeOK, TypeThread
    <3>1. CASE Start(b) \/ Crash(b)
      BY <3>1 DEF Start, Load, Crash, Forget
    <3>2. CASE Poll(b) \/ LoadLine(b)
      BY <3>2 DEF Poll, LoadLine, Enter
    <3>3. ASSUME NEW e \in Rules, RuleUpdates(b, e) \/ RuleOpens(b, e)
          PROVE  /\ pc[b] \in {"compare", "alert"} /\ todo'[b] \subseteq todo[b]
                 /\ UNCHANGED <<factory, lines, line>>
      BY <3>3 DEF RuleUpdates, RuleOpens, Remember
    <3>4. CASE SendAlert(b)
      BY <3>4 DEF SendAlert, AlertReturns
    <3>5. CASE RulesDone(b) \/ EndEvent(b)
      BY <3>5 DEF RulesDone, EndEvent
    <3> QED
      BY <1>3, <3>1, <3>2, <3>3, <3>4, <3>5
  <2>3. pc'[b] \in {"compare", "alert"} => todo'[b] \subseteq Crossed(b, line[b])'
    BY <2>2 DEF TodoCrossed, Crossed
  <2> QED
    BY <2>1, <2>3 DEF TodoCrossed
<1> QED
  BY <1>2, <1>3, Working

LEMMA StepEpisodes ==
    ASSUME MaxFaults = 0, Grain = 1, FewEvents, Lone, EpisodesInv, TodoCrossed, [Next]_vars
    PROVE  EpisodesInv'
<1>1. TypeOK /\ TypeOK' /\ MemoryInv' /\ LoneInv'
  BY StepTypeOK, StepMemory, StepLone DEF EpisodesInv, MemoryInv, UniqueInv
<1>2. CASE UNCHANGED <<rows, memory>> /\ crashes' = crashes
  <2>1. ASSUME NEW b \in Backends, Chronicle(b) PROVE Chronicle(b)'
    <3>1. Parsed(b)' = Parsed(b) /\ Reached(b)' = Reached(b) /\ Reached(b) \in Nat
      BY <1>1, <1>2, ParsedReached DEF Parsed, Reached, memory
    <3>2. Reached(b) <= Reached(b)'
      BY <3>1
    <3> QED
      BY <1>1, <1>2, <2>1, <3>1, <3>2, SameChronicle DEF memory
  <2> QED
    BY <1>1, <1>2, <2>1 DEF EpisodesInv
<1>3. ASSUME NEW b \in Backends, Crash(b) PROVE EpisodesInv'
  <2>1. crashes' # 0
    BY <1>1, <1>3 DEF Crash, TypeOK, TypeBounds
  <2> QED
    BY <1>1, <2>1 DEF EpisodesInv
<1>4. ASSUME NEW b \in Backends,
             \/ Start(b) \/ Poll(b)
             \/ \E e \in Rules : RuleUpdates(b, e) \/ RuleOpens(b, e)
             \/ SendAlert(b) \/ RulesDone(b) \/ EndEvent(b) \/ LoadLine(b)
      PROVE  EpisodesInv'
  <2>1. crashes' = crashes
    BY <1>4 DEF Start, Load, Poll, RuleUpdates, RuleOpens, Remember, SendAlert, AlertReturns,
       RulesDone, EndEvent, LoadLine
  <2> SUFFICES ASSUME crashes = 0, Chronicle(b) PROVE Chronicle(b)'
    BY <1>1, <2>1 DEF EpisodesInv, Lone
  <2>2. CASE Start(b)
    BY <1>1, <2>2, StartChronicle
  <2>3. CASE Poll(b) \/ SendAlert(b) \/ RulesDone(b)
    <3>1. /\ rows' = rows /\ factory' = factory /\ pc'[b] # "down"
          /\ Parsed(b)' = Parsed(b) /\ Reached(b) <= Reached(b)'
      <4>1. CASE Poll(b)
        BY <1>1, <4>1 DEF Poll, Enter, Parsed, Reached, TypeOK, TypeThread, TypeStore
      <4>2. CASE SendAlert(b) \/ RulesDone(b)
        BY <1>1, <4>2 DEF SendAlert, AlertReturns, RulesDone, Parsed, Reached, TypeOK, TypeThread
      <4> QED
        BY <2>3, <4>1, <4>2
    <3> QED
      BY <1>1, <3>1, SameChronicle
  <2>4. ASSUME NEW e \in Rules, RuleUpdates(b, e) PROVE Chronicle(b)'
    <3>1. /\ factory' = factory /\ pc' = pc /\ line' = line /\ since' = since /\ pc[b] # "down"
      BY <2>4 DEF RuleUpdates
    <3>2. /\ DOMAIN rows' = DOMAIN rows
          /\ \A id \in DOMAIN rows : rows'[id].start = rows[id].start /\ rows'[id].end = rows[id].end
      <4>1. \A id \in DOMAIN rows : rows[id] \in EventRow
        BY <1>1, RowType
      <4> QED
        BY <2>4, <4>1 DEF RuleUpdates, WithValue, EventRow
    <3>3. Parsed(b)' = Parsed(b) /\ Reached(b)' = Reached(b) /\ Reached(b) \in Nat
      BY <1>1, <3>1, ParsedReached DEF Parsed, Reached
    <3>4. Reached(b) <= Reached(b)'
      BY <3>3
    <3> QED
      BY <1>1, <3>1, <3>2, <3>3, <3>4, SameChronicle
  <2>5. ASSUME NEW e \in Rules, RuleOpens(b, e) PROVE Chronicle(b)'
    <3>1. todo[b] \subseteq Crossed(b, line[b])
      BY <2>5 DEF RuleOpens, Remember, TodoCrossed
    <3> QED
      BY <1>1, <2>5, <3>1, OpenChronicle
  <2>6. CASE EndEvent(b)
    BY <1>1, <2>6, EndChronicle, Working
  <2>7. CASE LoadLine(b)
    BY <1>1, <2>7, LoadChronicle
  <2> QED
    BY <1>4, <2>2, <2>3, <2>4, <2>5, <2>6, <2>7
<1>5. UNCHANGED <<rows, memory>> => crashes' = crashes \/ \E b \in Backends : Crash(b)
  <2>1. CASE UNCHANGED vars \/ AgentReports \/ EditFactory
    BY <2>1 DEF vars, AgentReports, EditFactory
  <2>2. ASSUME NEW b \in Backends, Start(b) \/ StartDegraded(b) PROVE crashes' = crashes
    BY <2>2 DEF Start, StartDegraded, Load
  <2>3. ASSUME NEW b \in Backends, Process(b) PROVE crashes' = crashes
    BY <2>3 DEF Process, Poll, PollNothing, PollErrorBody, vars, RuleUpdates, RuleOpens, Remember,
       RuleOpenFails, SendAlert, AlertLost, AlertKills, AlertReturns, RulesDone, EndEvent, LoadLine
  <2> QED
    BY <2>1, <2>2, <2>3 DEF Next
<1> QED
  BY <1>1, <1>2, <1>3, <1>4, <1>5, Working

\* If no statement fails, no two lines share a rounded timestamp and the rules are fewer
\* than four, then in the first life of a lone backend the rows of a rule are its episodes:
\* each starts on a line that crosses, ends on the first later one that has returned, and
\* every crossing line parsed lies in one.
THEOREM RowsAreEpisodes ==
    ASSUME MaxFaults = 0, Grain = 1, FewEvents, Lone PROVE Spec => []EventsAreEpisodes
<1>1. Init => TodoCrossed /\ \A b \in Backends : Chronicle(b)
  <2> SUFFICES ASSUME Init PROVE TodoCrossed /\ \A b \in Backends : Chronicle(b)
    OBVIOUS
  <2>1. /\ \A b \in Backends : pc[b] = "down" /\ line[b] = 0
        /\ DOMAIN rows = {}
    BY DEF Init
  <2>2. \A b \in Backends : Parsed(b) = 1..(0 - 1)
    BY <2>1 DEF Parsed
  <2>3. \A b \in Backends : \A k \in Parsed(b) : FALSE
    BY <2>2
  <2> QED
    BY <2>1, <2>3 DEF TodoCrossed, Chronicle
<1>2. MemoryInv /\ LoneInv /\ (\A b \in Backends : Chronicle(b)) => EpisodesInv
  BY DEF EpisodesInv
<1>3. TypeOK /\ TodoCrossed /\ [Next]_vars => TodoCrossed'
  BY StepTodo
<1>4. EpisodesInv /\ TodoCrossed /\ [Next]_vars => EpisodesInv'
  BY StepEpisodes
<1>5. EpisodesInv => EventsAreEpisodes
  <2> SUFFICES ASSUME EpisodesInv, crashes = 0 PROVE EventsAreEpisodes
    BY DEF EventsAreEpisodes
  <2>1. TypeOK /\ \A b \in Backends : Chronicle(b)
    BY DEF EpisodesInv, LoneInv, UniqueInv
  <2>2. ASSUME NEW id \in DOMAIN rows
        PROVE  LET r    == rows[id]
                   last == IF r.end = Null THEN Len(lines) + 1 ELSE r.end
               IN  /\ Crosses(r.rule, lines[r.start])
                   /\ r.end # Null => r.start < r.end /\ Returns(r.rule, lines[r.end])
                   /\ \A b \in Backends, k \in r.start..(last - 1) :
                         k \in Parsed(b) => ~ Returns(r.rule, lines[k])
    <3>1. rows[id] \in EventRow
      BY <2>1, RowType
    <3>2. rows[id].by \in Backends /\ rows[id].start \in Nat /\ rows[id].end \in Nat \cup {Null}
      BY <3>1 DEF EventRow
    <3>3. \A b \in Backends : Dated(b, rows[id]) /\ Unbroken(b, rows[id])
      BY <2>1 DEF Chronicle
    <3>4. /\ Crosses(rows[id].rule, lines[rows[id].start])
          /\ rows[id].end # Null => rows[id].start < rows[id].end /\ Returns(rows[id].rule, lines[rows[id].end])
      BY <3>2, <3>3 DEF Dated
    <3>5. ASSUME NEW b \in Backends, NEW k \in Parsed(b), rows[id].start <= k,
                 k <= (IF rows[id].end = Null THEN Len(lines) + 1 ELSE rows[id].end) - 1
          PROVE  ~ Returns(rows[id].rule, lines[k])
      <4>1. k \in Int
        BY <2>1, ParsedReached
      <4>2. rows[id].end = Null \/ k < rows[id].end
        BY <3>2, <3>5, <4>1
      <4> QED
        BY <3>3, <3>5, <4>2 DEF Unbroken, Within
    <3> QED
      BY <3>4, <3>5
  <2>3. ASSUME NEW b \in Backends, NEW k \in Parsed(b), NEW e \in Crossed(b, k)
        PROVE  \E id \in DOMAIN rows : /\ rows[id].rule = e /\ rows[id].start <= k
                                       /\ rows[id].end = Null \/ k < rows[id].end
    BY <2>1 DEF Chronicle, Covered, Within
  <2> QED
    BY <2>2, <2>3 DEF EventsAreEpisodes
<1> QED
  BY <1>1, <1>2, <1>3, <1>4, <1>5, TypeCorrect, MemoryInvariant, LoneInvariant, PTL DEF Spec
=============================================================================
